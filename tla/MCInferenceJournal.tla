------------------------- MODULE MCInferenceJournal -------------------------
(***************************************************************************)
(* Instances of InferenceJournal for TLC.  Revision 1 is an OpenRouter     *)
(* profile and costs money, revision 2 a ChatGPT profile.                  *)
(***************************************************************************)
EXTENDS InferenceJournal, TLC

Grant(execution, machine, revision, fencing) ==
    [execution |-> execution, machine |-> machine, revision |-> revision,
     fencing |-> fencing]

Execution(id, task, root, tenant) ==
    [id |-> id, task |-> task, root |-> root, tenant |-> tenant]

MCRevisionProvider == 1 :> "openrouter" @@ 2 :> "chatgpt"
MCRevisionGeneration == 1 :> 1 @@ 2 :> 1

PaidConnections == [openrouter |-> 1, chatgpt |-> 0]
FreeConnections == [openrouter |-> 0, chatgpt |-> 1]

E1 == Execution("e1", "task", "root", "tenant")
E2 == Execution("e2", "task", "root", "tenant")

\* One assignment on a paid profile.
PaidGrants == {Grant(E1, "m1", 1, 1)}

\* Three assignments of one task: the first, its replacement and a sibling
\* that was issued the same fencing token; a fourth grant puts another
\* tenant under the same root.
RivalGrants ==
    {Grant(E1, "m1", 2, 1), Grant(E2, "m1", 2, 1), Grant(E2, "m1", 2, 2),
     Grant(Execution("e3", "other", "root", "intruder"), "m1", 2, 1)}

RequestSymmetry == Permutations(Requests)
=============================================================================
