---------------------------- MODULE AsyncDevices ----------------------------
(***************************************************************************)
(* What the runtime promises its callers, with no clock, no timers and no  *)
(* threads: a call issues one future per node it runs on; a future settles *)
(* once, only after everything it depends on, and succeeds only if all of  *)
(* that succeeded.  A call in order (a timed execution) also depends on    *)
(* every call in order that was issued earlier to one of its nodes.        *)
(***************************************************************************)
CONSTANTS Calls, Nodes

Ids == Calls \X Nodes

VARIABLES
  status,  (* new | pending | ok | error, of each future                   *)
  before,  (* the futures each one depends on                              *)
  ordered  (* the futures of calls in order                                *)

vars == <<status, before, ordered>>

Issued == {id \in Ids : status[id] # "new"}
Settled == {"ok", "error"}

TypeOK ==
  /\ status \in [Ids -> {"new", "pending", "ok", "error"}]
  /\ before \in [Ids -> SUBSET Ids]
  /\ ordered \subseteq Ids

(* No future settles before what it depends on, or hides its failure.      *)
Lawful(s, b) ==
  \A id \in Ids :
    /\ s[id] \in Settled => \A j \in b[id] : s[j] \in Settled
    /\ s[id] = "ok" => \A j \in b[id] : s[j] = "ok"

Init ==
  /\ status = [id \in Ids |-> "new"]
  /\ before = [id \in Ids |-> {}]
  /\ ordered = {}

Earlier(nodes) == {id \in ordered : id[2] \in nodes}

(* A call on these nodes: its futures are pending, or settled already.      *)
Issue(c, nodes, ins, inOrder) ==
  LET new == {c} \X nodes
      deps == ins \cup (IF inOrder THEN Earlier(nodes) ELSE {})
  IN  /\ nodes # {}
      /\ \A id \in {c} \X Nodes : status[id] = "new"
      /\ ins \subseteq Issued
      /\ before' = [id \in Ids |-> IF id \in new THEN deps ELSE before[id]]
      /\ ordered' = IF inOrder THEN ordered \cup new ELSE ordered
      /\ \E s \in [new -> {"pending", "ok", "error"}] :
           status' = [id \in Ids |-> IF id \in new THEN s[id] ELSE status[id]]
      /\ Lawful(status', before')

(* Futures settle at once when they share the last promise they wait for.  *)
Settle(S) ==
  /\ \A id \in S : status[id] = "pending"
  /\ \E s \in [S -> Settled] :
       status' = [id \in Ids |-> IF id \in S THEN s[id] ELSE status[id]]
  /\ Lawful(status', before)
  /\ UNCHANGED <<before, ordered>>

Next ==
  \/ Settle({id \in Ids : status'[id] # status[id]})
  \/ \E c \in Calls, nodes \in SUBSET Nodes, ins \in SUBSET Issued,
        inOrder \in BOOLEAN : Issue(c, nodes, ins, inOrder)

Spec == Init /\ [][Next]_vars
============================================================================
