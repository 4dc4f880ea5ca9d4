-------------------------------- MODULE KVMap --------------------------------
(***************************************************************************)
(* What StoneKV promises its caller, without log, segments or memtable: a  *)
(* map that survives the process, in which a write happens at one instant  *)
(* between its call and its answer, or, if the process dies or the call    *)
(* reports an error, possibly not at all; and on which compaction, crash   *)
(* and restart have no visible effect.                                     *)
(***************************************************************************)
CONSTANTS Keys, Vals, Absent

Results == Vals \cup {Absent}

NoReq == [op |-> "none"]
CompactReq == [op |-> "compact"]
WriteReqs == [op : {"write"}, key : Keys, val : Results]

VARIABLES
  db,     \* the durable map
  req,    \* the call being served
  done,   \* has the write being served taken effect?
  view,   \* what reads return while no call is served, or {} when none can
  answer  \* the answer to the last call

vars == <<db, req, done, view, answer>>

NoView == [k \in {} |-> Absent]

Init ==
  /\ db = [k \in Keys |-> Absent]
  /\ req = NoReq
  /\ done = FALSE
  /\ view = NoView
  /\ answer = "none"

Open ==
  /\ req = NoReq
  /\ view = NoView
  /\ view' = db
  /\ answer' = "none"
  /\ UNCHANGED <<db, req, done>>

Invoke(r) ==
  /\ req = NoReq
  /\ view # NoView
  /\ req' = r
  /\ view' = NoView
  /\ answer' = "none"
  /\ UNCHANGED <<db, done>>

TakeEffect ==
  /\ req \in WriteReqs
  /\ ~done
  /\ db' = [db EXCEPT ![req.key] = req.val]
  /\ done' = TRUE
  /\ UNCHANGED <<req, view, answer>>

(* Success is only ever reported for what has happened.                    *)
Reply(a) ==
  /\ req # NoReq
  /\ a = "ok" /\ req \in WriteReqs => done
  /\ req' = NoReq
  /\ done' = FALSE
  /\ view' = db
  /\ answer' = a
  /\ UNCHANGED db

Die ==
  /\ req' = NoReq
  /\ done' = FALSE
  /\ view' = NoView
  /\ answer' = "none"
  /\ UNCHANGED db

Next ==
  \/ Open
  \/ \E r \in WriteReqs \cup {CompactReq} : Invoke(r)
  \/ TakeEffect
  \/ \E a \in {"ok", "err"} : Reply(a)
  \/ Die

Spec == Init /\ [][Next]_vars

=============================================================================
