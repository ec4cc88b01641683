------------------------- MODULE VolumeHolder_proofs -------------------------
(* reserve_volume as a lock: under Smooth (no delete is forced, no attach   *)
(* fails after its reservation, no restart) the volume has one holder at a  *)
(* time, from the compare-and-swap that reserves it to the transaction that *)
(* drops its last row, and at each step of the holder the record, the rows  *)
(* and the provider agree with where the holder stands.  OneOwner,          *)
(* ConnectedHasRow, DestroyedIsFree, DeletingIsKept and OnlyOwnerDetaches   *)
(* are read off that invariant, HoldInv.                                    *)
EXTENDS VolumeAttach_proofs

----------------------------------------------------------------------------
(* The invariant.                                                          *)

\* where a request that meets none of the excluded faults can be
SmoothPcs == {"idle", "checked", "reserved", "connecting", "plugged", "calling",
              "attached", "det_begin", "detaching", "det_term", "det_send", "det_wait"}

Serving ==
    /\ mgr = "up" /\ ext = "none" /\ upl = "none" /\ del["init"] = "none"
    /\ \A i \in Instances : client[i] \in SmoothPcs /\ seen[i] = "detached"

Call(i) == calls[waits[i]]

\* every call is awaited by the instance it was sent for, and by no other
Awaited ==
    /\ \A i \in Instances : waits[i] = NoCall <=> client[i] \notin {"calling", "det_wait"}
    /\ \A i \in Instances :
         client[i] = "calling" => /\ Call(i).op = "attach" /\ Call(i).inst = i
                                  /\ Call(i).pc \in {"queued", "driver", "save", "ok"}
    /\ \A i \in Instances :
         client[i] = "det_wait" => /\ Call(i).op = "detach" /\ Call(i).inst = i
                                   /\ Call(i).pc \in {"queued", "driver", "save", "ok", "err"}
    /\ \A c \in CallIds : calls[c].op # "none" => waits[calls[c].inst] = c

\* who has the volume, from the reservation until its last row is dropped
Holds(i) ==
    \/ client[i] \in {"reserved", "connecting", "plugged", "calling", "attached",
                      "det_begin", "detaching", "det_term", "det_send"}
    \/ client[i] = "det_wait" /\ Call(i).pc \in {"queued", "driver", "save"}

OneHolder == \A i, j \in Instances : Holds(i) /\ Holds(j) => i = j

Free == LiveRows = {} /\ attachStatus = "detached"
Reserved(who) == status = "attaching" /\ Free /\ plugged = who
Saving(i, a) == /\ status = "attaching" /\ attachStatus = "detached" /\ plugged = i
                /\ LiveRows = {a} /\ rows[a].st = "attaching"
Row(i, a) == /\ attachStatus = "attached" /\ LiveRows = {a}
             /\ rows[a] = [st |-> "attached", inst |-> i]
Using(i) ==
    /\ \E a \in AttIds : Row(i, a)
    /\ \/ status = "in-use" /\ plugged = i
       \/ "terminate" \in Faults /\ status = "detaching" /\ plugged = Nobody
Leaving(i, a, who) == status = "detaching" /\ Row(i, a) /\ plugged = who

\* what the record says of the volume at each step of its holder
Agrees(i) ==
    /\ client[i] \in {"reserved", "connecting"} => Reserved(Nobody)
    /\ client[i] = "plugged" => Reserved(i)
    /\ client[i] = "calling" =>
         /\ Call(i).pc = "queued" => Reserved(i)
         /\ Call(i).pc \in {"driver", "save"} => Saving(i, Call(i).att)
         /\ Call(i).pc = "ok" => Using(i)
    /\ client[i] \in {"attached", "det_begin"} => Using(i)
    /\ client[i] = "det_begin" => cAtt[i] \in LiveRows
    /\ client[i] = "detaching" => Leaving(i, cAtt[i], i)
    /\ client[i] \in {"det_term", "det_send"} => Leaving(i, cAtt[i], Nobody)
    /\ client[i] = "det_wait" /\ Call(i).pc \in {"queued", "driver", "save"}
         => Leaving(i, Call(i).att, Nobody)

Unheld ==
    /\ status \in {"available", "attaching", "in-use", "detaching",
                   "deleting", "error_deleting", "deleted"}
    /\ status \in {"available", "deleting", "deleted"} =>
         Free /\ \A i \in Instances : ~Holds(i)
    /\ del["user"] # "none" => status = "deleting"
    /\ status = "available" \/ (status = "deleting" /\ del["user"] # "destroy")
         => plugged = Nobody

HoldInv ==
    /\ Serving /\ Awaited /\ OneHolder /\ Unheld
    /\ \A i \in Instances : Agrees(i)

----------------------------------------------------------------------------
(* Steps and what they leave alone.                                        *)

\* at first nobody holds the volume
LEMMA HoldInit == Init => HoldInv
<1> SUFFICES ASSUME Init PROVE HoldInv
  OBVIOUS
<1> USE DEF Init
<1>1. Serving
  BY DEF Serving, SmoothPcs, Deleters
<1>2. Awaited
  BY DEF Awaited, Idle
<1>3. OneHolder /\ Unheld
  BY DEF OneHolder, Unheld, Holds, Free, LiveRows, Deleters
<1>4. \A i \in Instances : Agrees(i)
  BY DEF Agrees
<1>5. QED
  BY <1>1, <1>2, <1>3, <1>4 DEF HoldInv

\* a call belongs to the instance that awaits it
LEMMA CallOwner ==
  ASSUME TypeOK, HoldInv, NEW c \in CallIds, calls[c].op # "none"
  PROVE  LET i == calls[c].inst IN
         /\ i \in Instances /\ waits[i] = c /\ Call(i) = calls[c]
         /\ \/ /\ calls[c].op = "attach" /\ client[i] = "calling"
               /\ calls[c].pc \in {"queued", "driver", "save", "ok"}
            \/ /\ calls[c].op = "detach" /\ client[i] = "det_wait"
               /\ calls[c].pc \in {"queued", "driver", "save", "ok", "err"}
<1> DEFINE i == calls[c].inst
<1>1. i \in Instances /\ calls[c].op \in {"attach", "detach"}
  BY CallFields DEF CallRecords, Idle
<1>2. waits[i] = c /\ waits[i] # NoCall
  BY <1>1, ConstantsAssumption DEF HoldInv, Awaited
<1>3. client[i] \in {"calling", "det_wait"}
  BY <1>1, <1>2 DEF HoldInv, Awaited
<1>4. QED
  BY <1>1, <1>2, <1>3 DEF HoldInv, Awaited, Call

\* different instances await different calls
LEMMA CallsApart ==
  ASSUME TypeOK, HoldInv, NEW i \in Instances, NEW j \in Instances, i # j,
         waits[i] # NoCall
  PROVE  waits[i] # waits[j]
<1>1. waits[i] \in CallIds
  BY DEF TypeOK
<1>2. client[i] \in {"calling", "det_wait"}
  BY DEF HoldInv, Awaited
<1>3. Call(i).inst = i
  BY <1>2 DEF HoldInv, Awaited
<1>4. waits[j] # NoCall => Call(j).inst = j
  BY DEF HoldInv, Awaited
<1>5. QED
  BY <1>3, <1>4 DEF Call

\* a step of the holder: the others' state is theirs alone
LEMMA HolderStep ==
  ASSUME HoldInv, NEW i \in Instances, Holds(i),
         \A j \in Instances \ {i} :
           /\ client'[j] = client[j] /\ waits'[j] = waits[j]
           /\ waits[j] # NoCall => calls'[waits[j]] = calls[waits[j]],
         Serving', Awaited', Unheld', Agrees(i)'
  PROVE  HoldInv'
<1>1. \A j \in Instances \ {i} : ~Holds(j)
  BY DEF HoldInv, OneHolder
<1>2. \A j \in Instances \ {i} : ~Holds(j)'
  BY <1>1 DEF Holds, Call, HoldInv, Awaited
<1>3. OneHolder'
  BY <1>2 DEF OneHolder
<1>4. \A j \in Instances : Agrees(j)'
  <2> TAKE j \in Instances
  <2>1. CASE j = i
    BY <2>1
  <2>2. CASE j # i
    BY <2>2, <1>2 DEF Agrees, Holds
  <2>3. QED
    BY <2>1, <2>2
<1>5. QED
  BY <1>3, <1>4 DEF HoldInv

\* a client that moves without a call
LEMMA MoveKeeps ==
  ASSUME TypeOK, HoldInv, NEW i \in Instances, NEW from, NEW to \in SmoothPcs,
         {from, to} \cap {"calling", "det_wait"} = {}, Move(i, from, to),
         UNCHANGED <<seen, waits, calls, jobs, mgr>>
  PROVE  /\ Serving' /\ Awaited'
         /\ \A j \in Instances \ {i} : client'[j] = client[j]
         /\ client'[i] = to
<1>1. /\ \A j \in Instances \ {i} : client'[j] = client[j]
      /\ client[i] = from /\ client'[i] = to
  BY DEF TypeOK, Move
<1>2. Serving'
  BY <1>1 DEF HoldInv, Serving, jobs
<1>3. Awaited'
  <2>1. \A j \in Instances : /\ Call(j)' = Call(j)
                             /\ \A pc \in {"calling", "det_wait"} :
                                  client'[j] = pc <=> client[j] = pc
    BY <1>1 DEF Call
  <2>2. QED
    BY <2>1 DEF HoldInv, Awaited
<1>4. QED
  BY <1>1, <1>2, <1>3

\* the holder moves without a call
LEMMA HolderMoves ==
  ASSUME TypeOK, HoldInv, NEW i \in Instances, NEW from, NEW to \in SmoothPcs,
         {from, to} \cap {"calling", "det_wait"} = {}, Move(i, from, to),
         UNCHANGED <<seen, waits, calls, jobs, mgr>>,
         Holds(i), Unheld', Agrees(i)'
  PROVE  HoldInv'
BY MoveKeeps, HolderStep

\* the holder sends a call
LEMMA HolderSends ==
  ASSUME TypeOK, HoldInv, NEW i \in Instances, NEW from, NEW to,
         NEW o, NEW a \in AttIds \cup {NoAtt},
         \/ o = "attach" /\ to = "calling"
         \/ o = "detach" /\ to = "det_wait",
         from \notin {"calling", "det_wait"}, Holds(i),
         SendCall(i, from, to, Request(o, i, a)),
         Unheld', Agrees(i)'
  PROVE  HoldInv'
<1>1. PICK c \in FreeCalls : /\ calls' = [calls EXCEPT ![c] = Request(o, i, a)]
                             /\ waits' = [waits EXCEPT ![i] = c]
  BY DEF SendCall
<1>2. c \in CallIds /\ c # NoCall /\ calls[c] = Idle /\ \A j \in Instances : waits[j] # c
  BY <1>1, ConstantsAssumption DEF FreeCalls
<1>3. /\ \A j \in Instances \ {i} : client'[j] = client[j] /\ waits'[j] = waits[j]
      /\ client'[i] = to /\ waits'[i] = c /\ calls'[c] = Request(o, i, a)
      /\ \A d \in CallIds \ {c} : calls'[d] = calls[d]
  BY <1>1, <1>2 DEF TypeOK, SendCall, Move
<1>4. \A j \in Instances \ {i} : waits[j] # NoCall =>
         waits[j] \in CallIds \ {c} /\ calls'[waits[j]] = calls[waits[j]]
  BY <1>2, <1>3 DEF TypeOK
<1>5. Serving'
  BY <1>3 DEF HoldInv, Serving, SendCall, jobs, SmoothPcs
<1>6. Awaited'
  <2>1. calls'[c].op = o /\ calls'[c].pc = "queued" /\ calls'[c].inst = i
    BY <1>3 DEF Request
  <2>2. waits[i] = NoCall
    BY DEF HoldInv, Awaited, SendCall, Move
  <2>3. \A j \in Instances \ {i} : Call(j)' = Call(j) \/ waits[j] = NoCall
    BY <1>3, <1>4 DEF Call
  <2>4. \A j \in Instances : waits'[j] = NoCall <=> client'[j] \notin {"calling", "det_wait"}
    BY <1>2, <1>3 DEF HoldInv, Awaited
  <2>5. \A j \in Instances : client'[j] = "calling" =>
           /\ Call(j)'.op = "attach" /\ Call(j)'.inst = j
           /\ Call(j)'.pc \in {"queued", "driver", "save", "ok"}
    <3> TAKE j \in Instances
    <3>1. CASE j = i
      BY <3>1, <1>3, <2>1 DEF Call
    <3>2. CASE j # i
      BY <3>2, <1>3, <2>3 DEF HoldInv, Awaited
    <3>3. QED
      BY <3>1, <3>2
  <2>6. \A j \in Instances : client'[j] = "det_wait" =>
           /\ Call(j)'.op = "detach" /\ Call(j)'.inst = j
           /\ Call(j)'.pc \in {"queued", "driver", "save", "ok", "err"}
    <3> TAKE j \in Instances
    <3>1. CASE j = i
      BY <3>1, <1>3, <2>1 DEF Call
    <3>2. CASE j # i
      BY <3>2, <1>3, <2>3 DEF HoldInv, Awaited
    <3>3. QED
      BY <3>1, <3>2
  <2>7. \A d \in CallIds : calls'[d].op # "none" => waits'[calls'[d].inst] = d
    <3> TAKE d \in CallIds
    <3>1. CASE d = c
      BY <3>1, <1>3, <2>1
    <3>2. CASE d # c
      <4>1. calls'[d] = calls[d]
        BY <3>2, <1>3
      <4>2. calls[d].op # "none" =>
              calls[d].inst \in Instances /\ calls[d].inst # i /\ waits[calls[d].inst] = d
        BY CallOwner, <2>2, ConstantsAssumption
      <4>3. QED
        BY <4>1, <4>2, <1>3
    <3>3. QED
      BY <3>1, <3>2
  <2>8. QED
    BY <2>4, <2>5, <2>6, <2>7 DEF Awaited
<1>7. QED
  BY <1>3, <1>4, <1>5, <1>6, HolderStep

\* a handler goes on with the holder's call, or ends it
LEMMA HolderCall ==
  ASSUME TypeOK, HoldInv, NEW c \in CallIds, NEW op \in {"attach", "detach"},
         NEW from \in {"queued", "driver", "save"},
         NEW to \in {"driver", "save", "ok", "err"}, to = "err" => op = "detach",
         NEW a, CallStep(c, op, from, to, a),
         NEW i, calls[c].inst = i, Unheld', Agrees(i)'
  PROVE  HoldInv'
<1>1. /\ i \in Instances /\ waits[i] = c /\ Holds(i)
      /\ client[i] = IF op = "attach" THEN "calling" ELSE "det_wait"
  BY CallOwner DEF CallStep, Holds
<1>2. /\ UNCHANGED <<client, seen, waits, del, ext, upl, mgr>>
      /\ \A d \in CallIds \ {c} : calls'[d] = calls[d]
      /\ calls'[c].op = op /\ calls'[c].pc = to /\ calls'[c].inst = i
  <2>1. calls[c] \in CallRecords \ {Idle}
    BY CallFields DEF CallStep, Idle
  <2>2. QED
    BY <2>1 DEF TypeOK, CallRecords, CallStep, compute, jobs
<1>3. \A j \in Instances \ {i} : waits[j] # NoCall => waits[j] \in CallIds \ {c}
  BY <1>1, CallsApart, ConstantsAssumption DEF TypeOK
<1>4. Serving'
  BY <1>2 DEF HoldInv, Serving
<1>5. Awaited'
  <2>1. \A j \in Instances \ {i} : waits[j] # NoCall => Call(j)' = Call(j)
    BY <1>2, <1>3 DEF Call
  <2>2. Call(i)'.op = op /\ Call(i)'.pc = to /\ Call(i)'.inst = i
    BY <1>1, <1>2 DEF Call
  <2>3. \A j \in Instances : waits'[j] = NoCall <=> client'[j] \notin {"calling", "det_wait"}
    BY <1>2 DEF HoldInv, Awaited
  <2>4. \A j \in Instances : client'[j] = "calling" =>
           /\ Call(j)'.op = "attach" /\ Call(j)'.inst = j
           /\ Call(j)'.pc \in {"queued", "driver", "save", "ok"}
    <3> SUFFICES ASSUME NEW j \in Instances, client'[j] = "calling"
                 PROVE  /\ Call(j)'.op = "attach" /\ Call(j)'.inst = j
                        /\ Call(j)'.pc \in {"queued", "driver", "save", "ok"}
      OBVIOUS
    <3>1. CASE j = i
      BY <3>1, <1>1, <1>2, <2>2
    <3>2. CASE j # i
      BY <3>2, <1>2, <2>1 DEF HoldInv, Awaited
    <3>3. QED
      BY <3>1, <3>2
  <2>5. \A j \in Instances : client'[j] = "det_wait" =>
           /\ Call(j)'.op = "detach" /\ Call(j)'.inst = j
           /\ Call(j)'.pc \in {"queued", "driver", "save", "ok", "err"}
    <3> SUFFICES ASSUME NEW j \in Instances, client'[j] = "det_wait"
                 PROVE  /\ Call(j)'.op = "detach" /\ Call(j)'.inst = j
                        /\ Call(j)'.pc \in {"queued", "driver", "save", "ok", "err"}
      OBVIOUS
    <3>1. CASE j = i
      BY <3>1, <1>1, <1>2, <2>2
    <3>2. CASE j # i
      BY <3>2, <1>2, <2>1 DEF HoldInv, Awaited
    <3>3. QED
      BY <3>1, <3>2
  <2>6. \A d \in CallIds : calls'[d].op # "none" => waits'[calls'[d].inst] = d
    BY <1>1, <1>2 DEF HoldInv, Awaited
  <2>7. QED
    BY <2>3, <2>4, <2>5, <2>6 DEF Awaited
<1>6. QED
  BY <1>1, <1>2, <1>3, <1>4, <1>5, HolderStep

\* the instance takes its answer: its call slot is free again
LEMMA AnswerKeeps ==
  ASSUME TypeOK, HoldInv, NEW i \in Instances, NEW from \in {"calling", "det_wait"},
         NEW to \in SmoothPcs \ {"calling", "det_wait"}, NEW pc,
         Move(i, from, to), Answered(i, pc), StopWaiting(i)
  PROVE  /\ Serving' /\ Awaited' /\ client'[i] = to
         /\ \A j \in Instances \ {i} :
              /\ client'[j] = client[j] /\ waits'[j] = waits[j]
              /\ waits[j] # NoCall => calls'[waits[j]] = calls[waits[j]]
<1> DEFINE c == waits[i]
<1>1. c \in CallIds /\ c # NoCall
  BY ConstantsAssumption DEF Answered, TypeOK
<1>2. /\ \A j \in Instances \ {i} : client'[j] = client[j] /\ waits'[j] = waits[j]
      /\ client'[i] = to /\ waits'[i] = NoCall /\ calls'[c] = Idle
      /\ \A d \in CallIds \ {c} : calls'[d] = calls[d]
  BY <1>1 DEF TypeOK, Move, Answered, StopWaiting
<1>3. \A j \in Instances \ {i} : waits[j] # NoCall => waits[j] \in CallIds \ {c}
  BY <1>1, CallsApart, ConstantsAssumption DEF TypeOK
<1>4. \A j \in Instances \ {i} : waits[j] # NoCall => calls'[waits[j]] = calls[waits[j]]
  BY <1>2, <1>3
<1>5. Serving'
  BY <1>2 DEF HoldInv, Serving, StopWaiting, jobs
<1>6. Awaited'
  <2>1. \A j \in Instances : waits'[j] = NoCall <=> client'[j] \notin {"calling", "det_wait"}
    BY <1>2 DEF HoldInv, Awaited
  <2>2. \A j \in Instances \ {i} : waits[j] # NoCall => Call(j)' = Call(j)
    BY <1>2, <1>4 DEF Call
  <2>3. \A j \in Instances : client'[j] = "calling" =>
           /\ Call(j)'.op = "attach" /\ Call(j)'.inst = j
           /\ Call(j)'.pc \in {"queued", "driver", "save", "ok"}
    <3> SUFFICES ASSUME NEW j \in Instances, client'[j] = "calling"
                 PROVE  /\ Call(j)'.op = "attach" /\ Call(j)'.inst = j
                        /\ Call(j)'.pc \in {"queued", "driver", "save", "ok"}
      OBVIOUS
    <3>1. j # i /\ client[j] = "calling"
      BY <1>2
    <3>2. QED
      BY <3>1, <2>2 DEF HoldInv, Awaited
  <2>4. \A j \in Instances : client'[j] = "det_wait" =>
           /\ Call(j)'.op = "detach" /\ Call(j)'.inst = j
           /\ Call(j)'.pc \in {"queued", "driver", "save", "ok", "err"}
    <3> SUFFICES ASSUME NEW j \in Instances, client'[j] = "det_wait"
                 PROVE  /\ Call(j)'.op = "detach" /\ Call(j)'.inst = j
                        /\ Call(j)'.pc \in {"queued", "driver", "save", "ok", "err"}
      OBVIOUS
    <3>1. j # i /\ client[j] = "det_wait"
      BY <1>2
    <3>2. QED
      BY <3>1, <2>2 DEF HoldInv, Awaited
  <2>5. \A d \in CallIds : calls'[d].op # "none" => waits'[calls'[d].inst] = d
    <3> SUFFICES ASSUME NEW d \in CallIds, calls'[d].op # "none"
                 PROVE  waits'[calls'[d].inst] = d
      OBVIOUS
    <3>1. d # c /\ calls'[d] = calls[d]
      BY <1>2 DEF Idle
    <3>2. calls[d].inst \in Instances /\ waits[calls[d].inst] = d
      BY <3>1, CallOwner
    <3>3. QED
      BY <3>1, <3>2, <1>2
  <2>6. QED
    BY <2>1, <2>3, <2>4, <2>5 DEF Awaited
<1>7. QED
  BY <1>2, <1>4, <1>5, <1>6

\* a step of an instance that does not hold the volume, before and after
LEMMA AsideStep ==
  ASSUME HoldInv, NEW i \in Instances, ~Holds(i), ~Holds(i)',
         \A j \in Instances \ {i} :
           /\ client'[j] = client[j] /\ waits'[j] = waits[j]
           /\ waits[j] # NoCall => calls'[waits[j]] = calls[waits[j]],
         UNCHANGED <<record, plugged, cAtt, del>>, Serving', Awaited'
  PROVE  HoldInv'
<1>1. LiveRows' = LiveRows
  BY SameRowsLive DEF record
<1>2. \A j \in Instances \ {i} :
         client[j] \in {"calling", "det_wait"} => Call(j)' = Call(j)
  BY DEF Call, HoldInv, Awaited
<1>3. \A j \in Instances : Holds(j)' <=> Holds(j)
  BY <1>2 DEF Holds
<1>4. OneHolder' /\ Unheld'
  BY <1>1, <1>3 DEF HoldInv, OneHolder, Unheld, Free, record
<1>5. \A j \in Instances : Agrees(j)'
  <2> TAKE j \in Instances
  <2>1. CASE j = i
    BY <2>1 DEF Agrees, Holds
  <2>2. CASE j # i
    <3>1. Agrees(j) /\ client'[j] = client[j] /\ cAtt'[j] = cAtt[j]
      BY <2>2 DEF HoldInv
    <3>2. QED
      BY <3>1, <1>1, <1>2, <2>2
         DEF Agrees, Reserved, Free, Saving, Using, Leaving, Row, record
  <2>3. QED
    BY <2>1, <2>2
<1>6. QED
  BY <1>4, <1>5 DEF HoldInv

\* a step of the delete handler, while nobody holds the volume
LEMMA DeleterStep ==
  ASSUME HoldInv, \A i \in Instances : ~Holds(i),
         UNCHANGED <<client, seen, waits, calls, ext, upl, mgr>>,
         del'["init"] = "none", Unheld'
  PROVE  HoldInv'
<1>1. Serving'
  BY DEF HoldInv, Serving
<1>2. Awaited'
  BY DEF HoldInv, Awaited, Call
<1>3. \A i \in Instances : ~Holds(i)'
  BY DEF Holds, Call
<1>4. OneHolder' /\ \A i \in Instances : Agrees(i)'
  BY <1>3 DEF OneHolder, Agrees, Holds
<1>5. QED
  BY <1>1, <1>2, <1>4 DEF HoldInv

----------------------------------------------------------------------------
(* The invariant is inductive.                                             *)

\* reserve_volume: the compare-and-swap finds a volume nobody holds
LEMMA ReserveStep ==
  ASSUME TypeOK, HoldInv, NEW i \in Instances, Reserve(i)
  PROVE  HoldInv'
<1>1. /\ Serving' /\ Awaited' /\ client'[i] = "reserved"
      /\ \A j \in Instances \ {i} : client'[j] = client[j]
  BY MoveKeeps DEF Reserve, Elsewhere, SmoothPcs
<1>2. Free /\ plugged = Nobody /\ \A j \in Instances : ~Holds(j)
  BY DEF Reserve, HoldInv, Unheld
<1>3. LiveRows' = LiveRows
  BY SameRowsLive DEF Reserve
<1>4. \A j \in Instances \ {i} : ~Holds(j)'
  BY <1>1, <1>2 DEF Holds, Call, Reserve, Elsewhere
<1>5. OneHolder'
  BY <1>4 DEF OneHolder
<1>6. Unheld'
  BY <1>2, <1>3 DEF HoldInv, Unheld, Reserve, Elsewhere, jobs
<1>7. Agrees(i)'
  BY <1>1, <1>2, <1>3 DEF Agrees, Reserved, Free, Reserve
<1>8. \A j \in Instances : Agrees(j)'
  BY <1>4, <1>7 DEF Agrees, Holds
<1>9. QED
  BY <1>1, <1>5, <1>6, <1>8 DEF HoldInv

\* the compute side of an attach
LEMMA AttachClientStep ==
  ASSUME Smooth, TypeOK, HoldInv, NEW i \in Instances,
         \/ CheckAttach(i) \/ Reserve(i) \/ ReserveFails(i) \/ LoseAttachRequest(i)
         \/ ReadVolume(i) \/ ReadFails(i) \/ VirtAttach(i) \/ VirtAttachFails(i)
         \/ SendAttach(i) \/ SkipAttach(i) \/ AttachReturns(i) \/ AttachRaises(i)
  PROVE  HoldInv'
<1> USE DEF Elsewhere, SmoothPcs
<1>1. /\ Serving /\ Awaited /\ Unheld /\ Agrees(i)
  BY DEF HoldInv
<1>2. rows' = rows => LiveRows' = LiveRows
  BY SameRowsLive
<1>3. CASE CheckAttach(i) \/ ReserveFails(i)
  <2>1. PICK from \in {"idle", "checked"}, to \in {"idle", "checked"} :
          Move(i, from, to) /\ UNCHANGED <<record, plugged>> /\ Elsewhere
    BY <1>3 DEF CheckAttach, ReserveFails
  <2>2. /\ Serving' /\ Awaited' /\ client'[i] = to
        /\ \A j \in Instances \ {i} : client'[j] = client[j]
    BY <2>1, MoveKeeps
  <2>3. ~Holds(i) /\ ~Holds(i)'
    BY <2>1, <2>2 DEF Move, Holds
  <2>4. QED
    BY <2>1, <2>2, <2>3, AsideStep DEF jobs
<1>4. CASE Reserve(i)
  BY <1>4, ReserveStep
<1>5. CASE LoseAttachRequest(i)
  <2>1. client'[i] = "idle" /\ client[i] = "reserved" /\ Holds(i)
    BY <1>5 DEF LoseAttachRequest, Move, TypeOK, Holds
  <2>2. Reserved(Nobody)
    BY <1>1, <2>1 DEF Agrees
  <2>3. Unheld'
    BY <1>1, <1>2, <1>5, <2>2
       DEF LoseAttachRequest, Unheld, Reserved, record, jobs
  <2>4. Agrees(i)'
    BY <2>1 DEF Agrees
  <2>5. QED
    BY <1>5, <2>1, <2>3, <2>4, HolderMoves DEF LoseAttachRequest
<1>6. CASE ReadVolume(i)
  <2>1. client'[i] = "connecting" /\ client[i] = "reserved" /\ Holds(i)
    BY <1>6 DEF ReadVolume, Move, TypeOK, Holds
  <2>2. Reserved(Nobody)
    BY <1>1, <2>1 DEF Agrees
  <2>3. seen' = seen
    BY <1>1, <1>6, <2>2 DEF ReadVolume, TypeOK, Serving, Reserved, Free
  <2>4. Unheld' /\ Agrees(i)'
    BY <1>1, <1>2, <1>6, <2>1, <2>2
       DEF ReadVolume, Unheld, Agrees, Reserved, Free, record, jobs
  <2>5. QED
    BY <1>6, <2>1, <2>3, <2>4, HolderMoves DEF ReadVolume
<1>7. CASE ReadFails(i)
  <2>1. client[i] = "reserved" /\ status = "deleted"
    BY <1>7 DEF ReadFails, Smooth, Move
  <2>2. QED
    BY <1>1, <2>1 DEF Agrees, Reserved
<1>8. CASE VirtAttach(i)
  <2>1. client'[i] = "plugged" /\ client[i] = "connecting" /\ Holds(i)
    BY <1>8 DEF VirtAttach, Move, TypeOK, Holds
  <2>2. Reserved(Nobody)
    BY <1>1, <2>1 DEF Agrees
  <2>3. Unheld' /\ Agrees(i)'
    BY <1>1, <1>2, <1>8, <2>1, <2>2
       DEF VirtAttach, Unheld, Agrees, Reserved, Free, record, jobs
  <2>4. QED
    BY <1>8, <2>1, <2>3, HolderMoves DEF VirtAttach
<1>9. CASE VirtAttachFails(i)
  <2>1. client[i] = "connecting" /\ plugged # Nobody
    BY <1>9 DEF VirtAttachFails, Smooth, Move
  <2>2. QED
    BY <1>1, <2>1 DEF Agrees, Reserved
<1>10. CASE SendAttach(i)
  <2>1. client'[i] = "calling" /\ client[i] = "plugged" /\ Holds(i)
        /\ Call(i)'.pc = "queued"
    BY <1>10 DEF SendAttach, SendCall, Request, Move, TypeOK, Holds, Call, FreeCalls
  <2>2. Reserved(i)
    BY <1>1, <2>1 DEF Agrees
  <2>3. Unheld' /\ Agrees(i)'
    BY <1>1, <1>2, <1>10, <2>1, <2>2
       DEF SendAttach, SendCall, Unheld, Agrees, Reserved, Free, record, jobs
  <2>4. QED
    BY <1>10, <2>1, <2>3, HolderSends DEF SendAttach
<1>11. CASE SkipAttach(i)
  BY <1>1, <1>11 DEF SkipAttach, Serving
<1>12. CASE AttachReturns(i)
  <2>1. /\ client[i] = "calling" /\ Call(i).pc = "ok" /\ Holds(i)
        /\ Move(i, "calling", "attached") /\ Answered(i, "ok") /\ StopWaiting(i)
    BY <1>12 DEF AttachReturns, Answered, Move, Holds, Call
  <2>2. /\ Serving' /\ Awaited' /\ client'[i] = "attached"
        /\ \A j \in Instances \ {i} :
             /\ client'[j] = client[j] /\ waits'[j] = waits[j]
             /\ waits[j] # NoCall => calls'[waits[j]] = calls[waits[j]]
    BY <2>1, AnswerKeeps
  <2>3. Using(i)
    BY <1>1, <2>1 DEF Agrees
  <2>4. Unheld'
    BY <1>1, <1>2, <2>1, <2>3 DEF Unheld, Using, StopWaiting, record, jobs
  <2>5. Agrees(i)'
    BY <1>2, <2>1, <2>2, <2>3 DEF Agrees, Using, Row, StopWaiting, record
  <2>6. QED
    BY <2>1, <2>2, <2>4, <2>5, HolderStep
<1>13. CASE AttachRaises(i)
  <2>1. client[i] = "calling" /\ (Call(i).pc = "err" \/ Call(i) = Idle)
    BY <1>13 DEF AttachRaises, Answered, NoAnswer, Smooth, Move, Call
  <2>2. QED
    BY <1>1, <2>1 DEF Awaited, Idle
<1>14. QED
  BY <1>3, <1>4, <1>5, <1>6, <1>7, <1>8, <1>9, <1>10, <1>11, <1>12, <1>13

\* the compute side of a detach
LEMMA DetachClientStep ==
  ASSUME Smooth, TypeOK, HoldInv, NEW i \in Instances,
         \/ DetachRead(i) \/ BeginDetaching(i) \/ BeginDetachingFails(i)
         \/ VirtDetach(i) \/ VirtDetachFails(i) \/ DetachTerminate(i)
         \/ SendDetach(i) \/ DetachReturns(i)
  PROVE  HoldInv'
<1> USE DEF Elsewhere, SmoothPcs
<1>1. /\ Serving /\ Awaited /\ Unheld /\ Agrees(i)
  BY DEF HoldInv
<1>2. rows' = rows => LiveRows' = LiveRows
  BY SameRowsLive
<1>3. CASE DetachRead(i)
  <2>1. client'[i] = "det_begin" /\ client[i] = "attached" /\ Holds(i)
    BY <1>3 DEF DetachRead, Move, TypeOK, Holds
  <2>2. Using(i)
    BY <1>1, <2>1 DEF Agrees
  <2>3. cAtt'[i] \in LiveRows
    BY <1>3 DEF DetachRead, RowsOf, TypeOK
  <2>4. Unheld'
    BY <1>1, <1>2, <1>3, <2>2 DEF DetachRead, Unheld, Using, record, jobs
  <2>5. Agrees(i)'
    BY <1>2, <1>3, <2>1, <2>2, <2>3 DEF DetachRead, Agrees, Using, Row, record
  <2>6. QED
    BY <1>3, <2>1, <2>4, <2>5, HolderMoves DEF DetachRead
<1>4. CASE BeginDetaching(i)
  <2>1. client'[i] = "detaching" /\ client[i] = "det_begin" /\ Holds(i)
    BY <1>4 DEF BeginDetaching, Move, TypeOK, Holds
  <2>2. Row(i, cAtt[i]) /\ plugged = i
    BY <1>1, <1>4, <2>1 DEF Agrees, Using, Row, BeginDetaching
  <2>3. Unheld'
    BY <1>1, <1>4 DEF BeginDetaching, Unheld, jobs
  <2>4. Agrees(i)'
    BY <1>2, <1>4, <2>1, <2>2 DEF BeginDetaching, Agrees, Leaving, Row
  <2>5. QED
    BY <1>4, <2>1, <2>3, <2>4, HolderMoves DEF BeginDetaching
<1>5. CASE BeginDetachingFails(i)
  <2>1. client'[i] = "attached" /\ client[i] = "det_begin" /\ Holds(i)
    BY <1>5 DEF BeginDetachingFails, Move, TypeOK, Holds
  <2>2. Using(i)
    BY <1>1, <2>1 DEF Agrees
  <2>3. Unheld'
    BY <1>1, <1>2, <1>5, <2>2 DEF BeginDetachingFails, Unheld, Using, record, jobs
  <2>4. Agrees(i)'
    BY <1>2, <1>5, <2>1, <2>2 DEF BeginDetachingFails, Agrees, Using, Row, record
  <2>5. QED
    BY <1>5, <2>1, <2>3, <2>4, HolderMoves DEF BeginDetachingFails
<1>6. CASE VirtDetach(i)
  <2>1. client'[i] = "det_term" /\ client[i] = "detaching" /\ Holds(i)
    BY <1>6 DEF VirtDetach, Move, TypeOK, Holds
  <2>2. Leaving(i, cAtt[i], i)
    BY <1>1, <2>1 DEF Agrees
  <2>3. Unheld' /\ Agrees(i)'
    BY <1>1, <1>2, <1>6, <2>1, <2>2
       DEF VirtDetach, Unheld, Agrees, Leaving, Row, record, jobs
  <2>4. QED
    BY <1>6, <2>1, <2>3, HolderMoves DEF VirtDetach
<1>7. CASE VirtDetachFails(i)
  <2>1. client'[i] = "attached" /\ client[i] = "detaching" /\ Holds(i)
    BY <1>7 DEF VirtDetachFails, Move, TypeOK, Holds
  <2>2. Leaving(i, cAtt[i], i) /\ cAtt[i] \in AttIds
    BY <1>1, <2>1 DEF Agrees, Leaving, Row, LiveRows
  <2>3. Unheld' /\ Agrees(i)'
    BY <1>1, <1>2, <1>7, <2>1, <2>2
       DEF VirtDetachFails, RollDetaching, Unheld, Agrees, Leaving, Using, Row, jobs
  <2>4. QED
    BY <1>7, <2>1, <2>3, HolderMoves DEF VirtDetachFails
<1>8. CASE DetachTerminate(i)
  <2>1. client[i] = "det_term" /\ Holds(i)
    BY <1>8 DEF DetachTerminate, Terminate, Move, Holds
  <2>2. Leaving(i, cAtt[i], Nobody) /\ cAtt[i] \in AttIds
    BY <1>1, <2>1 DEF Agrees, Leaving, Row, LiveRows
  <2>3. PICK to \in {"det_send", "attached"} :
          Move(i, "det_term", to) /\ (to = "attached" => "terminate" \in Faults)
    BY <1>8, <2>2 DEF DetachTerminate, Terminate, Leaving
  <2>4. client'[i] = to /\ UNCHANGED <<record, plugged>>
    BY <1>8, <2>2, <2>3
       DEF DetachTerminate, Terminate, Move, TypeOK, UnreserveVolume, Leaving, record
  <2>5. Unheld' /\ Agrees(i)'
    BY <1>1, <1>2, <1>8, <2>2, <2>3, <2>4
       DEF DetachTerminate, Terminate, Unheld, Agrees, Leaving, Using, Row, record, jobs
  <2>6. QED
    BY <1>8, <2>1, <2>3, <2>5, HolderMoves DEF DetachTerminate, Terminate
<1>9. CASE SendDetach(i)
  <2>1. client'[i] = "det_wait" /\ client[i] = "det_send" /\ Holds(i)
        /\ Call(i)'.pc = "queued" /\ Call(i)'.att = cAtt[i]
    BY <1>9 DEF SendDetach, SendCall, Request, Move, TypeOK, Holds, Call, FreeCalls
  <2>2. Leaving(i, cAtt[i], Nobody) /\ cAtt[i] \in AttIds
    BY <1>1, <2>1 DEF Agrees, Leaving, Row, LiveRows
  <2>3. Unheld' /\ Agrees(i)'
    BY <1>1, <1>2, <1>9, <2>1, <2>2
       DEF SendDetach, SendCall, Unheld, Agrees, Leaving, Row, record, jobs
  <2>4. QED
    BY <1>9, <2>1, <2>2, <2>3, HolderSends DEF SendDetach
<1>10. CASE DetachReturns(i)
  <2>1. /\ client[i] = "det_wait" /\ Call(i).pc \in {"ok", "err"}
        /\ Move(i, "det_wait", "idle") /\ Answered(i, Call(i).pc) /\ StopWaiting(i)
    <3>1. client[i] = "det_wait" /\ Call(i) # Idle
      BY <1>1, <1>10 DEF DetachReturns, Move, Awaited, Idle
    <3>2. QED
      BY <1>10, <3>1 DEF DetachReturns, Answered, NoAnswer, Smooth, Call
  <2>2. /\ Serving' /\ Awaited' /\ client'[i] = "idle"
        /\ \A j \in Instances \ {i} :
             /\ client'[j] = client[j] /\ waits'[j] = waits[j]
             /\ waits[j] # NoCall => calls'[waits[j]] = calls[waits[j]]
    BY <2>1, AnswerKeeps
  <2>3. ~Holds(i) /\ ~Holds(i)'
    BY <2>1, <2>2 DEF Holds
  <2>4. QED
    BY <2>1, <2>2, <2>3, AsideStep DEF StopWaiting, jobs
<1>11. QED
  BY <1>3, <1>4, <1>5, <1>6, <1>7, <1>8, <1>9, <1>10

\* the compensations of a failed attach are not reached
LEMMA UndoStep ==
  ASSUME HoldInv, NEW i \in Instances,
         \/ FailTerminate(i) \/ UndoUnplug(i) \/ UndoTerminate(i) \/ UndoDetach(i)
         \/ UndoDetachReturns(i) \/ UndoUnreserve(i)
  PROVE  FALSE
<1>1. client[i] \in SmoothPcs
  BY DEF HoldInv, Serving
<1>2. QED
  BY <1>1 DEF FailTerminate, UndoUnplug, UndoTerminate, UndoDetach, Terminate, SendCall,
              UndoDetachReturns, UndoUnreserve, Move, SmoothPcs

\* attach_volume: the row it inserts is the only one, and becomes the holder's
LEMMA AttachHandlerStep ==
  ASSUME Smooth, TypeOK, HoldInv, NEW c \in CallIds, AttachHandler(c)
  PROVE  HoldInv'
<1> PICK i, a : calls[c].inst = i /\ calls[c].att = a
  OBVIOUS
<1>1. /\ calls[c].op = "attach" /\ i \in Instances /\ waits[i] = c /\ Call(i) = calls[c]
      /\ client[i] = "calling" /\ calls[c].pc \in {"queued", "driver", "save", "ok"}
  <2>1. calls[c].op = "attach"
    BY DEF AttachHandler, AttachRefused, AttachAgain, AttachStart, AttachBadMode,
           AttachDriver, AttachDriverFails, AttachSave, AttachSaveFails, CallStart, CallStep
  <2>2. QED
    BY <2>1, CallOwner
<1>2. /\ calls[c].pc = "queued" => Reserved(i)
      /\ calls[c].pc \in {"driver", "save"} => Saving(i, a)
      /\ calls[c].pc = "ok" => Using(i)
  BY <1>1 DEF HoldInv, Agrees
<1>3. Unheld
  BY DEF HoldInv
<1>4. ASSUME NEW to, NEW b, NEW from, CallStep(c, "attach", from, to, b)
      PROVE  /\ client'[i] = "calling" /\ waits' = waits /\ del' = del /\ cAtt' = cAtt
             /\ Call(i)'.pc = to /\ Call(i)'.att = b
  <2>1. calls[c] \in CallRecords \ {Idle}
    BY <1>1, CallFields DEF Idle
  <2>2. QED
    BY <1>1, <1>4, <2>1 DEF CallStep, compute, jobs, Call, TypeOK, CallRecords
<1>5. CASE AttachStart(c)
  <2>1. PICK b \in AttIds : /\ CallStep(c, "attach", "queued", "driver", b)
                            /\ rows' = [rows EXCEPT ![b] = [@ EXCEPT !.st = "attaching"]]
                            /\ UNCHANGED <<status, attachStatus, plugged>>
    BY <1>5 DEF AttachStart, CallStart
  <2>2. Reserved(i)
    BY <1>2, <2>1 DEF CallStep
  <2>3. [rows[b] EXCEPT !.st = "attaching"] \in RowRecords
    BY DEF TypeOK, RowRecords, RowStates
  <2>4. LiveRows' = {b} /\ rows'[b].st = "attaching"
    <3>1. LiveRows' = LiveRows \cup {b}
      BY <2>1, <2>3, NewRowLive DEF TypeOK, RowRecords
    <3>2. QED
      BY <2>1, <2>2, <3>1 DEF Reserved, Free, TypeOK, RowRecords
  <2>5. Unheld'
    BY <1>3, <1>4, <2>1, <2>2 DEF Unheld, Reserved
  <2>6. Agrees(i)'
    BY <1>4, <2>1, <2>2, <2>4 DEF Agrees, Reserved, Free, Saving
  <2>7. QED
    BY <2>1, <2>5, <2>6, HolderCall
<1>6. CASE AttachDriver(c)
  <2>1. Saving(i, a)
    BY <1>2, <1>6 DEF AttachDriver, CallStep
  <2>2. LiveRows' = LiveRows
    BY <1>6, SameRowsLive DEF AttachDriver, record
  <2>3. CallStep(c, "attach", "driver", "save", a)
    BY <1>6 DEF AttachDriver
  <2>4. Unheld'
    BY <1>3, <1>4, <1>6, <2>1, <2>3 DEF Unheld, Saving, AttachDriver, record
  <2>5. Agrees(i)'
    BY <1>4, <1>6, <2>1, <2>2, <2>3 DEF Agrees, Saving, AttachDriver, record
  <2>6. QED
    BY <2>3, <2>4, <2>5, HolderCall
<1>7. CASE AttachSave(c)
  <2>1. Saving(i, a) /\ a \in AttIds
    BY <1>2, <1>7 DEF AttachSave, CallStep, LiveRows
  <2>2. LiveRows' = {a} /\ rows'[a] = [st |-> "attached", inst |-> i]
    <3>1. [st |-> "attached", inst |-> i] \in RowRecords
      BY <1>1 DEF RowRecords, RowStates
    <3>2. LiveRows' = LiveRows \cup {a}
      BY <1>7, <2>1, <3>1, NewRowLive DEF AttachSave
    <3>3. QED
      BY <1>7, <2>1, <3>2 DEF AttachSave, Saving, TypeOK
  <2>3. CallStep(c, "attach", "save", "ok", NoAtt)
    BY <1>7 DEF AttachSave
  <2>4. Unheld'
    BY <1>3, <1>4, <1>7, <2>1, <2>3 DEF Unheld, Saving, AttachSave
  <2>5. Agrees(i)'
    BY <1>4, <1>7, <2>1, <2>2, <2>3 DEF Agrees, Saving, Using, Row, AttachSave
  <2>6. QED
    BY <2>3, <2>4, <2>5, HolderCall
<1>8. CASE AttachRefused(c) \/ AttachAgain(c)
  BY <1>2, <1>8 DEF AttachRefused, AttachAgain, CallStart, CallStep, Reserved, Free, RowsOf
<1>9. CASE AttachBadMode(c) \/ AttachDriverFails(c) \/ AttachSaveFails(c)
  BY <1>2, <1>9 DEF AttachBadMode, AttachDriverFails, AttachSaveFails, CallStep, Saving,
                    Smooth
<1>10. QED
  BY <1>5, <1>6, <1>7, <1>8, <1>9 DEF AttachHandler

\* detach_volume: the id names the holder's row, the last there is
LEMMA DetachHandlerStep ==
  ASSUME Smooth, TypeOK, HoldInv, NEW c \in CallIds, DetachHandler(c)
  PROVE  HoldInv'
<1> PICK i, a : calls[c].inst = i /\ calls[c].att = a
  OBVIOUS
<1>1. /\ calls[c].op = "detach" /\ i \in Instances /\ waits[i] = c /\ Call(i) = calls[c]
      /\ client[i] = "det_wait" /\ calls[c].pc \in {"queued", "driver", "save", "ok", "err"}
  <2>1. calls[c].op = "detach"
    BY DEF DetachHandler, DetachRefused, DetachUnknown, DetachStart, DetachNothing,
           DetachClear, DetachDriver, DetachDriverFails, DetachSave, DetachVolumeGone,
           CallStart, CallStep
  <2>2. QED
    BY <2>1, CallOwner
<1>2. calls[c].pc \in {"queued", "driver", "save"} => Leaving(i, a, Nobody) /\ a \in AttIds
  BY <1>1 DEF HoldInv, Agrees, Leaving, Row, LiveRows
<1>3. Unheld
  BY DEF HoldInv
<1>4. ASSUME NEW to, NEW b, NEW from, CallStep(c, "detach", from, to, b)
      PROVE  /\ client'[i] = "det_wait" /\ waits' = waits /\ del' = del
             /\ Call(i)'.pc = to /\ Call(i)'.att = b
  <2>1. calls[c] \in CallRecords \ {Idle}
    BY <1>1, CallFields DEF Idle
  <2>2. QED
    BY <1>1, <1>4, <2>1 DEF CallStep, compute, jobs, Call, TypeOK, CallRecords
<1>5. CASE DetachStart(c)
  <2>1. CallStep(c, "detach", "queued", "driver", a) /\ UNCHANGED <<record, plugged>>
    BY <1>2, <1>5, ConstantsAssumption
       DEF DetachStart, CallStart, CallStep, Leaving, Row
  <2>2. Leaving(i, a, Nobody)
    BY <1>2, <2>1 DEF CallStep
  <2>3. LiveRows' = LiveRows
    BY <2>1, SameRowsLive DEF record
  <2>4. Unheld'
    BY <1>3, <1>4, <2>1, <2>2 DEF Unheld, Leaving, record
  <2>5. Agrees(i)'
    BY <1>4, <2>1, <2>2, <2>3 DEF Agrees, Leaving, Row, record
  <2>6. QED
    BY <2>1, <2>4, <2>5, HolderCall
<1>6. CASE DetachDriver(c)
  <2>1. CallStep(c, "detach", "driver", "save", a) /\ UNCHANGED record
    BY <1>6 DEF DetachDriver
  <2>2. Leaving(i, a, Nobody) /\ plugged' = Nobody
    BY <1>2, <1>6, <2>1, ConstantsAssumption DEF CallStep, DetachDriver, Leaving
  <2>3. LiveRows' = LiveRows
    BY <2>1, SameRowsLive DEF record
  <2>4. Unheld'
    BY <1>3, <1>4, <2>1, <2>2 DEF Unheld, Leaving, record
  <2>5. Agrees(i)'
    BY <1>4, <2>1, <2>2, <2>3 DEF Agrees, Leaving, Row, record
  <2>6. QED
    BY <2>1, <2>4, <2>5, HolderCall
<1>7. CASE DetachDriverFails(c)
  <2>1. CallStep(c, "detach", "driver", "err", NoAtt)
        /\ UNCHANGED <<status, attachStatus, plugged>>
    BY <1>7 DEF DetachDriverFails
  <2>2. Leaving(i, a, Nobody)
    BY <1>2, <2>1 DEF CallStep
  <2>3. Unheld'
    BY <1>3, <1>4, <2>1, <2>2 DEF Unheld, Leaving
  <2>4. Agrees(i)'
    BY <1>4, <2>1 DEF Agrees
  <2>5. QED
    BY <2>1, <2>3, <2>4, HolderCall
<1>8. CASE DetachSave(c)
  <2>1. CallStep(c, "detach", "save", "ok", NoAtt) /\ VolumeDetached(a) /\ plugged' = plugged
    BY <1>8 DEF DetachSave
  <2>2. Leaving(i, a, Nobody)
    BY <1>2, <2>1 DEF CallStep
  <2>3. LiveRows' = {} /\ attachStatus' = "detached" /\ status' = "available"
    <3>1. LiveRows' = LiveRows \ {a}
      BY <2>1, MarkRowLive DEF VolumeDetached, RowStates
    <3>2. QED
      BY <2>1, <2>2, <3>1 DEF VolumeDetached, Leaving, Row
  <2>4. \A j \in Instances : ~Holds(j)'
    <3>1. ~Holds(i)'
      BY <1>4, <2>1 DEF Holds
    <3>2. Holds(i) /\ \A j \in Instances \ {i} : ~Holds(j)
      BY <1>1, <2>1 DEF Holds, CallStep, HoldInv, OneHolder
    <3>3. \A j \in Instances \ {i} : client'[j] = client[j] /\ waits'[j] = waits[j]
                                     /\ (waits[j] # NoCall => Call(j)' = Call(j))
      BY <1>1, <2>1, CallsApart, ConstantsAssumption DEF CallStep, compute, Call, TypeOK
    <3>4. \A j \in Instances \ {i} : ~Holds(j)'
      BY <3>2, <3>3 DEF Holds, HoldInv, Awaited
    <3>5. QED
      BY <3>1, <3>4
  <2>5. Unheld'
    BY <1>3, <1>4, <2>1, <2>2, <2>3, <2>4 DEF Unheld, Free, Leaving
  <2>6. Agrees(i)'
    BY <1>4, <2>1 DEF Agrees
  <2>7. QED
    BY <2>1, <2>5, <2>6, HolderCall
<1>9. CASE DetachRefused(c) \/ DetachUnknown(c) \/ DetachNothing(c)
  BY <1>2, <1>9, ConstantsAssumption
     DEF DetachRefused, DetachUnknown, DetachNothing, CallStart, CallStep, Leaving, Row
<1>10. CASE DetachClear(c) \/ DetachVolumeGone(c)
  BY <1>1, <1>2, <1>10 DEF DetachClear, DetachVolumeGone, CallStep, Leaving
<1>11. QED
  BY <1>5, <1>6, <1>7, <1>8, <1>9, <1>10 DEF DetachHandler

\* no delete is forced
LEMMA Unforced == Smooth => "force_delete" \notin Ops
BY DEF Smooth

\* a delete works on a volume nobody holds
LEMMA DeleteStep ==
  ASSUME Smooth, TypeOK, HoldInv,
         DeleteRequest \/ \E d \in Deleters : DeleteHandler(d)
  PROVE  HoldInv'
<1> USE DEF Deleters
<1>1. Serving /\ Unheld
  BY DEF HoldInv
<1>2. rows' = rows => LiveRows' = LiveRows
  BY SameRowsLive
<1>3. CASE DeleteRequest
  <2>1. /\ status \in {"available", "error_extending"} /\ status' = "deleting"
        /\ del["user"] = "none" /\ del'["user"] \in {"none", "queued"}
        /\ del'["init"] = "none"
        /\ UNCHANGED <<attachStatus, rows, plugged, compute, calls, ext, upl, mgr>>
    BY <1>1, <1>3, Unforced DEF DeleteRequest, DelStep, TypeOK, Serving
  <2>2. /\ status = "available" /\ Free /\ plugged = Nobody
        /\ \A i \in Instances : ~Holds(i)
    BY <1>1, <2>1 DEF Unheld
  <2>3. \A i \in Instances : ~Holds(i)'
    BY <2>1, <2>2 DEF Holds, Call, compute
  <2>4. Unheld'
    BY <1>2, <2>1, <2>2, <2>3 DEF Unheld, Free
  <2>5. QED
    BY <2>1, <2>2, <2>4, DeleterStep DEF compute
<1>4. ASSUME NEW d \in Deleters, DeleteHandler(d) PROVE HoldInv'
  <2>1. d = "user"
    BY <1>1, <1>4
       DEF DeleteHandler, DeleteStart, DeleteDriver, DeleteDriverFails, DeleteDestroy,
           DelStep, Serving
  <2>2. PICK from \in {"queued", "driver", "destroy"}, to \in {"none", "driver", "destroy"} :
          DelStep("user", from, to)
    BY <1>4, <2>1
       DEF DeleteHandler, DeleteStart, DeleteDriver, DeleteDriverFails, DeleteDestroy
  <2>3. /\ del["user"] = from /\ del'["user"] = to /\ del'["init"] = "none"
        /\ UNCHANGED <<attachStatus, rows, compute, calls, ext, upl>>
    BY <1>1, <2>2 DEF DelStep, TypeOK, Serving
  <2>4. /\ status = "deleting" /\ Free /\ \A i \in Instances : ~Holds(i)
        /\ from # "destroy" => plugged = Nobody
    BY <1>1, <2>3 DEF Unheld
  <2>5. \A i \in Instances : ~Holds(i)'
    BY <2>3, <2>4 DEF Holds, Call, compute
  <2>6. Free'
    BY <1>2, <2>3, <2>4 DEF Free
  <2>7. Unheld' /\ mgr' = mgr
    <3>1. CASE DeleteStart(d)
      <4>1. /\ del'["user"] = "driver" /\ status' = status /\ plugged' = plugged
            /\ mgr' = mgr /\ from = "queued"
        BY <2>1, <2>2, <2>3, <2>4, <3>1 DEF DeleteStart, DelStep, TypeOK, Free
      <4>2. QED
        BY <2>4, <2>5, <2>6, <4>1 DEF Unheld
    <3>2. CASE DeleteDriver(d)
      <4>1. /\ del'["user"] = "destroy" /\ status' = status /\ mgr' = mgr
        BY <2>1, <3>2 DEF DeleteDriver, DelStep, TypeOK
      <4>2. QED
        BY <2>4, <2>5, <2>6, <4>1 DEF Unheld
    <3>3. CASE DeleteDriverFails(d)
      <4>1. /\ del'["user"] = "none" /\ plugged' = Nobody /\ mgr' = mgr
            /\ status' \in {"available", "error_deleting"}
        BY <1>1, <2>1, <2>3, <2>4, <3>3
           DEF DeleteDriverFails, DelStep, AfterDelete, TypeOK, Serving
      <4>2. QED
        BY <2>5, <2>6, <4>1 DEF Unheld
    <3>4. CASE DeleteDestroy(d)
      <4>1. /\ del'["user"] = "none" /\ mgr' = mgr /\ status' = "deleted"
        BY <1>1, <2>1, <3>4 DEF DeleteDestroy, DelStep, AfterDelete, TypeOK, Serving
      <4>2. QED
        BY <2>5, <2>6, <4>1 DEF Unheld
    <3>5. QED
      BY <1>4, <3>1, <3>2, <3>3, <3>4 DEF DeleteHandler
  <2>8. QED
    BY <2>3, <2>4, <2>7, DeleterStep DEF compute
<1>5. QED
  BY <1>3, <1>4

\* every action keeps the invariant
LEMMA HoldStep ==
  ASSUME Smooth, TypeOK, HoldInv, [Next]_vars
  PROVE  HoldInv'
<1>1. ASSUME NEW i \in Instances, CheckAttach(i) \/ DetachRead(i) \/ ClientStep(i)
      PROVE  HoldInv'
  BY <1>1, AttachClientStep, DetachClientStep, UndoStep DEF ClientStep
<1>2. ASSUME NEW c \in CallIds, AttachHandler(c) \/ DetachHandler(c)
      PROVE  HoldInv'
  BY <1>2, AttachHandlerStep, DetachHandlerStep
<1>3. ASSUME NEW c \in CallIds, DropReply(c) PROVE FALSE
  BY <1>3, CallOwner DEF DropReply
<1>4. ASSUME DeleteRequest \/ \E d \in Deleters : DeleteHandler(d) PROVE HoldInv'
  BY <1>4, DeleteStep
<1>5. ASSUME JobStep PROVE FALSE
  BY <1>5 DEF JobStep, ExtendCheck, ExtendWrite, ExtendVolume, UploadCheck, UploadWrite,
              CopyVolumeToImage, Smooth, HoldInv, Serving
<1>6. ASSUME Crash PROVE FALSE
  BY <1>6 DEF Crash, Smooth, TypeOK
<1>7. ASSUME InitHostRead \/ InitHost PROVE FALSE
  BY <1>7 DEF InitHostRead, InitHost, HoldInv, Serving
<1>8. CASE UNCHANGED vars
  <2>1. LiveRows' = LiveRows
    BY <1>8, SameRowsLive DEF vars, record
  <2> USE <1>8, <2>1 DEF vars, record, compute, jobs
  <2>2. \A i \in Instances : (Holds(i)' <=> Holds(i)) /\ Call(i)' = Call(i)
    BY DEF Holds, Call
  <2>3. Serving' /\ Awaited'
    BY DEF HoldInv, Serving, Awaited, Call
  <2>4. OneHolder' /\ Unheld'
    BY <2>2 DEF HoldInv, OneHolder, Unheld, Free
  <2>5. ASSUME NEW i \in Instances PROVE Agrees(i)'
    <3>1. Agrees(i) /\ Call(i)' = Call(i)
      BY <2>2 DEF HoldInv
    <3>2. QED
      BY <3>1 DEF Agrees, Reserved, Free, Saving, Using, Leaving, Row
  <2>6. QED
    BY <2>3, <2>4, <2>5 DEF HoldInv
<1>9. QED
  BY <1>1, <1>2, <1>3, <1>4, <1>5, <1>6, <1>7, <1>8 DEF Next

----------------------------------------------------------------------------
(* What the invariant says of a step.                                      *)

\* an instance that does not hold the volume writes neither status nor rows,
\* except to reserve it
LEMMA AsideWrites ==
  ASSUME Smooth, HoldInv, NEW i \in Instances, ~Holds(i),
         CheckAttach(i) \/ DetachRead(i) \/ ClientStep(i)
  PROVE  rows' = rows /\ (status' = status \/ status = "available")
<1>1. client[i] \in {"idle", "checked", "det_wait"}
  BY DEF HoldInv, Serving, SmoothPcs, Holds
<1>2. CheckAttach(i) \/ Reserve(i) \/ ReserveFails(i) \/ DetachReturns(i)
  BY <1>1, UndoStep
     DEF ClientStep, DetachRead, LoseAttachRequest, ReadVolume, ReadFails, VirtAttach,
         VirtAttachFails, SendAttach, SkipAttach, AttachReturns, AttachRaises,
         BeginDetaching, BeginDetachingFails, VirtDetach, VirtDetachFails,
         DetachTerminate, Terminate, SendDetach, SendCall, Move
<1>3. QED
  BY <1>2 DEF CheckAttach, Reserve, ReserveFails, DetachReturns, StopWaiting, record

\* a handler works for the holder
LEMMA HandlerHolds ==
  ASSUME TypeOK, HoldInv, NEW c \in CallIds, AttachHandler(c) \/ DetachHandler(c)
  PROVE  /\ calls[c].inst \in Instances /\ Holds(calls[c].inst)
         /\ calls[c].pc \in {"queued", "driver", "save"}
<1>1. calls[c].op # "none" /\ calls[c].pc \in {"queued", "clear", "driver", "save"}
  BY DEF AttachHandler, AttachRefused, AttachAgain, AttachStart, AttachBadMode,
         AttachDriver, AttachDriverFails, AttachSave, AttachSaveFails,
         DetachHandler, DetachRefused, DetachUnknown, DetachStart, DetachNothing,
         DetachClear, DetachDriver, DetachDriverFails, DetachSave, DetachVolumeGone,
         CallStart, CallStep
<1>2. QED
  BY <1>1, CallOwner DEF Holds

\* a volume in deletion has no holder: only the delete handler moves it on
LEMMA DeletingStep ==
  ASSUME Smooth, TypeOK, HoldInv, [Next]_vars, status = "deleting"
  PROVE  status' = "deleting" \/ \E d \in Deleters : del'[d] # del[d]
<1>1. \A i \in Instances : ~Holds(i)
  BY DEF HoldInv, Unheld
<1>2. ASSUME NEW i \in Instances, CheckAttach(i) \/ DetachRead(i) \/ ClientStep(i)
      PROVE  status' = status
  BY <1>1, <1>2, AsideWrites
<1>3. ASSUME NEW c \in CallIds, AttachHandler(c) \/ DetachHandler(c) PROVE FALSE
  BY <1>1, <1>3, HandlerHolds
<1>4. ASSUME NEW c \in CallIds, DropReply(c) PROVE status' = status
  BY <1>4 DEF DropReply, record
<1>5. ASSUME DeleteRequest PROVE FALSE
  BY <1>5, Unforced DEF DeleteRequest
<1>6. ASSUME NEW d \in Deleters, DeleteHandler(d) PROVE del'[d] # del[d]
  BY <1>6 DEF DeleteHandler, DeleteStart, DeleteDriver, DeleteDriverFails, DeleteDestroy,
              DelStep, TypeOK
<1>7. ASSUME JobStep PROVE FALSE
  BY <1>7 DEF JobStep, ExtendCheck, ExtendWrite, ExtendVolume, UploadCheck, UploadWrite,
              CopyVolumeToImage, Smooth, HoldInv, Serving
<1>8. ASSUME Crash \/ InitHostRead \/ InitHost PROVE FALSE
  BY <1>8 DEF Crash, InitHostRead, InitHost, Smooth, TypeOK, HoldInv, Serving
<1>9. CASE UNCHANGED vars
  BY <1>9 DEF vars, record
<1>10. QED
  BY <1>2, <1>3, <1>4, <1>5, <1>6, <1>7, <1>8, <1>9 DEF Next

\* a row is dropped only in the last step of its instance's own detach
LEMMA OwnDetachStep ==
  ASSUME Smooth, TypeOK, HoldInv, [Next]_vars, NEW a \in AttIds,
         rows[a].st = "attached", rows'[a].st = "detached"
  PROVE  \E c \in CallIds : /\ calls[c].op = "detach" /\ calls[c].att = a
                            /\ calls[c].inst = rows[a].inst
<1>1. ASSUME NEW i \in Instances, CheckAttach(i) \/ DetachRead(i) \/ ClientStep(i)
      PROVE  FALSE
  <2>1. rows' = rows
    BY <1>1, UndoStep
       DEF CheckAttach, ClientStep, DetachRead, Reserve, ReserveFails, LoseAttachRequest,
           ReadVolume, ReadFails, VirtAttach, VirtAttachFails, SendAttach, SkipAttach,
           AttachReturns, AttachRaises, BeginDetaching, BeginDetachingFails, VirtDetach,
           VirtDetachFails, DetachTerminate, Terminate, SendDetach, SendCall,
           DetachReturns, StopWaiting, record, HoldInv
  <2>2. QED
    BY <2>1
<1>2. ASSUME NEW c \in CallIds, AttachHandler(c) PROVE FALSE
  <2>1. CASE AttachStart(c)
    <3>1. PICK b \in AttIds : rows' = [rows EXCEPT ![b] = [@ EXCEPT !.st = "attaching"]]
      BY <2>1 DEF AttachStart
    <3>2. rows'[a] = rows[a] \/ rows'[a].st = "attaching"
      BY <3>1 DEF TypeOK, RowRecords
    <3>3. QED
      BY <3>2
  <2>2. CASE AttachDriverFails(c)
    BY <2>2 DEF AttachDriverFails, MarkRow, TypeOK, RowRecords
  <2>3. CASE AttachSave(c)
    BY <2>3 DEF AttachSave, TypeOK
  <2>4. CASE rows' = rows
    BY <2>4
  <2>5. QED
    BY <1>2, <2>1, <2>2, <2>3, <2>4
       DEF AttachHandler, AttachRefused, AttachAgain, AttachBadMode, AttachDriver,
           AttachSaveFails, record
<1>3. ASSUME NEW c \in CallIds, DetachHandler(c)
      PROVE  calls[c].op = "detach" /\ calls[c].att = a /\ calls[c].inst = rows[a].inst
  <2>1. /\ calls[c].op = "detach"
    BY <1>3 DEF DetachHandler, DetachRefused, DetachUnknown, DetachStart, DetachNothing,
           DetachClear, DetachDriver, DetachDriverFails, DetachSave, DetachVolumeGone,
           CallStart, CallStep
  <2>2. calls[c].pc \in {"queued", "driver", "save"}
    BY <1>3, HandlerHolds
  <2>3. Leaving(calls[c].inst, calls[c].att, Nobody)
    BY <2>1, <2>2, CallOwner DEF HoldInv, Agrees
  <2>4. rows' # rows /\ a \in LiveRows
    BY DEF LiveRows
  <2>5. QED
    BY <2>1, <2>3, <2>4 DEF Leaving, Row
<1>4. ASSUME rows' = rows PROVE FALSE
  BY <1>4
<1>5. ASSUME NEW c \in CallIds, DropReply(c) PROVE rows' = rows
  BY <1>5 DEF DropReply, record
<1>6. ASSUME DeleteRequest \/ \E d \in Deleters : DeleteHandler(d) PROVE rows' = rows
  BY <1>6 DEF DeleteRequest, DeleteHandler, DeleteStart, DeleteDriver, DeleteDriverFails,
              DeleteDestroy, DelStep
<1>7. ASSUME JobStep PROVE rows' = rows
  BY <1>7 DEF JobStep, ExtendCheck, ExtendWrite, ExtendVolume, UploadCheck, UploadWrite,
              CopyVolumeToImage, JobFrame
<1>8. ASSUME Crash \/ InitHostRead \/ InitHost \/ UNCHANGED vars PROVE rows' = rows
  BY <1>8 DEF Crash, InitHostRead, InitHost, vars, record
<1>9. QED
  BY <1>1, <1>2, <1>3, <1>4, <1>5, <1>6, <1>7, <1>8 DEF Next

----------------------------------------------------------------------------
(* The theorems.                                                           *)

\* In a smooth run, where among others no delete is forced, the protocol
\* and the record agree at every step of the volume's one holder.
THEOREM HolderCorrect == ASSUME Smooth PROVE Spec => [](TypeOK /\ HoldInv)
<1>1. Init => HoldInv
  BY HoldInit
<1>2. TypeOK /\ HoldInv /\ [Next]_vars => HoldInv'
  BY HoldStep
<1>3. QED
  BY <1>1, <1>2, TypeCorrect, PTL DEF Spec

\* reserve_volume is a lock: whatever requests are lost, and whatever detaches
\* and deletes fail, two instances never work on one reservation.
THEOREM OneOwnerCorrect == ASSUME Smooth PROVE Spec => []OneOwner
<1>1. HoldInv => OneOwner
  BY DEF HoldInv, OneHolder, Holds, OneOwner, Owners
<1>2. QED
  BY <1>1, HolderCorrect, PTL

\* An instance that believes the volume attached has an attachment row and is
\* the server the provider gave the volume to, as long as terminate_connection
\* does not fail in a detach that has already unplugged it.
THEOREM ConnectedCorrect ==
  ASSUME Smooth, "terminate" \notin Faults
  PROVE  Spec => []ConnectedHasRow
<1>1. ASSUME HoldInv, NEW i \in Instances, client[i] = "attached"
      PROVE  RowsOf(i) # {} /\ plugged = i
  <2>1. PICK a \in AttIds : Row(i, a)
    BY <1>1 DEF HoldInv, Agrees, Using
  <2>2. a \in RowsOf(i)
    BY <2>1 DEF Row, RowsOf
  <2>3. plugged = i
    BY <1>1 DEF HoldInv, Agrees, Using
  <2>4. QED
    BY <2>2, <2>3
<1>2. HoldInv => ConnectedHasRow
  BY <1>1 DEF ConnectedHasRow
<1>3. QED
  BY <1>2, HolderCorrect, PTL

\* Without force=True a destroyed volume is nobody's: the status that API.delete
\* then expects and the one reserve_volume sets exclude each other for good.
THEOREM DestroyedCorrect == ASSUME Smooth PROVE Spec => []DestroyedIsFree
<1>1. HoldInv => DestroyedIsFree
  BY DEF HoldInv, Unheld, Free, Holds, DestroyedIsFree, LiveRows, Owners
<1>2. QED
  BY <1>1, HolderCorrect, PTL

\* Without force=True nothing but the delete handler takes a volume out of
\* 'deleting'.
THEOREM DeletingKept == ASSUME Smooth PROVE Spec => DeletingIsKept
<1>1. TypeOK /\ HoldInv /\ [Next]_vars =>
        [status = "deleting" =>
           status' = "deleting" \/ \E d \in Deleters : del'[d] # del[d]]_vars
  BY DeletingStep
<1>2. QED
  BY <1>1, HolderCorrect, PTL DEF Spec, DeletingIsKept

\* A completed attachment is dropped only by a detach its own instance sent.
THEOREM OwnDetachCorrect == ASSUME Smooth PROVE Spec => OnlyOwnerDetaches
<1>1. TypeOK /\ HoldInv /\ [Next]_vars =>
        [\A a \in AttIds :
           rows[a].st = "attached" /\ rows'[a].st = "detached" =>
             \E c \in CallIds : calls[c].op = "detach" /\ calls[c].att = a
                                /\ calls[c].inst = rows[a].inst]_vars
  BY OwnDetachStep
<1>2. QED
  BY <1>1, HolderCorrect, PTL DEF Spec, OnlyOwnerDetaches
=============================================================================
