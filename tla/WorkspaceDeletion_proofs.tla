---------------------- MODULE WorkspaceDeletion_proofs ----------------------
(***************************************************************************)
(* Theorems about DualControl, WorkspaceDeletion and WorkspaceFreeze, for  *)
(* any number of owners, approvals and overlapping calls.                  *)
(*                                                                         *)
(* The files say nothing of the copies that calls hold across an await, so *)
(* no property of the files alone is inductive.  Shape says what each call *)
(* has checked on its copy; GateInv dates the memo and the gate's reads;   *)
(* Trail says that every record, on file or in a copy, tells of acts that  *)
(* took effect; Fresh ids and SpentInv follow one approval to its end.     *)
(* FreezeInv dates the memo of the freeze as GateInv does the other.       *)
(***************************************************************************)
EXTENDS WorkspaceFreeze, TLAPS

LedgerOps == {"create", "mint", "approve", "reject", "schedule"}
Naming == {"approve", "reject", "schedule"}
DeletionOps == {"schedule", "cancel", "complete"}

\* The check its operation made of the swept record it found
Checked(k, r) ==
    /\ r \in ApprovalRecords
    /\ k.op = "approve"  => CanApprove(k, r)
    /\ k.op = "reject"   => CanReject(k, r)
    /\ k.op = "schedule" => CanConsume(k, r)

Shape(c) ==
    /\ call[c] # Nil /\ call[c].op \in Naming => call[c].id \in Ids
    /\ At(c, "readLedger") => call[c].id \in Ids /\ call[c].op \in {"create", "mint"}
    /\ At(c, "saveLedger") =>
         /\ copy[c] \in Ledgers /\ call[c].id \in Ids /\ call[c].op \in LedgerOps
         /\ call[c].op \in Naming => Checked(call[c], Swept(copy[c][call[c].id], call[c].at))
    /\ At(c, "granted") => call[c].op = "schedule"
    /\ At(c, "readDeletion") => call[c].op \in DeletionOps
    /\ At(c, "saveDeletion") =>
         view[c] \in DeletionRecords /\ call[c].op \in DeletionOps /\ Allowed(call[c], view[c])

TypeInv == TypeOK /\ \A c \in Calls : Shape(c)

-----------------------------------------------------------------------------
(* Records *)

LEMMA SweptType ==
    ASSUME NEW r \in ApprovalRecords \cup {Nil}, NEW t
    PROVE  /\ Swept(r, t) \in ApprovalRecords \cup {Nil}
           /\ Swept(r, t) # Nil => r # Nil
           /\ r = Nil => Swept(r, t) = Nil
  BY DEF Swept, Approval, ApprovalRecords

LEMMA SweptLedgerType ==
    ASSUME NEW l \in Ledgers, NEW t
    PROVE  SweptLedger(l, t) \in Ledgers
  BY SweptType DEF SweptLedger, Ledgers

LEMMA CallType ==
    ASSUME NEW op \in Gated \cup Open, NEW who \in Owners, NEW id \in Ids \cup {Nil},
           NEW purpose \in Purposes, NEW at \in Nat, NEW until \in Nat,
           NEW step \in {"gate", "sawPending", "sawClear", "refused", "handler",
                         "readLedger", "saveLedger", "granted", "readDeletion",
                         "saveDeletion", "invalidate"}
    PROVE  Call(op, who, id, purpose, at, until, step) \in CallRecords
  BY DEF Call, CallRecords

LEMMA CallFields ==
    ASSUME NEW k \in CallRecords
    PROVE  /\ k.op \in Gated \cup Open /\ k.who \in Owners /\ k.id \in Ids \cup {Nil}
           /\ k.purpose \in Purposes /\ k.at \in Nat /\ k.until \in Nat
           /\ k.step \in {"gate", "sawPending", "sawClear", "refused", "handler",
                          "readLedger", "saveLedger", "granted", "readDeletion",
                          "saveDeletion", "invalidate"}
  BY DEF CallRecords

\* What the write of a call leaves in the ledger is a ledger.
LEMMA WrittenType ==
    ASSUME NEW k \in CallRecords, NEW l \in Ledgers, k.id \in Ids, k.op \in LedgerOps,
           k.op \in Naming => Swept(l[k.id], k.at) \in ApprovalRecords
    PROVE  Written(k, l) \in Ledgers
  <1> DEFINE r == SweptLedger(l, k.at)[k.id]
  <1>1. r = Swept(l[k.id], k.at)
    BY DEF SweptLedger
  <1>2. Changed(k, r) \in ApprovalRecords
    BY <1>1, CallFields DEF Changed, Approval, ApprovalRecords, LedgerOps, Naming
  <1>3. SweptLedger(l, k.at) \in Ledgers
    BY SweptLedgerType
  <1> HIDE DEF r
  <1> QED BY <1>2, <1>3 DEF Written, Ledgers, r

-----------------------------------------------------------------------------
(* Types and the shape of calls *)

\* A call whose own entries do not change keeps its shape.
LEMMA ShapeFrame ==
    ASSUME NEW d, Shape(d), call'[d] = call[d], copy'[d] = copy[d], view'[d] = view[d]
    PROVE  Shape(d)'
  BY DEF Shape, At, Checked, Allowed, IsPastDue, CanApprove, CanReject, CanConsume

\* A step of one call leaves the others where they are.
LEMMA Others ==
    ASSUME TypeOK, NEW c \in Calls, Step(c), NEW d \in Calls, d # c
    PROVE  call'[d] = call[d] /\ copy'[d] = copy[d] /\ view'[d] = view[d]
  <1> USE DEF TypeOK, controlVars, deletionVars, GoTo, Leave, Move, Return
  <1>1. CASE ControlStep(c) /\ UNCHANGED deletionVars
    <2>1. CASE CreateRequest(c) BY <1>1, <2>1 DEF CreateRequest
    <2>2. CASE ReadLedger(c) BY <1>1, <2>2 DEF ReadLedger
    <2>3. CASE ApproveRequest(c) BY <1>1, <2>3 DEF ApproveRequest, Decide
    <2>4. CASE RejectRequest(c) BY <1>1, <2>4 DEF RejectRequest, Decide
    <2>5. CASE ConsumeApproval(c) BY <1>1, <2>5 DEF ConsumeApproval, Decide
    <2>6. CASE SaveLedger(c) BY <1>1, <2>6 DEF SaveLedger
    <2> QED BY <1>1, <2>1, <2>2, <2>3, <2>4, <2>5, <2>6 DEF ControlStep
  <1>2. CASE Enter(c) BY <1>2 DEF Enter
  <1>3. CASE Arrive(c) BY <1>3 DEF Arrive
  <1>4. CASE GateRead(c) BY <1>4 DEF GateRead
  <1>5. CASE GateAnswer(c) BY <1>5 DEF GateAnswer
  <1>6. CASE GateFails(c) BY <1>6 DEF GateFails
  <1>7. CASE Answer(c) BY <1>7 DEF Answer
  <1>8. CASE Schedule(c) BY <1>8 DEF Schedule
  <1>9. CASE ReadDeletion(c) BY <1>9 DEF ReadDeletion
  <1>10. CASE SaveDeletion(c) BY <1>10 DEF SaveDeletion
  <1>11. CASE Invalidate(c) BY <1>11 DEF Invalidate
  <1> QED
    BY <1>1, <1>2, <1>3, <1>4, <1>5, <1>6, <1>7, <1>8, <1>9, <1>10, <1>11 DEF Step

\* Where call c stands after it has moved on.
LEMMA Moved ==
    ASSUME TypeOK, NEW c \in Calls, call[c] # Nil, NEW until \in Nat, NEW at \in Nat,
           NEW id \in Ids \cup {Nil},
           NEW step \in {"gate", "sawPending", "sawClear", "refused", "handler",
                         "readLedger", "saveLedger", "granted", "readDeletion",
                         "saveDeletion", "invalidate"},
           Move(c, id, at, until, step)
    PROVE  /\ call' \in [Calls -> CallRecords \cup {Nil}]
           /\ call'[c] = Call(call[c].op, call[c].who, id, call[c].purpose, at, until, step)
           /\ call'[c].op = call[c].op /\ call'[c].id = id /\ call'[c].step = step
           /\ call'[c].who = call[c].who /\ call'[c].purpose = call[c].purpose
           /\ call'[c].at = at /\ call'[c].until = until
  <1>1. call[c] \in CallRecords
    BY DEF TypeOK
  <1>2. Call(call[c].op, call[c].who, id, call[c].purpose, at, until, step) \in CallRecords
    BY <1>1, CallFields, CallType
  <1> QED BY <1>2 DEF TypeOK, Call, Move

LEMMA ControlTypes ==
    ASSUME TypeInv, NEW c \in Calls, ControlStep(c), UNCHANGED deletionVars
    PROVE  TypeOK' /\ Shape(c)'
  <1> USE DEF deletionVars, TypeInv
  <1>0. call[c] # Nil /\ call[c] \in CallRecords
    BY DEF ControlStep, CreateRequest, ReadLedger, ApproveRequest, RejectRequest,
           ConsumeApproval, SaveLedger, At, TypeOK
  <1>a. now \in Nat
    BY TimeAssumption DEF TypeOK
  <1>1. CASE CreateRequest(c)
    <2>1. PICK id \in Ids, ttl \in Ttls : Move(c, id, now, now + ttl, "readLedger")
      BY <1>1 DEF CreateRequest
    <2>2. now + ttl \in Nat
      BY <1>a, TimeAssumption
    <2>3. TypeOK'
      BY <1>0, <1>1, <1>a, <2>1, <2>2, Moved DEF TypeOK, CreateRequest
    <2>4. call'[c].op \in {"create", "mint"} /\ call'[c].id \in Ids /\ call'[c].step = "readLedger"
      BY <1>0, <1>1, <1>a, <2>1, <2>2, Moved DEF CreateRequest
    <2> QED BY <2>3, <2>4 DEF Shape, At
  <1>2. CASE ReadLedger(c)
    <2>1. TypeOK'
      BY <1>0, <1>2, Moved, CallFields DEF TypeOK, ReadLedger, GoTo
    <2>2. /\ call'[c].op \in {"create", "mint"} /\ call'[c].id \in Ids
          /\ call'[c].step = "saveLedger" /\ copy'[c] \in Ledgers
      BY <1>0, <1>2, Moved, CallFields DEF TypeOK, ReadLedger, GoTo, Shape
    <2> QED BY <2>1, <2>2 DEF Shape, At, LedgerOps, Naming
  <1>3. ASSUME NEW op \in Naming, NEW can \in BOOLEAN, Decide(c, op, can),
               can => Checked(call[c], Swept(ledger[call[c].id], now))
        PROVE  TypeOK' /\ Shape(c)'
    <2>1. CASE can
      <3>1. Move(c, call[c].id, now, 0, "saveLedger")
        BY <1>3, <2>1 DEF Decide
      <3>2. call[c].id \in Ids /\ call[c].op = op
        BY <1>3 DEF Shape, Decide, At
      <3>a. call' \in [Calls -> CallRecords \cup {Nil}]
        BY <1>0, <1>a, <3>1, <3>2, Moved
      <3>b. copy' = [copy EXCEPT ![c] = ledger]
        BY <1>3, <2>1 DEF Decide
      <3>c. copy' \in [Calls -> Ledgers \cup {Nil}]
        BY <3>b DEF TypeOK
      <3>d. UNCHANGED <<now, ledger, minted, did, respent, clobbered, deletionVars>>
        BY <1>3 DEF Decide
      <3>3. TypeOK'
        BY <3>a, <3>c, <3>d DEF TypeOK
      <3>e. TypeOK /\ 0 \in Nat
        OBVIOUS
      <3>f. /\ call'[c].op = call[c].op /\ call'[c].id = call[c].id
            /\ call'[c].who = call[c].who /\ call'[c].purpose = call[c].purpose
            /\ call'[c].step = "saveLedger" /\ call'[c].at = now
        <4> HIDE DEF TypeInv, deletionVars
        <4> QED BY <1>0, <1>a, <3>1, <3>2, <3>e, Moved
      <3>4. /\ call'[c].op = op /\ call'[c].id = call[c].id /\ call'[c].who = call[c].who
            /\ call'[c].step = "saveLedger" /\ call'[c].at = now
            /\ call'[c].purpose = call[c].purpose
        BY <3>2, <3>f
      <3>5. copy'[c] = ledger /\ ledger \in Ledgers
        BY <1>3, <2>1 DEF TypeOK, Decide
      <3>6. Checked(call[c], Swept(copy'[c][call'[c].id], call'[c].at))
        BY <1>3, <2>1, <3>4, <3>5
      <3>7. Checked(call[c], Swept(copy[c][call[c].id], call[c].at))'
        BY <3>2, <3>4, <3>6 DEF Checked, CanApprove, CanReject, CanConsume
      <3> QED BY <3>2, <3>3, <3>4, <3>5, <3>7 DEF Shape, At, LedgerOps, Naming
    <2>2. CASE ~can
      BY <1>3, <2>2 DEF Decide, Return, TypeOK, Shape, At
    <2> QED BY <2>1, <2>2
  <1>4. CASE ApproveRequest(c) \/ RejectRequest(c) \/ ConsumeApproval(c)
    <2>1. PICK op \in Naming : call[c].op = op /\ At(c, "handler")
      BY <1>4 DEF ApproveRequest, RejectRequest, ConsumeApproval, Decide, Naming
    <2>2. call[c].id \in Ids
      BY <1>0, <2>1 DEF Shape
    <2> DEFINE r == Swept(ledger[call[c].id], now)
    <2>3. r \in ApprovalRecords \cup {Nil}
      BY <2>2, SweptType DEF TypeOK, Ledgers
    <2> HIDE DEF r
    <2>4. CASE ApproveRequest(c)
      <3> DEFINE can == CanApprove(call[c], r)
      <3>1. Decide(c, "approve", can) /\ call[c].op = "approve"
        BY <2>4 DEF ApproveRequest, Decide, r
      <3>2. can \in BOOLEAN /\ (can => Checked(call[c], r))
        BY <2>3, <3>1 DEF Checked, CanApprove
      <3> QED BY <1>3, <3>1, <3>2 DEF Naming, r
    <2>5. CASE RejectRequest(c)
      <3> DEFINE can == CanReject(call[c], r)
      <3>1. Decide(c, "reject", can) /\ call[c].op = "reject"
        BY <2>5 DEF RejectRequest, Decide, r
      <3>2. can \in BOOLEAN /\ (can => Checked(call[c], r))
        BY <2>3, <3>1 DEF Checked, CanReject
      <3> QED BY <1>3, <3>1, <3>2 DEF Naming, r
    <2>6. CASE ConsumeApproval(c)
      <3> DEFINE can == CanConsume(call[c], r)
      <3>1. Decide(c, "schedule", can) /\ call[c].op = "schedule"
        BY <2>6 DEF ConsumeApproval, Decide, r
      <3>2. can \in BOOLEAN /\ (can => Checked(call[c], r))
        BY <2>3, <3>1 DEF Checked, CanConsume
      <3> QED BY <1>3, <3>1, <3>2 DEF Naming, r
    <2> QED BY <1>4, <2>4, <2>5, <2>6
  <1>5. CASE SaveLedger(c)
    <2>1. copy[c] \in Ledgers /\ call[c].id \in Ids /\ call[c].op \in LedgerOps
      BY <1>5 DEF SaveLedger, Shape
    <2>2. ledger' \in Ledgers
      <3>1. call[c].op \in Naming => Swept(copy[c][call[c].id], call[c].at) \in ApprovalRecords
        BY <1>5 DEF SaveLedger, Shape, Checked
      <3> QED BY <1>0, <1>5, <2>1, <3>1, WrittenType DEF SaveLedger
    <2>3. did' \subseteq [act : {"request", "approve", "consume"}, who : Owners, id : Ids]
      BY <1>0, <1>5, <2>1, CallFields DEF SaveLedger, TypeOK, Act, Effect
    <2>4. respent' \subseteq Ids /\ clobbered' \in BOOLEAN
      BY <1>5, <2>1 DEF SaveLedger, TypeOK
    <2>5. /\ call' \in [Calls -> CallRecords \cup {Nil}]
          /\ \/ call'[c] = Nil
             \/ call'[c].op = "schedule" /\ call'[c].id \in Ids /\ call'[c].step = "granted"
      BY <1>0, <1>5, <2>1, Moved, CallFields DEF SaveLedger, Leave, Return, TypeOK
    <2>6. TypeOK'
      BY <1>5, <2>2, <2>3, <2>4, <2>5 DEF SaveLedger, TypeOK
    <2> QED BY <2>5, <2>6 DEF Shape, At
  <1> QED BY <1>1, <1>2, <1>4, <1>5 DEF ControlStep

LEMMA GateTypes ==
    ASSUME TypeInv, NEW c \in Calls,
           \/ Enter(c) \/ Arrive(c) \/ GateRead(c) \/ GateAnswer(c) \/ GateFails(c) \/ Answer(c)
    PROVE  TypeOK' /\ Shape(c)'
  <1> USE DEF TypeInv
  <1>a. now \in Nat /\ CacheTtl \in Nat
    BY TimeAssumption, WindowAssumption DEF TypeOK
  <1>b. ASSUME NEW op \in Gated \cup Open, NEW who \in Owners, NEW id \in Ids \cup {Nil},
               NEW purpose \in Purposes, NEW at \in Nat, NEW until \in Nat,
               NEW step \in {"gate", "refused", "handler", "readDeletion"},
               op \in Naming => id \in Ids, step = "readDeletion" => op \in DeletionOps,
               call' = [call EXCEPT ![c] = Call(op, who, id, purpose, at, until, step)],
               UNCHANGED <<now, controlVars, deletionVars>>
        PROVE  TypeOK' /\ Shape(c)'
    <2>1. Call(op, who, id, purpose, at, until, step) \in CallRecords
      BY CallType
    <2>2. TypeOK'
      BY <1>b, <2>1 DEF TypeOK, controlVars, deletionVars
    <2>3. /\ call'[c].op = op /\ call'[c].id = id /\ call'[c].step = step
      BY <1>b DEF TypeOK, Call
    <2> QED BY <1>b, <2>2, <2>3 DEF Shape, At
  <1>1. CASE Enter(c)
    <2>1. PICK op \in Open, who \in Owners, id \in Ids \union {Nil} :
            /\ (op = "schedule") = (id # Nil)
            /\ call' = [call EXCEPT ![c] =
                 Call(op, who, id, DeletionPurpose, IF op = "complete" THEN now ELSE 0, 0,
                      IF op \in {"cancel", "complete"} THEN "readDeletion" ELSE "handler")]
      BY <1>1 DEF Enter
    <2>2. op \in Naming => id \in Ids
      BY <2>1 DEF Naming, Open
    <2>3. op \in {"cancel", "complete"} => op \in DeletionOps
      BY DEF DeletionOps
    <2>4. UNCHANGED <<now, controlVars, deletionVars>>
      BY <1>1 DEF Enter
    <2> QED BY <1>a, <1>b, <2>1, <2>2, <2>3, <2>4, PurposeAssumption
  <1>2. CASE Arrive(c)
    <2>1. PICK op \in Gated, who \in Owners, id \in Ids \union {Nil}, purpose \in Purposes :
            /\ (op \in {"approve", "reject"}) = (id # Nil)
            /\ call' = [call EXCEPT ![c] =
                 Call(op, who, id, purpose, IF MemoStep = "gate" THEN now ELSE 0, 0, MemoStep)]
      BY <1>2 DEF Arrive
    <2>2. op \in Naming => id \in Ids
      BY <2>1 DEF Naming, Gated
    <2>3. UNCHANGED <<now, controlVars, deletionVars>>
      BY <1>2 DEF Arrive
    <2>4. MemoStep \in {"gate", "refused", "handler"}
      BY DEF MemoStep
    <2> QED BY <1>a, <1>b, <2>1, <2>2, <2>3, <2>4
  <1>3. CASE GateRead(c) \/ GateFails(c) \/ GateAnswer(c)
    <2>1. call[c] # Nil /\ call[c] \in CallRecords
      BY <1>3 DEF GateRead, GateFails, GateAnswer, At, TypeOK
    <2>2. PICK step \in {"sawPending", "sawClear", "handler", "refused"}, at \in Nat, until \in Nat :
            Move(c, call[c].id, at, until, step)
      BY <1>3, <2>1, CallFields DEF GateRead, GateFails, GateAnswer, GoTo, Leave
    <2>3. /\ call' \in [Calls -> CallRecords \cup {Nil}]
          /\ call'[c].op = call[c].op /\ call'[c].id = call[c].id /\ call'[c].step = step
      <3>1. TypeOK /\ call[c].id \in Ids \cup {Nil}
        BY <2>1, CallFields
      <3>2. step \in {"gate", "sawPending", "sawClear", "refused", "handler",
                       "readLedger", "saveLedger", "granted", "readDeletion",
                       "saveDeletion", "invalidate"}
        BY <2>2
      <3>3. call[c] # Nil /\ Move(c, call[c].id, at, until, step)
        BY <2>1, <2>2
      <3> HIDE DEF TypeInv
      <3> QED BY <3>1, <3>2, <3>3, Moved
    <2>4. \A p \in BOOLEAN, t \in Nat :
            Memo(p, t + CacheTtl) \in [pending : BOOLEAN, expiresAt : Nat]
      BY <1>a DEF Memo
    <2>5. cached' \in [pending : BOOLEAN, expiresAt : Nat] \cup {Nil}
      <3>1. CASE GateAnswer(c)
        <4>1. cached' = Memo(At(c, "sawPending"), call[c].at + CacheTtl)
          BY <3>1 DEF GateAnswer
        <4>2. At(c, "sawPending") \in BOOLEAN
          BY DEF At
        <4> QED BY <2>1, <2>4, <4>1, <4>2, CallFields
      <3>2. CASE GateRead(c) \/ GateFails(c)
        BY <3>2 DEF GateRead, GateFails, deletionVars, TypeOK
      <3> QED BY <1>3, <3>1, <3>2
    <2>6. TypeOK'
      BY <1>3, <2>3, <2>5 DEF GateRead, GateFails, GateAnswer, TypeOK, controlVars, deletionVars
    <2>7. call[c].op \in Naming => call[c].id \in Ids
      BY <2>1 DEF Shape
    <2> QED BY <2>3, <2>6, <2>7 DEF Shape, At
  <1>4. CASE Answer(c)
    BY <1>4 DEF Answer, Return, TypeOK, Shape, At, controlVars, deletionVars
  <1> QED BY <1>1, <1>2, <1>3, <1>4

LEMMA DeletionTypes ==
    ASSUME TypeInv, NEW c \in Calls,
           Schedule(c) \/ ReadDeletion(c) \/ SaveDeletion(c) \/ Invalidate(c)
    PROVE  TypeOK' /\ Shape(c)'
  <1> USE DEF TypeInv, controlVars
  <1>a. now \in Nat
    BY TimeAssumption DEF TypeOK
  <1>0. call[c] # Nil /\ call[c] \in CallRecords
    BY DEF Schedule, ReadDeletion, SaveDeletion, Invalidate, At, TypeOK
  <1>1. CASE Schedule(c)
    <2>1. PICK grace \in Graces : Move(c, call[c].id, 0, now + grace, "readDeletion")
      BY <1>1 DEF Schedule
    <2>2. now + grace \in Nat
      BY <1>a, WindowAssumption
    <2>3. /\ call' \in [Calls -> CallRecords \cup {Nil}]
          /\ call'[c].op = call[c].op /\ call'[c].id = call[c].id
          /\ call'[c].step = "readDeletion"
      BY <1>0, <2>1, <2>2, Moved, CallFields
    <2>4. call[c].op = "schedule" /\ call[c].id \in Ids
      BY <1>0, <1>1 DEF Schedule, Shape, Naming
    <2>5. TypeOK'
      BY <1>1, <2>3 DEF Schedule, TypeOK, deletionVars
    <2> QED BY <2>3, <2>4, <2>5 DEF Shape, At, DeletionOps
  <1>2. CASE ReadDeletion(c)
    <2>1. CASE Allowed(call[c], deletion)
      <3>1. view' = [view EXCEPT ![c] = deletion] /\ GoTo(c, "saveDeletion")
        BY <1>2, <2>1 DEF ReadDeletion
      <3>2. /\ call' \in [Calls -> CallRecords \cup {Nil}]
            /\ call'[c].op = call[c].op /\ call'[c].id = call[c].id
            /\ call'[c].at = call[c].at /\ call'[c].step = "saveDeletion"
        BY <1>0, <3>1, Moved, CallFields DEF GoTo
      <3>3. view' \in [Calls -> DeletionRecords \cup {Nil}] /\ view'[c] = deletion
        BY <3>1 DEF TypeOK
      <3>4. TypeOK'
        BY <1>2, <3>2, <3>3 DEF ReadDeletion, TypeOK
      <3>5. call[c].op \in DeletionOps /\ (call[c].op \in Naming => call[c].id \in Ids)
        BY <1>0, <1>2 DEF ReadDeletion, Shape
      <3>6. deletion \in DeletionRecords
        BY DEF TypeOK
      <3>7. Allowed(call[c], view[c])'
        BY <2>1, <3>2, <3>3 DEF Allowed, IsPastDue
      <3> QED BY <3>2, <3>3, <3>4, <3>5, <3>6, <3>7 DEF Shape, At
    <2>2. CASE ~Allowed(call[c], deletion)
      BY <1>2, <2>2 DEF ReadDeletion, Return, TypeOK, Shape, At
    <2> QED BY <2>1, <2>2
  <1>3. CASE SaveDeletion(c)
    <2>1. view[c] \in DeletionRecords /\ call[c].op \in DeletionOps
      BY <1>3 DEF SaveDeletion, Shape
    <2>2. deletion' \in DeletionRecords
      BY <1>0, <1>3, <2>1, CallFields DEF SaveDeletion, Outcome, Deletion, DeletionRecords
    <2>3. /\ call' \in [Calls -> CallRecords \cup {Nil}]
          /\ call'[c].op = call[c].op /\ call'[c].id = call[c].id
          /\ call'[c].step = "invalidate"
      BY <1>0, <1>3, Moved, CallFields DEF SaveDeletion, Leave
    <2>4. since' \in 0..MaxTime
      BY <1>3 DEF SaveDeletion, TypeOK
    <2>5. TypeOK'
      BY <1>3, <2>2, <2>3, <2>4 DEF SaveDeletion, TypeOK
    <2>6. call[c].op \in Naming => call[c].id \in Ids
      BY <1>0 DEF Shape
    <2> QED BY <2>3, <2>5, <2>6 DEF Shape, At
  <1>4. CASE Invalidate(c)
    BY <1>4 DEF Invalidate, Return, TypeOK, Shape, At
  <1> QED BY <1>1, <1>2, <1>3, <1>4

LEMMA TypeInit == Init => TypeInv
  <1> SUFFICES ASSUME Init PROVE TypeInv
    OBVIOUS
  <1>1. ledger \in Ledgers /\ call = [c \in Calls |-> Nil]
    BY DEF Init, ControlInit, Ledgers
  <1>2. deletion \in DeletionRecords
    BY DEF Init, Deletion, DeletionRecords
  <1>3. /\ call \in [Calls -> CallRecords \cup {Nil}]
        /\ copy \in [Calls -> Ledgers \cup {Nil}]
        /\ view \in [Calls -> DeletionRecords \cup {Nil}]
    BY DEF Init, ControlInit
  <1>4. now \in 0..MaxTime /\ since \in 0..MaxTime
    BY TimeAssumption DEF Init, ControlInit
  <1>5. clobbered \in BOOLEAN
    BY DEF Init, ControlInit
  <1>6. cached = Nil /\ did = {} /\ respent = {} /\ minted = {}
    BY DEF Init, ControlInit
  <1>7. TypeOK
    BY <1>1, <1>2, <1>3, <1>4, <1>5, <1>6 DEF TypeOK
  <1> QED BY <1>1, <1>7 DEF TypeInv, Shape, At

LEMMA TypeStep == TypeInv /\ [Next]_vars => TypeInv'
  <1> SUFFICES ASSUME TypeInv, [Next]_vars PROVE TypeInv'
    OBVIOUS
  <1>1. CASE Tick
    <2>1. now' \in 0..MaxTime
      BY <1>1, TimeAssumption DEF Tick, TypeInv, TypeOK
    <2>2. TypeOK' /\ UNCHANGED <<call, copy, view>>
      BY <1>1, <2>1 DEF Tick, TypeInv, TypeOK, controlVars, deletionVars
    <2> QED BY <2>2, ShapeFrame DEF TypeInv
  <1>2. CASE Restart
    <2>1. TypeOK' /\ \A c \in Calls : call'[c] = Nil
      BY <1>2 DEF Restart, TypeInv, TypeOK
    <2> QED BY <2>1 DEF TypeInv, Shape, At
  <1>3. ASSUME NEW c \in Calls, Step(c) PROVE TypeInv'
    <2>1. TypeOK' /\ Shape(c)'
      BY <1>3, ControlTypes, GateTypes, DeletionTypes DEF Step
    <2>2. \A d \in Calls : d # c => Shape(d)'
      BY <1>3, Others, ShapeFrame DEF TypeInv
    <2> QED BY <2>1, <2>2 DEF TypeInv
  <1>4. CASE UNCHANGED vars
    <2>1. TypeOK' /\ UNCHANGED <<call, copy, view>>
      BY <1>4 DEF vars, TypeInv, TypeOK, controlVars, deletionVars
    <2> QED BY <2>1, ShapeFrame DEF TypeInv
  <1> QED BY <1>1, <1>2, <1>3, <1>4 DEF Next

\* Every variable of the two components keeps its type.
THEOREM DeletionTypesHold == Spec => []TypeOK
  <1>1. TypeInv => TypeOK
    BY DEF TypeInv
  <1> QED BY <1>1, TypeInit, TypeStep, PTL DEF Spec

-----------------------------------------------------------------------------
(* The gate's memo *)

InGate(c) == At(c, "gate") \/ At(c, "sawPending") \/ At(c, "sawClear")

\* A wrong memo runs out within CacheTtl of the change it missed.
MemoInv ==
    cached # Nil =>
        /\ cached.expiresAt <= now + CacheTtl
        /\ ~(cached.pending <=> IsPending) => cached.expiresAt <= since + CacheTtl

\* A gate that has read what no longer holds asked before the change.
SightInv(c) ==
    /\ InGate(c) => call[c].at <= now
    /\ At(c, "sawPending") /\ ~IsPending => call[c].at <= since
    /\ At(c, "sawClear") /\ IsPending => call[c].at <= since

GateInv == since <= now /\ MemoInv /\ \A c \in Calls : SightInv(c)

\* A step that leaves time, file and memo alone, and a call out of the gate
LEMMA GateFrame ==
    ASSUME TypeOK, GateInv, NEW c \in Calls,
           UNCHANGED <<now, deletion, since, cached>>,
           \A d \in Calls : d # c => call'[d] = call[d],
           SightInv(c)'
    PROVE  GateInv'
  <1>1. IsPending' = IsPending
    BY DEF IsPending
  <1>2. MemoInv'
    BY <1>1 DEF GateInv, MemoInv
  <1>3. \A d \in Calls : d # c => SightInv(d)'
    BY <1>1 DEF GateInv, SightInv, InGate, At
  <1> QED BY <1>2, <1>3 DEF GateInv

\* Where a control step leaves its call
LEMMA ControlCall ==
    ASSUME TypeInv, NEW c \in Calls, ControlStep(c)
    PROVE  /\ UNCHANGED now
           /\ \/ call'[c] = Nil
              \/ call'[c].step \in {"readLedger", "saveLedger", "granted"}
  <1>0. call[c] # Nil /\ call[c] \in CallRecords
    BY DEF ControlStep, CreateRequest, ReadLedger, ApproveRequest, RejectRequest,
           ConsumeApproval, SaveLedger, At, TypeOK, TypeInv
  <1>1. ASSUME NEW id, NEW at, NEW until, NEW step, Move(c, id, at, until, step)
        PROVE  call'[c].step = step
    BY <1>1 DEF Move, Call, TypeInv, TypeOK
  <1>2. Return(c) => call'[c] = Nil
    BY DEF Return, TypeInv, TypeOK
  <1>3. CASE CreateRequest(c) BY <1>1, <1>3 DEF CreateRequest
  <1>4. CASE ReadLedger(c) BY <1>1, <1>4 DEF ReadLedger, GoTo
  <1>5. CASE ApproveRequest(c) \/ RejectRequest(c) \/ ConsumeApproval(c)
    BY <1>1, <1>2, <1>5 DEF ApproveRequest, RejectRequest, ConsumeApproval, Decide
  <1>6. CASE SaveLedger(c) BY <1>1, <1>2, <1>6 DEF SaveLedger, Leave
  <1> QED BY <1>3, <1>4, <1>5, <1>6 DEF ControlStep

LEMMA MoveFields ==
    ASSUME TypeOK, NEW c \in Calls, NEW id, NEW at, NEW until, NEW step,
           Move(c, id, at, until, step)
    PROVE  /\ call'[c].step = step /\ call'[c].at = at /\ call'[c].id = id
           /\ call'[c].until = until /\ call'[c].op = call[c].op /\ call'[c].who = call[c].who
           /\ call'[c].purpose = call[c].purpose
  BY DEF Move, Call, TypeOK

LEMMA GateInit == Init => GateInv
  BY DEF Init, ControlInit, GateInv, MemoInv, SightInv, InGate, At

LEMMA GateStep == TypeInv /\ GateInv /\ [Next]_vars => GateInv'
  <1> SUFFICES ASSUME TypeInv, GateInv, [Next]_vars PROVE GateInv'
    OBVIOUS
  <1>a. TypeOK /\ now \in Nat /\ since \in Nat /\ CacheTtl \in Nat
    BY TimeAssumption, WindowAssumption DEF TypeInv, TypeOK
  <1>b. cached # Nil => cached.expiresAt \in Nat /\ cached.pending \in BOOLEAN
    BY <1>a DEF TypeOK
  <1>c. \A c \in Calls : call[c] # Nil => call[c].at \in Nat
    BY <1>a, CallFields DEF TypeOK
  <1>1. CASE Tick
    <2>1. now' \in Nat /\ now < now' /\ UNCHANGED <<call, deletion, cached, since>>
      BY <1>1, <1>a DEF Tick, deletionVars
    <2>2. MemoInv'
      BY <1>a, <1>b, <2>1 DEF GateInv, MemoInv, IsPending
    <2>3. \A c \in Calls : SightInv(c)'
      BY <1>a, <1>c, <2>1 DEF GateInv, SightInv, InGate, At, IsPending
    <2> QED BY <1>a, <2>1, <2>2, <2>3 DEF GateInv
  <1>2. CASE Restart
    <2>1. UNCHANGED <<now, since>> /\ cached' = Nil /\ \A c \in Calls : call'[c] = Nil
      BY <1>2 DEF Restart
    <2> QED BY <2>1 DEF GateInv, MemoInv, SightInv, InGate, At
  <1>3. ASSUME NEW c \in Calls, Step(c) PROVE GateInv'
    <2>0. \A d \in Calls : d # c => call'[d] = call[d]
      BY <1>3, <1>a, Others
    <2>1. CASE ControlStep(c) /\ UNCHANGED deletionVars
      <3>1. SightInv(c)'
        BY <2>1, ControlCall DEF SightInv, InGate, At
      <3>2. UNCHANGED <<now, deletion, since, cached>>
        BY <2>1, ControlCall DEF deletionVars
      <3> QED BY <1>a, <2>0, <3>1, <3>2, GateFrame
    <2>2. ASSUME NEW k, NEW step \in {"gate", "refused", "handler", "readDeletion"},
                 k.step = step, step = "gate" => k.at = now,
                 call' = [call EXCEPT ![c] = k], UNCHANGED <<now, deletionVars>>
          PROVE  GateInv'
      <3>1. call'[c] = k
        BY <1>a, <2>2 DEF TypeOK
      <3>2. SightInv(c)'
        BY <1>a, <2>2, <3>1 DEF SightInv, InGate, At
      <3> QED BY <1>a, <2>0, <2>2, <3>2, GateFrame DEF deletionVars
    <2>11. CASE Enter(c)
      <3>1. PICK op \in Open, who \in Owners, id \in Ids \union {Nil} :
              call' = [call EXCEPT ![c] =
                 Call(op, who, id, DeletionPurpose, IF op = "complete" THEN now ELSE 0, 0,
                      IF op \in {"cancel", "complete"} THEN "readDeletion" ELSE "handler")]
        BY <2>11 DEF Enter
      <3> DEFINE step == IF op \in {"cancel", "complete"} THEN "readDeletion" ELSE "handler"
                 k == Call(op, who, id, DeletionPurpose, IF op = "complete" THEN now ELSE 0, 0, step)
      <3>2. k.step = step /\ step \in {"gate", "refused", "handler", "readDeletion"} /\ step # "gate"
        BY DEF Call
      <3>3. call' = [call EXCEPT ![c] = k]
        BY <3>1
      <3>4. UNCHANGED <<now, deletionVars>>
        BY <2>11 DEF Enter
      <3> HIDE DEF k, step
      <3> QED BY <2>2, <3>2, <3>3, <3>4
    <2>12. CASE Arrive(c)
      <3>1. PICK op \in Gated, who \in Owners, id \in Ids \union {Nil}, purpose \in Purposes :
              call' = [call EXCEPT ![c] =
                 Call(op, who, id, purpose, IF MemoStep = "gate" THEN now ELSE 0, 0, MemoStep)]
        BY <2>12 DEF Arrive
      <3> DEFINE k == Call(op, who, id, purpose, IF MemoStep = "gate" THEN now ELSE 0, 0, MemoStep)
      <3>2. k.step = MemoStep /\ (MemoStep = "gate" => k.at = now)
        BY DEF Call
      <3>3. MemoStep \in {"gate", "refused", "handler", "readDeletion"}
        BY DEF MemoStep
      <3>4. UNCHANGED <<now, deletionVars>>
        BY <2>12 DEF Arrive
      <3>5. call' = [call EXCEPT ![c] = k]
        BY <3>1
      <3> HIDE DEF k
      <3> QED BY <2>2, <3>2, <3>3, <3>4, <3>5
    <2>3. CASE GateRead(c)
      <3>1. UNCHANGED <<now, deletion, since, cached>> /\ At(c, "gate")
        BY <2>3 DEF GateRead, deletionVars
      <3>2. /\ call'[c].at = call[c].at /\ call'[c].step = IF IsPending THEN "sawPending" ELSE "sawClear"
            /\ call[c].at <= now
        BY <1>a, <2>3, <3>1, MoveFields DEF GateRead, GoTo, GateInv, SightInv, InGate
      <3>3. SightInv(c)'
        BY <3>1, <3>2 DEF SightInv, InGate, At, IsPending
      <3> QED BY <1>a, <2>0, <3>1, <3>3, GateFrame
    <2>4. CASE GateAnswer(c)
      <3>1. /\ UNCHANGED <<now, deletion, since>>
            /\ cached' = Memo(At(c, "sawPending"), call[c].at + CacheTtl)
            /\ At(c, "sawPending") \/ At(c, "sawClear")
            /\ call'[c].step \in {"refused", "handler"}
        BY <1>a, <2>4, MoveFields DEF GateAnswer, Leave
      <3>2. /\ call[c].at <= now /\ call[c].at \in Nat
            /\ ~(At(c, "sawPending") <=> IsPending) => call[c].at <= since
        BY <1>c, <3>1 DEF GateInv, SightInv, InGate, At
      <3>3. /\ cached'.expiresAt = call[c].at + CacheTtl
            /\ cached'.pending = At(c, "sawPending")
        BY <3>1 DEF Memo
      <3>4. MemoInv'
        BY <1>a, <3>1, <3>2, <3>3 DEF MemoInv, IsPending
      <3>5. \A d \in Calls : SightInv(d)'
        BY <2>0, <3>1 DEF GateInv, SightInv, InGate, At, IsPending
      <3> QED BY <3>1, <3>4, <3>5 DEF GateInv
    <2>5. CASE GateFails(c)
      <3>1. UNCHANGED <<now, deletion, since, cached>> /\ call'[c].step = "handler"
        BY <1>a, <2>5, MoveFields DEF GateFails, Leave, deletionVars
      <3>2. SightInv(c)'
        BY <3>1 DEF SightInv, InGate, At
      <3> QED BY <1>a, <2>0, <3>1, <3>2, GateFrame
    <2>6. CASE Answer(c)
      <3>1. UNCHANGED <<now, deletion, since, cached>> /\ call'[c] = Nil
        BY <1>a, <2>6 DEF Answer, Return, deletionVars, TypeOK
      <3>2. SightInv(c)'
        BY <3>1 DEF SightInv, InGate, At
      <3> QED BY <1>a, <2>0, <3>1, <3>2, GateFrame
    <2>7. CASE Schedule(c)
      <3>1. UNCHANGED <<now, deletion, since, cached>> /\ call'[c].step = "readDeletion"
        BY <1>a, <2>7, MoveFields DEF Schedule, deletionVars
      <3>2. SightInv(c)'
        BY <3>1 DEF SightInv, InGate, At
      <3> QED BY <1>a, <2>0, <3>1, <3>2, GateFrame
    <2>8. CASE ReadDeletion(c)
      <3>1. UNCHANGED <<now, deletion, since, cached>>
            /\ (call'[c] = Nil \/ call'[c].step = "saveDeletion")
        BY <1>a, <2>8, MoveFields DEF ReadDeletion, GoTo, Return, TypeOK
      <3>2. SightInv(c)'
        BY <3>1 DEF SightInv, InGate, At
      <3> QED BY <1>a, <2>0, <3>1, <3>2, GateFrame
    <2>9. CASE SaveDeletion(c)
      <3>1. /\ UNCHANGED <<now, cached>> /\ call'[c].step = "invalidate"
            /\ since' = IF IsPending' = IsPending THEN since ELSE now
        BY <1>a, <2>9, MoveFields DEF SaveDeletion, Leave
      <3>2. SightInv(c)'
        BY <3>1 DEF SightInv, InGate, At
      <3>3. CASE IsPending' = IsPending
        <4>1. since' = since
          BY <3>1, <3>3
        <4>2. MemoInv'
          BY <3>1, <3>3, <4>1 DEF GateInv, MemoInv
        <4>3. \A d \in Calls : SightInv(d)'
          BY <2>0, <3>1, <3>2, <3>3, <4>1 DEF GateInv, SightInv, InGate, At
        <4> QED BY <3>1, <4>1, <4>2, <4>3 DEF GateInv
      <3>4. CASE IsPending' # IsPending
        <4>1. since' = now
          BY <3>1, <3>4
        <4>2. MemoInv'
          BY <3>1, <4>1 DEF GateInv, MemoInv
        <4>3. \A d \in Calls : SightInv(d)'
          BY <2>0, <3>1, <3>2, <4>1 DEF GateInv, SightInv, InGate, At
        <4> QED BY <1>a, <3>1, <4>1, <4>2, <4>3 DEF GateInv
      <3> QED BY <3>3, <3>4
    <2>10. CASE Invalidate(c)
      <3>1. UNCHANGED <<now, deletion, since>> /\ cached' = Nil /\ call'[c] = Nil
        BY <1>a, <2>10 DEF Invalidate, Return, TypeOK
      <3>2. \A d \in Calls : SightInv(d)'
        BY <2>0, <3>1 DEF GateInv, SightInv, InGate, At, IsPending
      <3> QED BY <3>1, <3>2 DEF GateInv, MemoInv
    <2> QED
      BY <1>3, <2>1, <2>11, <2>12, <2>3, <2>4, <2>5, <2>6, <2>7, <2>8, <2>9, <2>10 DEF Step
  <1>4. CASE UNCHANGED vars
    BY <1>4 DEF vars, deletionVars, GateInv, MemoInv, SightInv, InGate, At, IsPending
  <1> QED BY <1>1, <1>2, <1>3, <1>4 DEF Next

Answered(c) ==
    /\ call'[c] # call[c] /\ call'[c] # Nil
    /\ call'[c].op \in Gated /\ call'[c].step \in {"refused", "handler"}
    /\ ~At(c, "gate")
    /\ Arrival(c) >= since + CacheTtl

LEMMA AnswerIsCurrent ==
    ASSUME TypeInv, GateInv, [Next]_vars, NEW c \in Calls, Answered(c)
    PROVE  call'[c].step = "refused" <=> IsPending
  <1>a. TypeOK /\ now \in Nat /\ since \in Nat /\ CacheTtl \in Nat \ {0}
    BY TimeAssumption, WindowAssumption DEF TypeInv, TypeOK
  <1>b. cached # Nil => cached.expiresAt \in Nat /\ cached.pending \in BOOLEAN
    BY <1>a DEF TypeOK
  <1>c. call[c] # Nil => call[c].at \in Nat
    BY <1>a, CallFields DEF TypeOK
  <1>1. Step(c)
    <2>1. ASSUME NEW d \in Calls, Step(d), d # c PROVE FALSE
      BY <1>a, <2>1, Others DEF Answered
    <2>2. ~Tick /\ ~Restart /\ ~UNCHANGED vars
      BY DEF Tick, Restart, vars, Answered
    <2> QED BY <2>1, <2>2 DEF Next
  <1>2. CASE Arrive(c)
    <2>1. PICK op \in Gated, who \in Owners, id \in Ids \union {Nil}, purpose \in Purposes :
            call' = [call EXCEPT ![c] =
               Call(op, who, id, purpose, IF MemoStep = "gate" THEN now ELSE 0, 0, MemoStep)]
      BY <1>2 DEF Arrive
    <2>2. call'[c].step = MemoStep /\ call[c] = Nil
      BY <1>a, <1>2, <2>1 DEF Call, TypeOK, Arrive
    <2>3. MemoStep # "gate" /\ now >= since + CacheTtl
      BY <2>2 DEF Answered, Arrival
    <2>4. cached # Nil /\ cached.expiresAt > now
      BY <1>a, <1>b, <2>3 DEF MemoStep
    <2>5. cached.pending <=> IsPending
      BY <1>a, <1>b, <2>3, <2>4 DEF GateInv, MemoInv
    <2>6. CASE cached.pending
      BY <2>2, <2>3, <2>5, <2>6 DEF MemoStep
    <2>7. CASE ~cached.pending
      BY <2>2, <2>3, <2>5, <2>7 DEF MemoStep
    <2> QED BY <1>b, <2>4, <2>6, <2>7
  <1>3. CASE GateAnswer(c)
    <2>1. call'[c].step = IF At(c, "sawPending") THEN "refused" ELSE "handler"
      BY <1>a, <1>3, MoveFields DEF GateAnswer, Leave
    <2>2. call[c] # Nil /\ (At(c, "sawPending") \/ At(c, "sawClear"))
      BY <1>3 DEF GateAnswer, At
    <2>3. call[c].at > since
      BY <1>a, <1>c, <2>2 DEF Answered, Arrival
    <2>4. At(c, "sawPending") <=> IsPending
      BY <1>a, <1>c, <2>2, <2>3 DEF GateInv, SightInv, At
    <2> QED BY <2>1, <2>4
  <1>4. CASE Enter(c)
    <2>1. PICK op \in Open, who \in Owners, id \in Ids \union {Nil} :
            call' = [call EXCEPT ![c] =
               Call(op, who, id, DeletionPurpose, IF op = "complete" THEN now ELSE 0, 0,
                    IF op \in {"cancel", "complete"} THEN "readDeletion" ELSE "handler")]
      BY <1>4 DEF Enter
    <2>2. call'[c].op = op
      BY <1>a, <2>1 DEF Call, TypeOK
    <2> QED BY <2>2 DEF Answered, Gated, Open
  <1>5. CASE ControlStep(c)
    BY <1>5, ControlCall DEF Answered
  <1>6. CASE GateRead(c) \/ GateFails(c)
    BY <1>6 DEF GateRead, GateFails, Answered
  <1>7. CASE Answer(c) \/ Invalidate(c)
    BY <1>a, <1>7 DEF Answer, Invalidate, Return, Answered, TypeOK
  <1>8. CASE Schedule(c)
    <2>1. call'[c].step = "readDeletion"
      BY <1>a, <1>8, MoveFields DEF Schedule
    <2> QED BY <2>1 DEF Answered
  <1>9. CASE ReadDeletion(c)
    <2>1. call'[c] = Nil \/ call'[c].step = "saveDeletion"
      BY <1>a, <1>9, MoveFields DEF ReadDeletion, GoTo, Return, TypeOK
    <2> QED BY <2>1 DEF Answered
  <1>10. CASE SaveDeletion(c)
    <2>1. call'[c].step = "invalidate"
      BY <1>a, <1>10, MoveFields DEF SaveDeletion, Leave
    <2> QED BY <2>1 DEF Answered
  <1> QED
    BY <1>1, <1>2, <1>3, <1>4, <1>5, <1>6, <1>7, <1>8, <1>9, <1>10 DEF Step

\* However many calls overlap, a mutating request that arrives CacheTtl or more
\* after the deletion was scheduled or lifted is judged by the file as it stands.
THEOREM TheGateIsCurrent == Spec => GateIsCurrent
  <1>1. Init => TypeInv /\ GateInv
    BY TypeInit, GateInit
  <1>2. TypeInv /\ GateInv /\ [Next]_vars => (TypeInv /\ GateInv)'
    BY TypeStep, GateStep
  <1>3. TypeInv /\ GateInv /\ [Next]_vars =>
          [\A c \in Calls :
             /\ call'[c] # call[c] /\ call'[c] # Nil
             /\ call'[c].op \in Gated /\ call'[c].step \in {"refused", "handler"}
             /\ ~At(c, "gate")
             /\ Arrival(c) >= since + CacheTtl
             => (call'[c].step = "refused" <=> IsPending)]_vars
    BY AnswerIsCurrent DEF Answered
  <1> QED BY <1>1, <1>2, <1>3, PTL DEF Spec, GateIsCurrent

-----------------------------------------------------------------------------
(* The freeze in front of it.  Whatever a request does at the freeze gate, *)
(* the deletion and its ledger see calls of their own or nothing at all;   *)
(* and the memo of the freeze is as good as the one of the deletion.       *)

LEMMA LockedStep == [LockNext]_lockVars => [Next]_vars
  <1> SUFFICES ASSUME [LockNext]_lockVars PROVE [Next]_vars
    OBVIOUS
  <1>1. CASE Tick /\ UNCHANGED freezeVars
    BY <1>1 DEF Next
  <1>2. CASE LockRestart
    BY <1>2 DEF LockRestart, Next
  <1>3. ASSUME NEW c \in Calls, FreezeStep(c) PROVE [Next]_vars
    <2>1. CASE Knock(c) \/ FreezeRead(c) \/ FreezeAnswer(c) \/ FreezeGateFails(c) \/ TurnAway(c)
      BY <2>1 DEF Knock, FreezeRead, FreezeAnswer, FreezeGateFails, TurnAway
    <2>2. CASE Admit(c) \/ Inside(c) \/ LoadFreeze(c) \/ DropMemo(c)
      <3>1. Step(c) \/ UNCHANGED vars
        BY <2>2 DEF Admit, Inside, LoadFreeze, DropMemo, Step
      <3> QED BY <3>1 DEF Next
    <2>3. CASE SaveFreeze(c)
      BY <2>3 DEF SaveFreeze
    <2> QED BY <1>3, <2>1, <2>2, <2>3 DEF FreezeStep
  <1>4. CASE UNCHANGED lockVars
    BY <1>4 DEF lockVars
  <1> QED BY <1>1, <1>2, <1>3, <1>4 DEF LockNext

\* The workspace behind the freeze gate is the one of WorkspaceDeletion: what is
\* proved of it holds with freezes, releases and refusals in between.
THEOREM FreezeHidesNothing == LockSpec => Spec
  BY LockedStep, PTL DEF LockSpec, LockInit, Spec

InFreezeGate(c) == Comes(c, "gate") \/ Comes(c, "sawFrozen") \/ Comes(c, "sawThawed")

FreezeMemoInv ==
    frozenMemo # Nil =>
        /\ frozenMemo.expiresAt <= now + FreezeTtl
        /\ ~(frozenMemo.active <=> frozen) => frozenMemo.expiresAt <= frozenSince + FreezeTtl

VisitInv(c) ==
    /\ InFreezeGate(c) => visit[c].at <= now /\ visit[c].op \notin Switches
    /\ Comes(c, "sawFrozen") /\ ~frozen => visit[c].at <= frozenSince
    /\ Comes(c, "sawThawed") /\ frozen => visit[c].at <= frozenSince

FreezeInv == frozenSince <= now /\ FreezeMemoInv /\ \A c \in Calls : VisitInv(c)

\* The fields and the type of a visit
LEMMA VisitFields ==
    ASSUME NEW op, NEW at, NEW step
    PROVE  /\ Visit(op, at, step).op = op /\ Visit(op, at, step).at = at
           /\ Visit(op, at, step).step = step
           /\ op \in VisitOps /\ at \in Nat /\ step \in VisitSteps =>
                Visit(op, at, step) \in Visits
  BY DEF Visit, Visits

\* The clock is natural while TypeOK holds.
LEMMA ClockType ==
    ASSUME TypeOK PROVE now \in Nat /\ FreezeTtl \in Nat \ {0}
  BY TimeAssumption, FreezeAssumption DEF TypeOK

\* No step of a call moves the clock.
LEMMA StepKeepsTime ==
    ASSUME NEW c \in Calls, Step(c) PROVE UNCHANGED now
  BY DEF Step, ControlStep, CreateRequest, ReadLedger, ApproveRequest, RejectRequest,
         ConsumeApproval, Decide, SaveLedger, Enter, Arrive, GateRead, GateAnswer, GateFails,
         Answer, Schedule, ReadDeletion, SaveDeletion, Invalidate

\* What a step at the freeze gate does to its own request and to the others
LEMMA Proceeds ==
    ASSUME FreezeTypeOK, NEW c \in Calls, visit[c] # Nil, NEW step \in VisitSteps,
           Proceed(c, step)
    PROVE  /\ visit' \in [Calls -> Visits \cup {Nil}]
           /\ visit'[c].step = step /\ visit'[c].op = visit[c].op
           /\ \A d \in Calls : d # c => visit'[d] = visit[d]
  <1>1. visit[c].op \in VisitOps /\ visit \in [Calls -> Visits \cup {Nil}]
    BY DEF FreezeTypeOK, Visits
  <1>2. visit' = [visit EXCEPT ![c] = Visit(visit[c].op, 0, step)]
    BY DEF Proceed
  <1>3. Visit(visit[c].op, 0, step) \in Visits
    BY <1>1, VisitFields
  <1>4. visit'[c] = Visit(visit[c].op, 0, step)
    BY <1>1, <1>2 DEF Visits
  <1> QED BY <1>1, <1>2, <1>3, <1>4, VisitFields DEF Visits

LEMMA Leaves ==
    ASSUME FreezeTypeOK, NEW c \in Calls, Gone(c)
    PROVE  /\ visit' \in [Calls -> Visits \cup {Nil}] /\ visit'[c] = Nil
           /\ \A d \in Calls : d # c => visit'[d] = visit[d]
  BY DEF FreezeTypeOK, Gone

\* What every step leaves: the types, and the memo and the reads of the gate.
LEMMA FreezeFrame ==
    ASSUME FreezeInv, NEW c \in Calls,
           UNCHANGED <<now, frozen, frozenSince, frozenMemo>>,
           \A d \in Calls : d # c => visit'[d] = visit[d],
           VisitInv(c)'
    PROVE  FreezeInv'
  <1>1. FreezeMemoInv'
    BY DEF FreezeInv, FreezeMemoInv
  <1>2. \A d \in Calls : d # c => VisitInv(d)'
    BY DEF FreezeInv, VisitInv, InFreezeGate, Comes
  <1> QED BY <1>1, <1>2 DEF FreezeInv

FreezeOK == TypeOK /\ FreezeTypeOK /\ FreezeInv

LEMMA FreezeInit == LockInit => FreezeTypeOK /\ FreezeInv
  <1> SUFFICES ASSUME LockInit PROVE FreezeTypeOK /\ FreezeInv
    OBVIOUS
  <1>1. now = 0 /\ frozenSince = 0 /\ frozen = FALSE /\ frozenMemo = Nil
        /\ visit = [c \in Calls |-> Nil]
    BY DEF LockInit, Init, ControlInit
  <1>2. FreezeTypeOK
    <2>1. frozenSince \in 0..MaxTime
      BY <1>1, TimeAssumption
    <2>2. visit \in [Calls -> Visits \cup {Nil}]
      BY <1>1
    <2> QED BY <1>1, <2>1, <2>2 DEF FreezeTypeOK
  <1>3. FreezeInv
    BY <1>1 DEF FreezeInv, FreezeMemoInv, VisitInv, InFreezeGate, Comes
  <1> QED BY <1>2, <1>3

\* A request that is not at the gate any more
LEMMA OutOfGate ==
    ASSUME NEW c \in Calls,
           visit'[c] = Nil \/ visit'[c].step \in {"refused", "through", "inside", "save", "drop"}
    PROVE  VisitInv(c)'
  BY DEF VisitInv, InFreezeGate, Comes

LEMMA FreezeStepKeeps ==
    ASSUME FreezeOK, NEW c \in Calls, FreezeStep(c)
    PROVE  FreezeTypeOK' /\ FreezeInv'
  <1>a. now \in Nat /\ FreezeTtl \in Nat \ {0} /\ frozenSince \in Nat /\ frozenSince \in 0..MaxTime
        /\ now \in 0..MaxTime /\ MaxTime \in Nat
    BY ClockType, TimeAssumption DEF FreezeOK, FreezeTypeOK, TypeOK
  <1>b. FreezeTypeOK /\ FreezeInv /\ visit \in [Calls -> Visits \cup {Nil}]
    BY DEF FreezeOK, FreezeTypeOK
  <1>c. frozenMemo # Nil => frozenMemo.expiresAt \in Nat /\ frozenMemo.active \in BOOLEAN
    BY <1>b DEF FreezeTypeOK
  <1>d. visit[c] # Nil => visit[c].at \in Nat /\ visit[c].op \in VisitOps
    BY <1>b DEF Visits
  <1>e. ASSUME visit' \in [Calls -> Visits \cup {Nil}], UNCHANGED <<frozen, frozenMemo, frozenSince>>
        PROVE  FreezeTypeOK'
    BY <1>b, <1>e DEF FreezeTypeOK, Visits
  <1>f. ASSUME visit[c] # Nil, NEW step \in {"refused", "through", "inside", "save", "drop"},
               Proceed(c, step), UNCHANGED <<now, frozen, frozenMemo, frozenSince>>
        PROVE  FreezeTypeOK' /\ FreezeInv'
    <2>1. step \in VisitSteps
      BY DEF VisitSteps
    <2>2. /\ visit' \in [Calls -> Visits \cup {Nil}] /\ visit'[c].step = step
          /\ \A d \in Calls : d # c => visit'[d] = visit[d]
      BY <1>b, <1>f, <2>1, Proceeds
    <2>3. VisitInv(c)'
      BY <2>2, OutOfGate
    <2> QED BY <1>b, <1>e, <1>f, <2>2, <2>3, FreezeFrame
  <1>g. ASSUME Gone(c), UNCHANGED <<now, frozen, frozenMemo, frozenSince>>
        PROVE  FreezeTypeOK' /\ FreezeInv'
    <2>1. /\ visit' \in [Calls -> Visits \cup {Nil}] /\ visit'[c] = Nil
          /\ \A d \in Calls : d # c => visit'[d] = visit[d]
      BY <1>b, <1>g, Leaves
    <2>2. VisitInv(c)'
      BY <2>1, OutOfGate
    <2> QED BY <1>b, <1>e, <1>g, <2>1, <2>2, FreezeFrame
  <1>1. CASE Knock(c)
    <2>1. PICK op \in VisitOps :
            visit' = [visit EXCEPT ![c] =
              Visit(op, IF ArriveStep(op) = "gate" THEN now ELSE 0, ArriveStep(op))]
      BY <1>1 DEF Knock, VisitOps
    <2> DEFINE step == ArriveStep(op)
               at == IF step = "gate" THEN now ELSE 0
    <2>2. step \in {"gate", "refused", "through"} /\ (step = "gate" => op \notin Switches)
      BY DEF ArriveStep, FreezeAllowed
    <2>3. at \in Nat /\ at <= now
      BY <1>a
    <2>4. Visit(op, at, step) \in Visits
      BY <2>2, <2>3, VisitFields DEF VisitSteps
    <2>5. visit' = [visit EXCEPT ![c] = Visit(op, at, step)]
      BY <2>1
    <2> HIDE DEF step, at
    <2>6. visit'[c] = Visit(op, at, step) /\ visit' \in [Calls -> Visits \cup {Nil}]
      BY <1>b, <2>4, <2>5 DEF Visits
    <2>7. visit'[c].step = step /\ visit'[c].at = at /\ visit'[c].op = op
      BY <2>6, VisitFields
    <2>8. \A d \in Calls : d # c => visit'[d] = visit[d]
      BY <1>b, <2>5 DEF Visits
    <2>9. UNCHANGED <<now, frozen, frozenMemo, frozenSince>>
      BY <1>1 DEF Knock, vars
    <2>10. VisitInv(c)'
      BY <2>2, <2>3, <2>7, <2>9 DEF VisitInv, InFreezeGate, Comes
    <2> QED BY <1>b, <1>e, <2>6, <2>8, <2>9, <2>10, FreezeFrame
  <1>2. CASE FreezeRead(c)
    <2> DEFINE step == IF frozen THEN "sawFrozen" ELSE "sawThawed"
    <2>1. /\ Comes(c, "gate") /\ visit' = [visit EXCEPT ![c].step = step]
          /\ UNCHANGED <<now, frozen, frozenMemo, frozenSince>>
      BY <1>2 DEF FreezeRead, vars
    <2>2. visit[c] # Nil /\ visit[c] \in Visits
      BY <1>b, <2>1 DEF Visits, Comes
    <2>3. step \in VisitSteps
      BY DEF VisitSteps
    <2>4. /\ visit' \in [Calls -> Visits \cup {Nil}] /\ visit'[c].step = step
          /\ visit'[c].at = visit[c].at /\ visit'[c].op = visit[c].op
          /\ \A d \in Calls : d # c => visit'[d] = visit[d]
      BY <1>b, <2>1, <2>2, <2>3 DEF Visits
    <2>5. visit[c].at <= now /\ visit[c].op \notin Switches
      BY <1>b, <2>1 DEF FreezeInv, VisitInv, InFreezeGate
    <2>6. VisitInv(c)'
      BY <2>1, <2>4, <2>5 DEF VisitInv, InFreezeGate, Comes
    <2> QED BY <1>b, <1>e, <2>1, <2>4, <2>6, FreezeFrame
  <1>3. CASE FreezeAnswer(c)
    <2> DEFINE saw == Comes(c, "sawFrozen")
               step == IF saw THEN "refused" ELSE "through"
    <2>1. /\ saw \/ Comes(c, "sawThawed")
          /\ frozenMemo' = FreezeMemo(saw, visit[c].at + FreezeTtl)
          /\ Proceed(c, step)
          /\ UNCHANGED <<now, frozen, frozenSince>>
      BY <1>3 DEF FreezeAnswer, vars
    <2>2. visit[c] # Nil /\ step \in VisitSteps /\ saw \in BOOLEAN
      BY <2>1 DEF Comes, VisitSteps
    <2>3. /\ visit' \in [Calls -> Visits \cup {Nil}] /\ visit'[c].step = step
          /\ \A d \in Calls : d # c => visit'[d] = visit[d]
      BY <1>b, <2>1, <2>2, Proceeds
    <2>4. visit[c].at <= now /\ visit[c].at \in Nat /\ (~(saw <=> frozen) => visit[c].at <= frozenSince)
      BY <1>b, <1>d, <2>1, <2>2 DEF FreezeInv, VisitInv, InFreezeGate, Comes
    <2>5. /\ frozenMemo'.expiresAt = visit[c].at + FreezeTtl /\ frozenMemo'.active = saw
          /\ frozenMemo' \in [active : BOOLEAN, expiresAt : Nat]
      BY <1>a, <2>1, <2>2, <2>4 DEF FreezeMemo
    <2>6. FreezeMemoInv'
      BY <1>a, <2>1, <2>4, <2>5 DEF FreezeMemoInv
    <2>7. VisitInv(c)'
      BY <2>3, OutOfGate
    <2>8. \A d \in Calls : d # c => VisitInv(d)'
      BY <1>b, <2>1, <2>3 DEF FreezeInv, VisitInv, InFreezeGate, Comes
    <2>9. FreezeTypeOK'
      BY <1>b, <2>1, <2>3, <2>5 DEF FreezeTypeOK
    <2> QED BY <1>b, <2>1, <2>6, <2>7, <2>8, <2>9 DEF FreezeInv
  <1>4. CASE FreezeGateFails(c)
    BY <1>4, <1>f DEF FreezeGateFails, Comes, vars
  <1>5. CASE TurnAway(c)
    BY <1>5, <1>g DEF TurnAway, vars
  <1>6. CASE Admit(c)
    BY <1>6, <1>f DEF Admit, Comes, Enter, Arrive
  <1>7. CASE Inside(c)
    <2>1. UNCHANGED <<now, frozen, frozenMemo, frozenSince>>
      BY <1>7, StepKeepsTime DEF Inside, FreezeOK
    <2>2. CASE Gone(c)
      BY <1>g, <2>1, <2>2
    <2>3. CASE UNCHANGED visit
      <3>1. VisitInv(c)'
        BY <1>b, <2>1, <2>3 DEF FreezeInv, VisitInv, InFreezeGate, Comes
      <3> QED BY <1>b, <1>e, <2>1, <2>3, <3>1, FreezeFrame
    <2> QED BY <1>7, <2>2, <2>3 DEF Inside
  <1>8. CASE LoadFreeze(c)
    <2>1. UNCHANGED <<now, frozen, frozenMemo, frozenSince>> /\ visit[c] # Nil
      BY <1>8 DEF LoadFreeze, Answer, vars, Comes
    <2>2. Proceed(c, "save") \/ Gone(c)
      BY <1>8 DEF LoadFreeze
    <2> QED BY <1>f, <1>g, <2>1, <2>2
  <1>9. CASE SaveFreeze(c)
    <2>1. /\ visit[c] # Nil /\ Proceed(c, "drop") /\ UNCHANGED <<now, frozenMemo>>
          /\ frozen' \in BOOLEAN
          /\ frozenSince' = IF frozen' = frozen THEN frozenSince ELSE now
      BY <1>9 DEF SaveFreeze, vars, Comes
    <2>2. /\ visit' \in [Calls -> Visits \cup {Nil}] /\ visit'[c].step = "drop"
          /\ \A d \in Calls : d # c => visit'[d] = visit[d]
      BY <1>b, <2>1, Proceeds DEF VisitSteps
    <2>3. VisitInv(c)'
      BY <2>2, OutOfGate
    <2>4. FreezeTypeOK'
      BY <1>a, <1>b, <2>1, <2>2 DEF FreezeTypeOK
    <2>5. CASE frozen' = frozen
      BY <1>b, <2>1, <2>2, <2>3, <2>4, <2>5, FreezeFrame
    <2>6. CASE frozen' # frozen
      <3>1. frozenSince' = now
        BY <2>1, <2>6
      <3>2. FreezeMemoInv'
        BY <1>b, <2>1, <3>1 DEF FreezeInv, FreezeMemoInv
      <3>3. \A d \in Calls : d # c => VisitInv(d)'
        BY <1>b, <2>1, <2>2, <3>1 DEF FreezeInv, VisitInv, InFreezeGate, Comes
      <3> QED BY <1>a, <2>1, <2>3, <2>4, <3>1, <3>2, <3>3 DEF FreezeInv
    <2> QED BY <2>5, <2>6
  <1>10. CASE DropMemo(c)
    <2>1. Gone(c) /\ frozenMemo' = Nil /\ UNCHANGED <<now, frozen, frozenSince>>
      BY <1>10 DEF DropMemo, Answer
    <2>2. /\ visit' \in [Calls -> Visits \cup {Nil}] /\ visit'[c] = Nil
          /\ \A d \in Calls : d # c => visit'[d] = visit[d]
      BY <1>b, <2>1, Leaves
    <2>3. \A d \in Calls : VisitInv(d)'
      BY <1>b, <2>1, <2>2, OutOfGate DEF FreezeInv, VisitInv, InFreezeGate, Comes
    <2>4. FreezeTypeOK'
      BY <1>b, <2>1, <2>2 DEF FreezeTypeOK
    <2> QED BY <1>b, <2>1, <2>3, <2>4 DEF FreezeInv, FreezeMemoInv
  <1> QED
    BY <1>1, <1>2, <1>3, <1>4, <1>5, <1>6, <1>7, <1>8, <1>9, <1>10 DEF FreezeStep

LEMMA FreezeKeeps ==
    ASSUME FreezeOK, [LockNext]_lockVars PROVE FreezeTypeOK' /\ FreezeInv'
  <1>a. now \in Nat /\ FreezeTtl \in Nat /\ frozenSince \in Nat
    BY ClockType, TimeAssumption DEF FreezeOK, FreezeTypeOK, TypeOK
  <1>b. FreezeTypeOK /\ FreezeInv
    BY DEF FreezeOK
  <1>c. frozenMemo # Nil => frozenMemo.expiresAt \in Nat
    BY <1>b DEF FreezeTypeOK
  <1>d. \A c \in Calls : visit[c] # Nil => visit[c].at \in Nat
    BY <1>b DEF FreezeTypeOK, Visits
  <1>1. CASE Tick /\ UNCHANGED freezeVars
    <2>1. now' \in Nat /\ now < now' /\ UNCHANGED <<frozen, frozenMemo, visit, frozenSince>>
      BY <1>1, <1>a DEF Tick, freezeVars
    <2>2. FreezeMemoInv'
      BY <1>a, <1>b, <1>c, <2>1 DEF FreezeInv, FreezeMemoInv
    <2>3. \A c \in Calls : VisitInv(c)'
      BY <1>a, <1>b, <1>d, <2>1 DEF FreezeInv, VisitInv, InFreezeGate, Comes
    <2>4. FreezeTypeOK'
      BY <1>b, <2>1 DEF FreezeTypeOK
    <2> QED BY <1>a, <1>b, <2>1, <2>2, <2>3, <2>4 DEF FreezeInv
  <1>2. CASE LockRestart
    <2>1. /\ UNCHANGED <<now, frozen, frozenSince>> /\ frozenMemo' = Nil
          /\ visit' = [c \in Calls |-> Nil]
      BY <1>2 DEF LockRestart, Restart
    <2>2. visit' \in [Calls -> Visits \cup {Nil}] /\ \A c \in Calls : visit'[c] = Nil
      BY <2>1
    <2>3. FreezeTypeOK'
      BY <1>b, <2>1, <2>2 DEF FreezeTypeOK
    <2>4. \A c \in Calls : VisitInv(c)'
      BY <2>2, OutOfGate
    <2> QED BY <1>b, <2>1, <2>3, <2>4 DEF FreezeInv, FreezeMemoInv
  <1>3. ASSUME NEW c \in Calls, FreezeStep(c) PROVE FreezeTypeOK' /\ FreezeInv'
    BY <1>3, FreezeStepKeeps
  <1>4. CASE UNCHANGED lockVars
    BY <1>b, <1>4 DEF lockVars, vars, freezeVars, FreezeTypeOK, FreezeInv, FreezeMemoInv,
                      VisitInv, InFreezeGate, Comes
  <1> QED BY <1>1, <1>2, <1>3, <1>4 DEF LockNext

\* A request that is judged by its memo or by its own read of the file
Judged(c) ==
    /\ visit'[c] # visit[c] /\ visit'[c] # Nil
    /\ visit'[c].step \in {"refused", "through"}
    /\ ~Comes(c, "gate")
    /\ Knocked(c) >= frozenSince + FreezeTtl

LEMMA JudgedByTheFile ==
    ASSUME FreezeOK, [LockNext]_lockVars, NEW c \in Calls, Judged(c)
    PROVE  visit'[c].step = "refused" <=> frozen /\ visit'[c].op \notin Switches
  <1>a. now \in Nat /\ FreezeTtl \in Nat \ {0} /\ frozenSince \in Nat
    BY ClockType, TimeAssumption DEF FreezeOK, FreezeTypeOK, TypeOK
  <1>b. FreezeTypeOK /\ FreezeInv
    BY DEF FreezeOK
  <1>c. frozenMemo # Nil => frozenMemo.expiresAt \in Nat /\ frozenMemo.active \in BOOLEAN
    BY <1>b DEF FreezeTypeOK
  <1>d. \A d \in Calls : visit[d] # Nil => visit[d].at \in Nat
    BY <1>b DEF FreezeTypeOK, Visits
  <1>e. ASSUME visit[c] # Nil, NEW step \in VisitSteps, Proceed(c, step) 
        PROVE  visit'[c].step = step /\ visit'[c].op = visit[c].op
    BY <1>b, <1>e, Proceeds
  <1>1. FreezeStep(c)
    <2>1. ASSUME NEW d \in Calls, FreezeStep(d), d # c PROVE FALSE
      <3>1. \/ visit' = visit
            \/ \E v : visit' = [visit EXCEPT ![d] = v]
        BY <2>1 DEF FreezeStep, Knock, FreezeRead, FreezeAnswer, FreezeGateFails, TurnAway,
             Admit, Inside, LoadFreeze, SaveFreeze, DropMemo, Proceed, Gone
      <3>2. visit'[c] = visit[c]
        BY <1>b, <2>1, <3>1 DEF FreezeTypeOK
      <3> QED BY <3>2 DEF Judged
    <2>2. ~(Tick /\ UNCHANGED freezeVars) /\ ~LockRestart /\ ~UNCHANGED lockVars
      BY DEF LockRestart, lockVars, freezeVars, Judged
    <2> QED BY <2>1, <2>2 DEF LockNext
  <1>2. CASE Knock(c)
    <2>1. PICK op \in VisitOps :
            visit' = [visit EXCEPT ![c] =
              Visit(op, IF ArriveStep(op) = "gate" THEN now ELSE 0, ArriveStep(op))]
      BY <1>2 DEF Knock, VisitOps
    <2>2. visit'[c].step = ArriveStep(op) /\ visit'[c].op = op /\ visit[c] = Nil
      BY <1>b, <1>2, <2>1 DEF FreezeTypeOK, Visit, Knock
    <2>3. ArriveStep(op) # "gate" /\ now >= frozenSince + FreezeTtl
      BY <2>2 DEF Judged, Knocked
    <2>4. CASE op \in Switches
      BY <2>2, <2>4 DEF ArriveStep, FreezeAllowed
    <2>5. CASE op \notin Switches
      <3>1. /\ frozenMemo # Nil /\ frozenMemo.expiresAt > now
            /\ ArriveStep(op) = IF frozenMemo.active THEN "refused" ELSE "through"
        BY <1>a, <1>c, <2>3, <2>5 DEF ArriveStep, FreezeAllowed
      <3>2. frozenMemo.active <=> frozen
        BY <1>a, <1>b, <1>c, <2>3, <3>1 DEF FreezeInv, FreezeMemoInv
      <3> QED BY <2>2, <2>5, <3>1, <3>2
    <2> QED BY <2>4, <2>5
  <1>3. CASE FreezeAnswer(c)
    <2> DEFINE step == IF Comes(c, "sawFrozen") THEN "refused" ELSE "through"
    <2>1. visit[c] # Nil /\ (Comes(c, "sawFrozen") \/ Comes(c, "sawThawed")) /\ Proceed(c, step)
      BY <1>3 DEF FreezeAnswer, Comes
    <2>2. visit'[c].step = step /\ visit'[c].op = visit[c].op
      BY <1>e, <2>1 DEF VisitSteps
    <2>3. visit[c].at > frozenSince
      BY <1>a, <1>d, <2>1 DEF Judged, Knocked
    <2>4. visit[c].op \notin Switches /\ (Comes(c, "sawFrozen") <=> frozen)
      BY <1>a, <1>b, <1>d, <2>1, <2>3 DEF FreezeInv, VisitInv, InFreezeGate, Comes
    <2> QED BY <2>2, <2>4
  <1>4. CASE FreezeRead(c) \/ FreezeGateFails(c)
    BY <1>4 DEF FreezeRead, FreezeGateFails, Judged
  <1>5. CASE TurnAway(c)
    BY <1>b, <1>5 DEF TurnAway, Gone, Judged, FreezeTypeOK
  <1>6. CASE Admit(c) \/ SaveFreeze(c)
    BY <1>e, <1>6 DEF Admit, SaveFreeze, Comes, Judged, VisitSteps
  <1>7. CASE Inside(c) \/ DropMemo(c)
    BY <1>b, <1>7 DEF Inside, DropMemo, Gone, Judged, FreezeTypeOK
  <1>8. CASE LoadFreeze(c)
    <2>1. visit[c] # Nil /\ (Proceed(c, "save") \/ Gone(c))
      BY <1>8 DEF LoadFreeze, Comes
    <2>2. Gone(c) => visit'[c] = Nil
      BY <1>b DEF Gone, FreezeTypeOK
    <2>3. Proceed(c, "save") => visit'[c].step = "save"
      BY <1>e, <2>1 DEF VisitSteps
    <2> QED BY <2>1, <2>2, <2>3 DEF Judged
  <1> QED BY <1>1, <1>2, <1>3, <1>4, <1>5, <1>6, <1>7, <1>8 DEF FreezeStep

\* However many freezes, releases and other requests overlap, one that arrives
\* FreezeTtl or more after the switch was thrown is judged by the file.
THEOREM TheFreezeIsCurrent == LockSpec => FreezeIsCurrent
  <1>1. LockInit => TypeInv /\ FreezeTypeOK /\ FreezeInv
    BY TypeInit, FreezeInit DEF LockInit
  <1>2. TypeInv /\ FreezeTypeOK /\ FreezeInv /\ [LockNext]_lockVars
          => (TypeInv /\ FreezeTypeOK /\ FreezeInv)'
    BY LockedStep, TypeStep, FreezeKeeps DEF TypeInv, FreezeOK
  <1>3. TypeInv /\ FreezeTypeOK /\ FreezeInv /\ [LockNext]_lockVars =>
          [\A c \in Calls :
             /\ visit'[c] # visit[c] /\ visit'[c] # Nil
             /\ visit'[c].step \in {"refused", "through"}
             /\ ~Comes(c, "gate")
             /\ Knocked(c) >= frozenSince + FreezeTtl
             => (visit'[c].step = "refused" <=> frozen /\ visit'[c].op \notin Switches)]_lockVars
    BY JudgedByTheFile DEF Judged, TypeInv, FreezeOK
  <1> QED BY <1>1, <1>2, <1>3, PTL DEF LockSpec, FreezeIsCurrent

-----------------------------------------------------------------------------
(* Four eyes, and the single use of an approval                            *)
(*                                                                         *)
(* A call carries a copy of the ledger over an await, and its write puts   *)
(* that copy in force.  So what must hold of the ledger must hold of every *)
(* copy too: a record, wherever it is, tells only of acts that took effect *)
(* (Honest), and an id nobody has received yet is nowhere (Blank).         *)


Executor(o) == \E i \in Ids : o \in Did("consume", i)

Honest(i, r) ==
    r # Nil =>
        /\ r.purpose = DeletionPurpose => r.requestedBy \in Did("request", i)
        /\ r.state = "approved" =>
             r.approvedBy \in Did("approve", i) /\ r.approvedBy # r.requestedBy

HonestLedger(l) == \A i \in Ids : Honest(i, l[i])

TwoPeople(i) ==
    \A o \in Did("consume", i) :
        \E p \in Did("approve", i), r \in Did("request", i) : p # o /\ p # r

CallTrail(c) ==
    /\ At(c, "saveLedger") => HonestLedger(copy[c])
    /\ call[c] # Nil /\ call[c].op = "schedule" => call[c].purpose = DeletionPurpose
    /\ call[c] # Nil /\ call[c].op = "schedule"
         /\ call[c].step \in {"granted", "readDeletion", "saveDeletion"} => Executor(call[c].who)
    /\ At(c, "saveDeletion") /\ call[c].op # "schedule" => Executor(view[c].by)

Trail ==
    /\ HonestLedger(ledger)
    /\ \A i \in Ids : TwoPeople(i)
    /\ deletion.state # "none" => Executor(deletion.by)
    /\ \A c \in Calls : CallTrail(c)

-----------------------------------------------------------------------------
(* The history of acts *)

LEMMA DidGrows ==
    ASSUME did \subseteq did'
    PROVE  \A a, i : Did(a, i) \subseteq Did(a, i)'
  BY DEF Did

LEMMA DidSame ==
    ASSUME did' = did
    PROVE  \A a, i : Did(a, i)' = Did(a, i)
  BY DEF Did

\* What a call adds
LEMMA DidAdds ==
    ASSUME NEW k, NEW i, NEW a,
           did' = did \cup {Act(b, k.who, k.id) : b \in Effect(k)}
    PROVE  \A o : o \in Did(a, i)' <=> o \in Did(a, i) \/ (o = k.who /\ a \in Effect(k) /\ i = k.id)
  <1> TAKE o
  <1>1. o \in Did(a, i)' <=> \E e \in did' : e.act = a /\ e.id = i /\ e.who = o
    BY DEF Did
  <1>2. o \in Did(a, i) <=> \E e \in did : e.act = a /\ e.id = i /\ e.who = o
    BY DEF Did
  <1>3. \A e : e \in did' <=> e \in did \/ \E b \in Effect(k) : e = Act(b, k.who, k.id)
    OBVIOUS
  <1>4. \A b : Act(b, k.who, k.id).act = b /\ Act(b, k.who, k.id).who = k.who
               /\ Act(b, k.who, k.id).id = k.id
    BY DEF Act
  <1> HIDE DEF Act, Effect
  <1>5. (\E e \in did' : e.act = a /\ e.id = i /\ e.who = o) <=>
          \/ \E e \in did : e.act = a /\ e.id = i /\ e.who = o
          \/ o = k.who /\ a \in Effect(k) /\ i = k.id
    BY <1>3, <1>4
  <1> QED BY <1>1, <1>2, <1>5


-----------------------------------------------------------------------------
(* What a write leaves *)

LEMMA SweptFields ==
    ASSUME NEW r, NEW t, Swept(r, t) # Nil
    PROVE  /\ r # Nil
           /\ Swept(r, t).purpose = r.purpose /\ Swept(r, t).requestedBy = r.requestedBy
           /\ Swept(r, t).approvedBy = r.approvedBy
           /\ Swept(r, t).state = "approved" => r.state = "approved"
           /\ Swept(r, t).state = "pending" => r.state = "pending"
           /\ r.state = "consumed" => Swept(r, t).state = "consumed"
  BY DEF Swept, Approval

LEMMA WrittenFields ==
    ASSUME NEW k, NEW l \in Ledgers, k.id \in Ids
    PROVE  /\ Written(k, l)[k.id] = Changed(k, Swept(l[k.id], k.at))
           /\ \A i \in Ids : i # k.id => Written(k, l)[i] = Swept(l[i], k.at)
  BY DEF Written, SweptLedger

LEMMA SavedHonest ==
    ASSUME NEW k, NEW l \in Ledgers, HonestLedger(l), k.id \in Ids, k.op \in LedgerOps,
           k.op \in Naming => Checked(k, Swept(l[k.id], k.at)),
           did' = did \cup {Act(b, k.who, k.id) : b \in Effect(k)},
           NEW i \in Ids, NEW r, r = Written(k, l)[i], r # Nil
    PROVE  /\ r.purpose = DeletionPurpose => r.requestedBy \in Did("request", i)'
           /\ r.state = "approved" =>
                r.approvedBy \in Did("approve", i)' /\ r.approvedBy # r.requestedBy
  <1>1. \A a : Did(a, i) \subseteq Did(a, i)'
    BY DidGrows
  <1> DEFINE s == Swept(l[i], k.at)
  <1>2. s # Nil =>
          /\ s.purpose = DeletionPurpose => s.requestedBy \in Did("request", i)'
          /\ s.state = "approved" =>
               s.approvedBy \in Did("approve", i)' /\ s.approvedBy # s.requestedBy
    BY <1>1, SweptFields DEF HonestLedger, Honest
  <1>3. CASE i # k.id
    BY <1>2, <1>3, WrittenFields
  <1>4. CASE i = k.id
    <2>1. r = Changed(k, s)
      BY <1>4, WrittenFields
    <2>2. CASE k.op \in {"create", "mint"}
      <3>1. r.purpose = k.purpose /\ r.requestedBy = k.who /\ r.state = "pending"
        BY <2>1, <2>2 DEF Changed, Approval
      <3>2. k.purpose = DeletionPurpose => "request" \in Effect(k)
        BY <2>2 DEF Effect
      <3> QED BY <1>4, <3>1, <3>2, DidAdds
    <2>3. CASE k.op = "approve"
      <3>1. /\ r.purpose = s.purpose /\ r.requestedBy = s.requestedBy
            /\ r.approvedBy = k.who
        BY <2>1, <2>3 DEF Changed, Approval
      <3>2. s # Nil /\ s.requestedBy # k.who
        BY <1>4, <2>3 DEF Checked, CanApprove, Naming
      <3>3. "approve" \in Effect(k)
        BY <2>3 DEF Effect
      <3> HIDE DEF s
      <3> QED BY <1>2, <1>4, <3>1, <3>2, <3>3, DidAdds
    <2>4. CASE k.op \in {"reject", "schedule"}
      <3>1. /\ r.purpose = s.purpose /\ r.requestedBy = s.requestedBy
            /\ r.state # "approved"
        BY <2>1, <2>4 DEF Changed, Approval
      <3>2. s # Nil
        BY <1>4, <2>4 DEF Checked, CanReject, CanConsume, Naming
      <3> HIDE DEF s
      <3> QED BY <1>2, <3>1, <3>2
    <2> QED BY <2>2, <2>3, <2>4 DEF LedgerOps
  <1> QED BY <1>3, <1>4

\* A consumption follows an approval by someone else, and a request by a third
\* or by the consumer.
LEMMA SavedTwoPeople ==
    ASSUME NEW k, NEW l \in Ledgers, HonestLedger(l), k.id \in Ids,
           k.op = "schedule" => k.purpose = DeletionPurpose,
           k.op \in Naming => Checked(k, Swept(l[k.id], k.at)),
           did' = did \cup {Act(b, k.who, k.id) : b \in Effect(k)},
           NEW i \in Ids, TwoPeople(i)
    PROVE  TwoPeople(i)'
  <1>1. \A a : Did(a, i) \subseteq Did(a, i)'
    BY DidGrows
  <1> SUFFICES ASSUME NEW o, o \in Did("consume", i)'
               PROVE  \E p \in Did("approve", i)', r \in Did("request", i)' : p # o /\ p # r
    BY DEF TwoPeople
  <1>2. CASE o \in Did("consume", i)
    BY <1>1, <1>2 DEF TwoPeople
  <1>3. CASE o = k.who /\ "consume" \in Effect(k) /\ i = k.id
    <2> DEFINE s == Swept(l[i], k.at)
    <2>1. k.op = "schedule"
      BY <1>3 DEF Effect
    <2>2. s # Nil /\ s.state = "approved" /\ s.purpose = DeletionPurpose /\ s.approvedBy # o
      BY <1>3, <2>1 DEF Checked, CanConsume, Naming
    <2>3. /\ l[i] # Nil /\ l[i].state = "approved" /\ l[i].purpose = DeletionPurpose
          /\ l[i].approvedBy # o
      BY <2>2, SweptFields
    <2>4. /\ l[i].requestedBy \in Did("request", i)
          /\ l[i].approvedBy \in Did("approve", i) /\ l[i].approvedBy # l[i].requestedBy
      BY <2>3 DEF HonestLedger, Honest
    <2> QED BY <1>1, <2>3, <2>4
  <1> QED BY <1>2, <1>3, DidAdds
-----------------------------------------------------------------------------
(* The invariant *)

LEMMA TrailGrows ==
    ASSUME did \subseteq did'
    PROVE  /\ \A o : Executor(o) => Executor(o)'
           /\ \A l : HonestLedger(l) =>
                \A i \in Ids : l[i] # Nil =>
                  /\ l[i].purpose = DeletionPurpose => l[i].requestedBy \in Did("request", i)'
                  /\ l[i].state = "approved" =>
                       l[i].approvedBy \in Did("approve", i)' /\ l[i].approvedBy # l[i].requestedBy
  <1>1. \A a, i : Did(a, i) \subseteq Did(a, i)'
    BY DidGrows
  <1> QED BY <1>1 DEF Executor, HonestLedger, Honest

\* A call that stands still stays right as the history grows.
LEMMA TrailFrame ==
    ASSUME did \subseteq did', NEW d, CallTrail(d),
           call'[d] = call[d], copy'[d] = copy[d], view'[d] = view[d]
    PROVE  CallTrail(d)'
  <1>1. HonestLedger(copy[d]) => HonestLedger(copy[d])'
    BY TrailGrows DEF HonestLedger, Honest
  <1>2. Executor(call[d].who) => Executor(call[d].who)'
    BY TrailGrows DEF Executor
  <1>3. Executor(view[d].by) => Executor(view[d].by)'
    BY TrailGrows DEF Executor
  <1> QED BY <1>1, <1>2, <1>3 DEF CallTrail, At

\* A step that touches neither file leaves the files' part alone.
LEMMA FilesFrame ==
    ASSUME Trail, UNCHANGED <<did, ledger, deletion>>
    PROVE  /\ HonestLedger(ledger)' /\ \A i \in Ids : TwoPeople(i)'
           /\ (deletion.state # "none" => Executor(deletion.by))'
  <1>1. \A a, i : Did(a, i)' = Did(a, i)
    BY DidSame
  <1> QED BY <1>1 DEF Trail, HonestLedger, Honest, TwoPeople, Executor

LEMMA TrailControl ==
    ASSUME TypeInv, Trail, NEW c \in Calls, ControlStep(c), UNCHANGED deletionVars
    PROVE  /\ HonestLedger(ledger)' /\ \A i \in Ids : TwoPeople(i)'
           /\ (deletion.state # "none" => Executor(deletion.by))'
           /\ did \subseteq did' /\ CallTrail(c)'
  <1>a. TypeOK /\ CallTrail(c) /\ call[c] # Nil
    BY DEF TypeInv, Trail, ControlStep, CreateRequest, ReadLedger, ApproveRequest,
           RejectRequest, ConsumeApproval, SaveLedger, At
  <1>1. CASE CreateRequest(c)
    <2>1. UNCHANGED <<did, ledger, deletion>>
      BY <1>1 DEF CreateRequest, deletionVars
    <2>2. /\ call'[c].step = "readLedger" /\ call'[c].op = call[c].op
          /\ call'[c].purpose = call[c].purpose
      BY <1>1, <1>a, MoveFields DEF CreateRequest
    <2>3. CallTrail(c)'
      BY <1>a, <2>2 DEF CallTrail, At
    <2> QED BY <2>1, <2>3, FilesFrame
  <1>2. CASE ReadLedger(c) \/ ApproveRequest(c) \/ RejectRequest(c) \/ ConsumeApproval(c)
    <2>1. UNCHANGED <<did, ledger, deletion>>
      BY <1>2 DEF ReadLedger, ApproveRequest, RejectRequest, ConsumeApproval, Decide, deletionVars
    <2>2. \/ call'[c] = Nil
          \/ /\ call'[c].step = "saveLedger" /\ call'[c].op = call[c].op
             /\ call'[c].purpose = call[c].purpose /\ copy'[c] = ledger
      <3>1. CASE ReadLedger(c)
        BY <1>a, <3>1, MoveFields DEF ReadLedger, GoTo, TypeOK
      <3>2. ASSUME NEW op, NEW can, Decide(c, op, can)
            PROVE  \/ call'[c] = Nil
                   \/ /\ call'[c].step = "saveLedger" /\ call'[c].op = call[c].op
                      /\ call'[c].purpose = call[c].purpose /\ copy'[c] = ledger
        <4>2. CASE ~can
          BY <1>a, <3>2, <4>2 DEF Decide, Return, TypeOK
        <4>3. CASE can
          <5>1. Move(c, call[c].id, now, 0, "saveLedger") /\ copy' = [copy EXCEPT ![c] = ledger]
            BY <3>2, <4>3 DEF Decide
          <5> QED BY <1>a, <5>1, MoveFields DEF TypeOK
        <4> QED BY <4>2, <4>3
      <3> QED BY <1>2, <3>1, <3>2 DEF ApproveRequest, RejectRequest, ConsumeApproval
    <2>3. copy'[c] = ledger => HonestLedger(copy[c])'
      BY <2>1, DidSame DEF HonestLedger, Honest, Trail
    <2>4. CallTrail(c)'
      BY <1>a, <2>2, <2>3 DEF CallTrail, At
    <2> QED BY <2>1, <2>4, FilesFrame
  <1>3. CASE SaveLedger(c)
    <2> DEFINE k == call[c]
               l == copy[c]
    <2>1. /\ l \in Ledgers /\ k.id \in Ids /\ k.op \in LedgerOps
          /\ k.op \in Naming => Checked(k, Swept(l[k.id], k.at))
          /\ HonestLedger(l)
          /\ k.op = "schedule" => k.purpose = DeletionPurpose
      BY <1>3, <1>a DEF SaveLedger, Shape, TypeInv, CallTrail
    <2>2. /\ did' = did \cup {Act(b, k.who, k.id) : b \in Effect(k)}
          /\ ledger' = Written(k, l) /\ UNCHANGED deletion
      BY <1>3 DEF SaveLedger, deletionVars
    <2>3. did \subseteq did'
      BY <2>2
    <2>4. \A i \in Ids : TwoPeople(i)'
      <3> HIDE DEF k, l
      <3> QED BY <2>1, <2>2, SavedTwoPeople DEF Trail
    <2>5. HonestLedger(ledger)'
      <3>1. ASSUME NEW i \in Ids, ledger'[i] # Nil
            PROVE  /\ ledger'[i].purpose = DeletionPurpose =>
                        ledger'[i].requestedBy \in Did("request", i)'
                   /\ ledger'[i].state = "approved" =>
                        /\ ledger'[i].approvedBy \in Did("approve", i)'
                        /\ ledger'[i].approvedBy # ledger'[i].requestedBy
        <4> HIDE DEF k, l
        <4> QED BY <2>1, <2>2, <3>1, SavedHonest
      <3> QED BY <3>1 DEF HonestLedger, Honest
    <2>6. (deletion.state # "none" => Executor(deletion.by))'
      BY <2>2, <2>3, TrailGrows DEF Trail, Executor
    <2>7. CASE k.op = "schedule"
      <3>1. /\ call'[c].step = "granted" /\ call'[c].op = "schedule"
            /\ call'[c].who = k.who /\ call'[c].purpose = DeletionPurpose
        BY <1>3, <1>a, <2>1, <2>7, MoveFields DEF SaveLedger, Leave
      <3>2. "consume" \in Effect(k)
        BY <2>7 DEF Effect
      <3>3. \A i : i = k.id => k.who \in Did("consume", i)'
        <4> HIDE DEF k, l
        <4> QED BY <2>2, <3>2, DidAdds
      <3>4. Executor(call[c].who)'
        BY <2>1, <3>1, <3>3 DEF Executor
      <3>5. CallTrail(c)'
        BY <3>1, <3>4 DEF CallTrail, At
      <3> QED BY <2>3, <2>4, <2>5, <2>6, <3>5
    <2>8. CASE k.op # "schedule"
      <3>1. CallTrail(c)'
        BY <1>3, <1>a, <2>8 DEF SaveLedger, Return, CallTrail, At, TypeOK
      <3> QED BY <2>3, <2>4, <2>5, <2>6, <3>1
    <2> QED BY <2>7, <2>8
  <1> QED BY <1>1, <1>2, <1>3 DEF ControlStep

\* The call of a step that arrives, passes the gate or ends
LEMMA TrailGate ==
    ASSUME TypeInv, Trail, NEW c \in Calls,
           \/ Enter(c) \/ Arrive(c) \/ GateRead(c) \/ GateAnswer(c) \/ GateFails(c)
           \/ Answer(c) \/ Invalidate(c)
    PROVE  CallTrail(c)' /\ UNCHANGED <<did, ledger, deletion>>
  <1>a. TypeOK /\ CallTrail(c)
    BY DEF TypeInv, Trail
  <1>0. UNCHANGED <<did, ledger, deletion>>
    BY DEF Enter, Arrive, GateRead, GateAnswer, GateFails, Answer, Invalidate,
           controlVars, deletionVars
  <1>1. CASE Enter(c)
    <2>1. PICK op \in Open, who \in Owners, id \in Ids \union {Nil} :
            call' = [call EXCEPT ![c] =
               Call(op, who, id, DeletionPurpose, IF op = "complete" THEN now ELSE 0, 0,
                    IF op \in {"cancel", "complete"} THEN "readDeletion" ELSE "handler")]
      BY <1>1 DEF Enter
    <2>2. /\ call'[c].op = op /\ call'[c].purpose = DeletionPurpose
          /\ call'[c].step = IF op \in {"cancel", "complete"} THEN "readDeletion" ELSE "handler"
      BY <1>a, <2>1 DEF Call, TypeOK
    <2>3. call'[c].op = "schedule" => call'[c].step = "handler"
      BY <2>2
    <2>4. call'[c].step \in {"handler", "readDeletion"}
      BY <2>2
    <2> QED BY <1>0, <2>2, <2>3, <2>4 DEF CallTrail, At
  <1>2. CASE Arrive(c)
    <2>1. PICK op \in Gated, who \in Owners, id \in Ids \union {Nil}, purpose \in Purposes :
            call' = [call EXCEPT ![c] =
               Call(op, who, id, purpose, IF MemoStep = "gate" THEN now ELSE 0, 0, MemoStep)]
      BY <1>2 DEF Arrive
    <2>2. call'[c].op = op /\ call'[c].step = MemoStep
      BY <1>a, <2>1 DEF Call, TypeOK
    <2>3. MemoStep \in {"gate", "refused", "handler"}
      BY DEF MemoStep
    <2>4. op # "schedule"
      BY DEF Gated
    <2> QED BY <1>0, <2>2, <2>3, <2>4 DEF CallTrail, At
  <1>3. CASE GateRead(c) \/ GateAnswer(c) \/ GateFails(c)
    <2>1. /\ call'[c].step \in {"sawPending", "sawClear", "refused", "handler"}
          /\ call'[c].op = call[c].op /\ call'[c].purpose = call[c].purpose /\ call[c] # Nil
      BY <1>3, <1>a, MoveFields DEF GateRead, GateAnswer, GateFails, GoTo, Leave, At
    <2> QED BY <1>0, <1>a, <2>1 DEF CallTrail, At
  <1>4. CASE Answer(c) \/ Invalidate(c)
    <2>1. call'[c] = Nil
      BY <1>4, <1>a DEF Answer, Invalidate, Return, TypeOK
    <2> QED BY <1>0, <2>1 DEF CallTrail, At
  <1> QED BY <1>0, <1>1, <1>2, <1>3, <1>4

LEMMA TrailDeletion ==
    ASSUME TypeInv, Trail, NEW c \in Calls, Schedule(c) \/ ReadDeletion(c) \/ SaveDeletion(c)
    PROVE  /\ CallTrail(c)' /\ UNCHANGED <<did, ledger>>
           /\ (deletion.state # "none" => Executor(deletion.by))'
  <1>a. TypeOK /\ CallTrail(c) /\ call[c] # Nil
    BY DEF TypeInv, Trail, Schedule, ReadDeletion, SaveDeletion, At
  <1>0. UNCHANGED <<did, ledger>>
    BY DEF Schedule, ReadDeletion, SaveDeletion, controlVars
  <1>b. \A o : Executor(o) => Executor(o)'
    BY <1>0, TrailGrows
  <1>1. CASE Schedule(c)
    <2>1. /\ call'[c].step = "readDeletion" /\ call'[c].op = call[c].op
          /\ call'[c].who = call[c].who /\ call'[c].purpose = call[c].purpose
      BY <1>1, <1>a, MoveFields DEF Schedule
    <2>2. call[c].op = "schedule" => Executor(call[c].who)
      BY <1>1, <1>a DEF Schedule, CallTrail, At
    <2>3. call'[c].op = "schedule" => Executor(call[c].who)'
      BY <1>b, <2>1, <2>2 DEF Executor
    <2>4. CallTrail(c)'
      BY <1>a, <2>1, <2>3 DEF CallTrail, At
    <2>5. UNCHANGED deletion
      BY <1>1 DEF Schedule, deletionVars
    <2> QED BY <1>0, <1>b, <2>4, <2>5 DEF Trail, Executor
  <1>2. CASE ReadDeletion(c)
    <2>0. UNCHANGED deletion
      BY <1>2 DEF ReadDeletion
    <2>1. CASE Allowed(call[c], deletion)
      <3>1. /\ call'[c].step = "saveDeletion" /\ call'[c].op = call[c].op
            /\ call'[c].who = call[c].who /\ call'[c].purpose = call[c].purpose
            /\ view'[c] = deletion
        BY <1>2, <1>a, <2>1, MoveFields DEF ReadDeletion, GoTo, TypeOK
      <3>2. call[c].op \in DeletionOps /\ (call[c].op = "schedule" => Executor(call[c].who))
        BY <1>2, <1>a DEF ReadDeletion, CallTrail, At, Shape, TypeInv
      <3>3. call[c].op # "schedule" => Executor(deletion.by)
        BY <2>1, <3>2 DEF Allowed, IsPastDue, DeletionOps, Trail
      <3>4. call'[c].op = "schedule" => Executor(call[c].who)'
        BY <1>b, <3>1, <3>2 DEF Executor
      <3>5. call'[c].op # "schedule" => Executor(view[c].by)'
        BY <1>b, <3>1, <3>3 DEF Executor
      <3>6. CallTrail(c)'
        BY <1>a, <3>1, <3>4, <3>5 DEF CallTrail, At
      <3> QED BY <1>0, <1>b, <2>0, <3>6 DEF Trail, Executor
    <2>2. CASE ~Allowed(call[c], deletion)
      <3>1. call'[c] = Nil
        BY <1>2, <1>a, <2>2 DEF ReadDeletion, Return, TypeOK
      <3>2. CallTrail(c)'
        BY <3>1 DEF CallTrail, At
      <3> QED BY <1>0, <1>b, <2>0, <3>2 DEF Trail, Executor
    <2> QED BY <2>1, <2>2
  <1>3. CASE SaveDeletion(c)
    <2>1. /\ call'[c].step = "invalidate" /\ call'[c].op = call[c].op
          /\ call'[c].purpose = call[c].purpose
      BY <1>3, <1>a, MoveFields DEF SaveDeletion, Leave
    <2>2. CallTrail(c)'
      BY <1>a, <2>1 DEF CallTrail, At
    <2>3. deletion'.by = IF call[c].op = "schedule" THEN call[c].who ELSE view[c].by
      BY <1>3 DEF SaveDeletion, Outcome, Deletion
    <2>4. /\ call[c].op = "schedule" => Executor(call[c].who)
          /\ call[c].op # "schedule" => Executor(view[c].by)
      BY <1>3, <1>a DEF SaveDeletion, CallTrail, At
    <2>5. Executor(deletion.by)'
      BY <1>b, <2>3, <2>4 DEF Executor
    <2> QED BY <1>0, <2>2, <2>5
  <1> QED BY <1>1, <1>2, <1>3

LEMMA TrailInit == Init => Trail
  <1> SUFFICES ASSUME Init PROVE Trail
    OBVIOUS
  <1>1. \A c \in Calls : call[c] = Nil
    BY DEF Init, ControlInit
  <1>2. \A i \in Ids : ledger[i] = Nil /\ Did("consume", i) = {}
    BY DEF Init, ControlInit, Did
  <1>3. deletion.state = "none"
    BY DEF Init, Deletion
  <1> QED BY <1>1, <1>2, <1>3 DEF Trail, HonestLedger, Honest, TwoPeople, CallTrail, At

LEMMA TrailStep == TypeInv /\ Trail /\ [Next]_vars => Trail'
  <1> SUFFICES ASSUME TypeInv, Trail, [Next]_vars PROVE Trail'
    OBVIOUS
  <1>1. CASE Tick \/ UNCHANGED vars
    <2>1. UNCHANGED <<did, ledger, deletion, call, copy, view>>
      BY <1>1 DEF Tick, vars, controlVars, deletionVars
    <2>2. \A c \in Calls : CallTrail(c)'
      BY <2>1, TrailFrame DEF Trail
    <2> QED BY <2>1, <2>2, FilesFrame DEF Trail
  <1>2. CASE Restart
    <2>1. UNCHANGED <<did, ledger, deletion>> /\ \A c \in Calls : call'[c] = Nil
      BY <1>2 DEF Restart
    <2>2. \A c \in Calls : CallTrail(c)'
      BY <2>1 DEF CallTrail, At
    <2> QED BY <2>1, <2>2, FilesFrame DEF Trail
  <1>3. ASSUME NEW c \in Calls, Step(c) PROVE Trail'
    <2>1. ASSUME did \subseteq did', CallTrail(c)' PROVE \A d \in Calls : CallTrail(d)'
      BY <1>3, <2>1, Others, TrailFrame DEF Trail, TypeInv
    <2>2. CASE ControlStep(c) /\ UNCHANGED deletionVars
      BY <2>1, <2>2, TrailControl DEF Trail
    <2>3. CASE \/ Enter(c) \/ Arrive(c) \/ GateRead(c) \/ GateAnswer(c) \/ GateFails(c)
               \/ Answer(c) \/ Invalidate(c)
      BY <2>1, <2>3, TrailGate, FilesFrame DEF Trail
    <2>4. CASE Schedule(c) \/ ReadDeletion(c) \/ SaveDeletion(c)
      <3>1. CallTrail(c)' /\ UNCHANGED <<did, ledger>>
            /\ (deletion.state # "none" => Executor(deletion.by))'
        BY <2>4, TrailDeletion
      <3>2. HonestLedger(ledger)' /\ \A i \in Ids : TwoPeople(i)'
        BY <3>1, DidSame DEF Trail, HonestLedger, Honest, TwoPeople
      <3> QED BY <2>1, <3>1, <3>2 DEF Trail
    <2> QED BY <1>3, <2>2, <2>3, <2>4 DEF Step
  <1> QED BY <1>1, <1>2, <1>3 DEF Next

\* Whoever scheduled the deletion on file did so on an approval that another owner
\* gave to a request that this other owner had not made, whatever calls overlapped.
THEOREM NobodyWipesAlone == Spec => []FourEyes
  <1>1. Trail => FourEyes
    BY DEF Trail, FourEyes, Executor, TwoPeople
  <1> QED BY <1>1, TypeInit, TypeStep, TrailInit, TrailStep, PTL DEF Spec

-----------------------------------------------------------------------------
(* An approval is consumed once *)

Creating(c, i) ==
    /\ At(c, "readLedger") \/ At(c, "saveLedger")
    /\ call[c].op \in {"create", "mint"} /\ call[c].id = i

\* Nobody but the call that makes it can know the id.
Unborn(i) == i \notin minted \/ \E c \in Calls : Creating(c, i)

Blank(i) ==
    /\ ledger[i] = Nil /\ Did("consume", i) = {}
    /\ \A c \in Calls : At(c, "saveLedger") => copy[c][i] = Nil

BirthInv ==
    /\ \A i \in Ids : Unborn(i) => Blank(i)
    /\ \A c \in Calls, i \in Ids : Creating(c, i) => i \in minted
    /\ \A c, d \in Calls, i \in Ids : Creating(c, i) /\ Creating(d, i) => c = d

SpentInv ==
    ~clobbered =>
        /\ respent = {}
        /\ \A i \in Ids : Did("consume", i) # {} => ledger[i].state = "consumed"

\* How a step moves its call, as far as births are concerned
LEMMA BirthFrame ==
    ASSUME TypeOK, BirthInv, NEW c \in Calls,
           UNCHANGED <<ledger, minted, did>>,
           \A d \in Calls : d # c => call'[d] = call[d] /\ copy'[d] = copy[d],
           \A i \in Ids : Creating(c, i)' => Creating(c, i),
           At(c, "saveLedger")' => copy'[c] = ledger
    PROVE  BirthInv'
  <1>1. \A d \in Calls, i \in Ids : Creating(d, i)' => Creating(d, i)
    BY DEF Creating, At
  <1>2. ASSUME NEW i \in Ids, Unborn(i)' PROVE Blank(i)'
    <2>1. Unborn(i) /\ Blank(i)
      BY <1>1, <1>2 DEF Unborn, BirthInv
    <2>2. ledger'[i] = Nil /\ Did("consume", i)' = {}
      BY <2>1, DidSame DEF Blank
    <2>3. \A d \in Calls : d # c => (At(d, "saveLedger") => copy[d][i] = Nil)'
      BY <2>1 DEF Blank, At
    <2>4. (At(c, "saveLedger") => copy[c][i] = Nil)'
      BY <2>1 DEF Blank, At
    <2> QED BY <2>2, <2>3, <2>4 DEF Blank
  <1> QED BY <1>1, <1>2 DEF BirthInv

LEMMA BirthControl ==
    ASSUME TypeInv, BirthInv, NEW c \in Calls, ControlStep(c),
           \A d \in Calls : d # c => call'[d] = call[d] /\ copy'[d] = copy[d]
    PROVE  BirthInv'
  <1>a. TypeOK /\ Shape(c) /\ call[c] # Nil
    BY DEF TypeInv, ControlStep, CreateRequest, ReadLedger, ApproveRequest,
           RejectRequest, ConsumeApproval, SaveLedger, At
  <1>1. CASE CreateRequest(c)
    <2>1. PICK id \in Ids \ minted, ttl \in Ttls :
            minted' = minted \cup {id} /\ Move(c, id, now, now + ttl, "readLedger")
      BY <1>1 DEF CreateRequest
    <2>2. call'[c].step = "readLedger" /\ call'[c].id = id
      BY <1>a, <2>1, MoveFields
    <2>3. UNCHANGED <<ledger, copy, did>> /\ ~At(c, "saveLedger")' /\ At(c, "handler")
      BY <1>1, <2>2 DEF CreateRequest, At
    <2>4. \A d \in Calls, i \in Ids : Creating(d, i)' => (d = c /\ i = id) \/ (d # c /\ Creating(d, i))
      BY <2>2 DEF Creating, At
    <2>5. ~Creating(c, id)
      BY <2>3 DEF Creating, At
    <2>6. ASSUME NEW i \in Ids, Unborn(i)' PROVE Blank(i)'
      <3>1. Unborn(i)
        BY <2>1, <2>4, <2>6 DEF Unborn
      <3>2. Blank(i)
        BY <3>1 DEF BirthInv
      <3>3. Did("consume", i)' = {}
        BY <2>3, <3>2, DidSame DEF Blank
      <3>4. \A d \in Calls : At(d, "saveLedger")' => At(d, "saveLedger")
        BY <2>3 DEF At
      <3> QED BY <2>3, <3>2, <3>3, <3>4 DEF Blank
    <2>7. \A d \in Calls : ~Creating(d, id)
      BY <2>1 DEF BirthInv
    <2> QED BY <2>1, <2>4, <2>6, <2>7 DEF BirthInv
  <1>2. CASE ReadLedger(c)
    <2>1. /\ UNCHANGED <<ledger, minted, did>> /\ copy'[c] = ledger /\ At(c, "readLedger")
          /\ call'[c].op = call[c].op /\ call'[c].id = call[c].id
      BY <1>2, <1>a, MoveFields DEF ReadLedger, GoTo, TypeOK
    <2>2. \A i \in Ids : Creating(c, i)' => Creating(c, i)
      BY <2>1 DEF Creating
    <2> QED BY <1>a, <2>1, <2>2, BirthFrame
  <1>3. CASE ApproveRequest(c) \/ RejectRequest(c) \/ ConsumeApproval(c)
    <2>1. UNCHANGED <<ledger, minted, did>> /\ call[c].op \in Naming
      BY <1>3 DEF ApproveRequest, RejectRequest, ConsumeApproval, Decide, Naming
    <2>2. \/ call'[c] = Nil
          \/ call'[c].op = call[c].op /\ copy'[c] = ledger
      <3>1. ASSUME NEW op, NEW can, Decide(c, op, can)
            PROVE  call'[c] = Nil \/ (call'[c].op = call[c].op /\ copy'[c] = ledger)
        <4>1. CASE can
          <5>1. Move(c, call[c].id, now, 0, "saveLedger") /\ copy' = [copy EXCEPT ![c] = ledger]
            BY <3>1, <4>1 DEF Decide
          <5> QED BY <1>a, <5>1, MoveFields DEF TypeOK
        <4>2. CASE ~can
          BY <1>a, <3>1, <4>2 DEF Decide, Return, TypeOK
        <4> QED BY <4>1, <4>2
      <3> QED BY <1>3, <3>1 DEF ApproveRequest, RejectRequest, ConsumeApproval
    <2>3. (At(c, "saveLedger")' => copy'[c] = ledger) /\ \A i \in Ids : ~Creating(c, i)'
      BY <2>1, <2>2 DEF At, Creating, Naming
    <2> QED BY <1>a, <2>1, <2>3, BirthFrame
  <1>4. CASE SaveLedger(c)
    <2> DEFINE k == call[c]
               l == copy[c]
    <2>1. /\ l \in Ledgers /\ k.id \in Ids /\ k.op \in LedgerOps
          /\ k.op \in Naming => Checked(k, Swept(l[k.id], k.at))
      BY <1>4, <1>a DEF SaveLedger, Shape
    <2>2. /\ did' = did \cup {Act(b, k.who, k.id) : b \in Effect(k)}
          /\ ledger' = Written(k, l) /\ UNCHANGED minted
      BY <1>4 DEF SaveLedger
    <2>3. call'[c] = Nil \/ call'[c].step = "granted"
      BY <1>4, <1>a, MoveFields DEF SaveLedger, Leave, Return, TypeOK
    <2>4. \A i \in Ids : ~Creating(c, i)'
      BY <2>3 DEF Creating, At
    <2>5. \A d \in Calls, i \in Ids : Creating(d, i)' => d # c /\ Creating(d, i)
      BY <2>4 DEF Creating, At
    <2>6. ASSUME NEW i \in Ids, Unborn(i)' PROVE Blank(i)'
      <3>1. Unborn(i) /\ Blank(i)
        BY <2>2, <2>5, <2>6 DEF Unborn, BirthInv
      <3>2. l[i] = Nil
        BY <1>4, <3>1 DEF Blank, SaveLedger
      <3>3. i # k.id
        <4>1. CASE k.op \in Naming
          <5>1. Swept(l[k.id], k.at) # Nil
            BY <2>1, <4>1 DEF Checked, CanApprove, CanReject, CanConsume, Naming
          <5> QED BY <3>2, <5>1, SweptFields
        <4>2. CASE k.op \in {"create", "mint"}
          <5>1. Creating(c, k.id) /\ k.id \in minted
            BY <1>4, <2>1, <4>2 DEF SaveLedger, Creating, BirthInv
          <5>2. ASSUME NEW d \in Calls, Creating(d, k.id), d # c PROVE FALSE
            BY <2>1, <5>1, <5>2 DEF BirthInv
          <5> QED BY <2>2, <2>5, <2>6, <5>1, <5>2 DEF Unborn
        <4> QED BY <2>1, <4>1, <4>2 DEF LedgerOps, Naming
      <3>4. ledger'[i] = Nil
        <4> HIDE DEF k, l
        <4>1. ledger'[i] = Swept(l[i], k.at)
          BY <2>1, <2>2, <3>3, WrittenFields
        <4> QED BY <3>2, <4>1 DEF Swept
      <3>5. Did("consume", i)' = {}
        <4> HIDE DEF k, l
        <4>1. \A o : o \in Did("consume", i)' => o \in Did("consume", i)
          BY <2>2, <3>3, DidAdds
        <4> QED BY <3>1, <4>1 DEF Blank
      <3>6. \A d \in Calls : At(d, "saveLedger")' => d # c /\ At(d, "saveLedger")
        BY <2>3 DEF At
      <3> QED BY <3>1, <3>4, <3>5, <3>6 DEF Blank
    <2> QED BY <2>2, <2>5, <2>6 DEF BirthInv
  <1> QED BY <1>1, <1>2, <1>3, <1>4 DEF ControlStep

\* A call that arrives
LEMMA Arriving ==
    ASSUME TypeOK, NEW c \in Calls, Enter(c) \/ Arrive(c)
    PROVE  /\ call'[c].step \in {"gate", "refused", "handler", "readDeletion"}
           /\ call'[c].at \in {0, now}
  <1>1. CASE Enter(c)
    <2>1. PICK op \in Open, who \in Owners, id \in Ids \union {Nil} :
            call' = [call EXCEPT ![c] =
               Call(op, who, id, DeletionPurpose, IF op = "complete" THEN now ELSE 0, 0,
                    IF op \in {"cancel", "complete"} THEN "readDeletion" ELSE "handler")]
      BY <1>1 DEF Enter
    <2> QED BY <2>1 DEF Call, TypeOK
  <1>2. CASE Arrive(c)
    <2>1. PICK op \in Gated, who \in Owners, id \in Ids \union {Nil}, purpose \in Purposes :
            call' = [call EXCEPT ![c] =
               Call(op, who, id, purpose, IF MemoStep = "gate" THEN now ELSE 0, 0, MemoStep)]
      BY <1>2 DEF Arrive
    <2>2. MemoStep \in {"gate", "refused", "handler"}
      BY DEF MemoStep
    <2> HIDE DEF MemoStep
    <2> QED BY <2>1, <2>2 DEF Call, TypeOK
  <1> QED BY <1>1, <1>2

\* The steps that are not the ledger's leave their call away from it.
LEMMA ElsewhereCall ==
    ASSUME TypeOK, NEW c \in Calls, Step(c), ~ControlStep(c)
    PROVE  /\ UNCHANGED controlVars
           /\ ~At(c, "readLedger")' /\ ~At(c, "saveLedger")'
  <1>0. UNCHANGED controlVars
    BY DEF Step, Enter, Arrive, GateRead, GateAnswer, GateFails, Answer, Schedule,
           ReadDeletion, SaveDeletion, Invalidate
  <1>1. CASE Enter(c) \/ Arrive(c)
    BY <1>0, <1>1, Arriving DEF At
  <1>2. CASE \/ GateRead(c) \/ GateAnswer(c) \/ GateFails(c)
             \/ Schedule(c) \/ SaveDeletion(c)
    <2>1. call'[c].step \in {"sawPending", "sawClear", "refused", "handler",
                             "readDeletion", "invalidate"}
      BY <1>2, MoveFields
         DEF GateRead, GateAnswer, GateFails, Schedule, SaveDeletion, GoTo, Leave
    <2> QED BY <1>0, <2>1 DEF At
  <1>3. CASE Answer(c) \/ Invalidate(c) \/ ReadDeletion(c)
    <2>1. call'[c] = Nil \/ call'[c].step = "saveDeletion"
      BY <1>3, MoveFields DEF Answer, Invalidate, ReadDeletion, Return, GoTo, TypeOK
    <2> QED BY <1>0, <2>1 DEF At
  <1> QED BY <1>1, <1>2, <1>3 DEF Step

LEMMA BirthStep == TypeInv /\ BirthInv /\ [Next]_vars => BirthInv'
  <1> SUFFICES ASSUME TypeInv, BirthInv, [Next]_vars PROVE BirthInv'
    OBVIOUS
  <1>1. CASE Tick \/ Restart \/ UNCHANGED vars
    <2>1. /\ UNCHANGED <<ledger, minted, did>>
          /\ \A c \in Calls : call'[c] = Nil \/ (call'[c] = call[c] /\ copy'[c] = copy[c])
      BY <1>1 DEF Tick, Restart, vars, controlVars
    <2>2. /\ \A c \in Calls, i \in Ids : Creating(c, i)' => Creating(c, i)
          /\ \A c \in Calls : At(c, "saveLedger")' => At(c, "saveLedger") /\ copy'[c] = copy[c]
      BY <2>1 DEF Creating, At
    <2>3. \A i \in Ids : Unborn(i)' => Unborn(i)
      BY <2>1, <2>2 DEF Unborn
    <2>4. \A i \in Ids : Blank(i) => Blank(i)'
      BY <2>1, <2>2, DidSame DEF Blank
    <2> QED BY <2>1, <2>2, <2>3, <2>4 DEF BirthInv
  <1>2. ASSUME NEW c \in Calls, Step(c) PROVE BirthInv'
    <2>1. \A d \in Calls : d # c => call'[d] = call[d] /\ copy'[d] = copy[d]
      BY <1>2, Others DEF TypeInv
    <2>2. CASE ControlStep(c)
      BY <2>1, <2>2, BirthControl
    <2>3. CASE ~ControlStep(c)
      <3>1. /\ UNCHANGED <<ledger, minted, did>>
            /\ ~At(c, "saveLedger")' /\ \A i \in Ids : ~Creating(c, i)'
        BY <1>2, <2>3, ElsewhereCall DEF controlVars, Creating, TypeInv
      <3> QED BY <2>1, <3>1, BirthFrame DEF TypeInv
    <2> QED BY <2>2, <2>3
  <1> QED BY <1>1, <1>2 DEF Next

LEMMA SpentStep == TypeInv /\ BirthInv /\ SpentInv /\ [Next]_vars => SpentInv'
  <1> SUFFICES ASSUME TypeInv, BirthInv, SpentInv, [Next]_vars PROVE SpentInv'
    OBVIOUS
  <1>1. CASE UNCHANGED <<ledger, did, respent, clobbered>>
    BY <1>1, DidSame DEF SpentInv
  <1>2. ASSUME NEW c \in Calls, SaveLedger(c), ~clobbered' PROVE SpentInv'
    <2> DEFINE k == call[c]
    <2>1. /\ copy[c] = ledger /\ ~clobbered /\ ledger \in Ledgers
          /\ k.id \in Ids /\ k.op \in LedgerOps
          /\ k.op \in Naming => Checked(k, Swept(ledger[k.id], k.at))
      BY <1>2 DEF SaveLedger, Shape, TypeInv, TypeOK
    <2>2. /\ did' = did \cup {Act(b, k.who, k.id) : b \in Effect(k)}
          /\ ledger' = Written(k, ledger)
          /\ respent' = respent \cup
               {i \in {k.id} : k.op = "schedule" /\ Did("consume", i) # {}}
      BY <1>2, <2>1 DEF SaveLedger
    <2>3. /\ respent = {}
          /\ \A i \in Ids : Did("consume", i) # {} =>
               ledger[i].state = "consumed"
      BY <2>1 DEF SpentInv
    <2>4. Did("consume", k.id) = {}
      <3>1. CASE k.op \in Naming
        <4>1. /\ Swept(ledger[k.id], k.at) # Nil
              /\ Swept(ledger[k.id], k.at).state \in {"pending", "approved"}
          BY <2>1, <3>1 DEF Checked, CanApprove, CanReject, CanConsume, Naming
        <4>2. ledger[k.id].state # "consumed"
          BY <4>1, SweptFields
        <4> QED BY <2>1, <2>3, <4>2
      <3>2. CASE k.op \in {"create", "mint"}
        <4>1. Creating(c, k.id)
          BY <1>2, <3>2 DEF SaveLedger, Creating
        <4> QED BY <2>1, <4>1 DEF BirthInv, Unborn, Blank
      <3> QED BY <2>1, <3>1, <3>2 DEF LedgerOps, Naming
    <2>5. respent' = {}
      BY <2>2, <2>3, <2>4
    <2>6. ASSUME NEW i \in Ids, NEW o, o \in Did("consume", i)'
          PROVE  ledger'[i].state = "consumed"
      <3> HIDE DEF k
      <3>1. CASE i # k.id
        <4>1. o \in Did("consume", i)
          BY <2>2, <2>6, <3>1, DidAdds
        <4>2. ledger[i].state = "consumed"
          BY <2>3, <4>1
        <4>3. ledger'[i] = Swept(ledger[i], k.at)
          BY <2>1, <2>2, <3>1, WrittenFields
        <4> QED BY <4>2, <4>3 DEF Swept
      <3>2. CASE i = k.id
        <4>1. "consume" \in Effect(k)
          BY <2>2, <2>4, <2>6, <3>2, DidAdds
        <4>2. k.op = "schedule"
          BY <4>1 DEF Effect
        <4> DEFINE s == Swept(ledger[i], k.at)
        <4>3. ledger'[i] = Changed(k, s)
          BY <2>1, <2>2, <3>2, WrittenFields
        <4>4. ledger'[i].state = "consumed"
          BY <4>2, <4>3 DEF Changed, Approval
        <4> QED BY <4>4
      <3> QED BY <3>1, <3>2
    <2> QED BY <2>5, <2>6 DEF SpentInv
  <1>3. ASSUME NEW c \in Calls, SaveLedger(c), clobbered' PROVE SpentInv'
    BY <1>3 DEF SpentInv
  <1>4. CASE \E c \in Calls : SaveLedger(c)
    BY <1>2, <1>3, <1>4
  <1>5. CASE \A c \in Calls : ~SaveLedger(c)
    <2>1. ASSUME NEW c \in Calls, Step(c) PROVE UNCHANGED <<ledger, did, respent, clobbered>>
      <3>1. CASE ControlStep(c)
        BY <1>5, <3>1 DEF ControlStep, CreateRequest, ReadLedger, ApproveRequest,
             RejectRequest, ConsumeApproval, Decide
      <3>2. CASE ~ControlStep(c)
        BY <2>1, <3>2, ElsewhereCall DEF controlVars, TypeInv
      <3> QED BY <3>1, <3>2
    <2>2. CASE Tick \/ Restart \/ UNCHANGED vars
      BY <1>1, <2>2 DEF Tick, Restart, vars, controlVars
    <2> QED BY <1>1, <2>1, <2>2 DEF Next
  <1> QED BY <1>4, <1>5

LEMMA SpentInit == Init => BirthInv /\ SpentInv
  BY DEF Init, ControlInit, BirthInv, SpentInv, Unborn, Creating, Blank, Did, At

\* Until the writes of two overlapping calls replace one another, no approval is
\* consumed twice (dual-control.ts:244).
THEOREM ApprovalsAreSpentOnce == Spec => []ConsumedOnce
  <1>1. SpentInv => ConsumedOnce
    BY DEF SpentInv, ConsumedOnce
  <1> QED BY <1>1, TypeInit, TypeStep, SpentInit, BirthStep, SpentStep, PTL DEF Spec

-----------------------------------------------------------------------------
(* The wipe waits for its date *)

\* A completion carries the time it was judged at, and time only moves on.
DueInv ==
    /\ deletion.state = "completed" => deletion.due <= now
    /\ \A c \in Calls : call[c] # Nil => call[c].at <= now

LEMMA DueInit == Init => DueInv
  BY DEF Init, ControlInit, DueInv, Deletion

\* Every step of a call dates it from now, from its own date, or not at all.
LEMMA DatedNow ==
    ASSUME TypeInv, DueInv, NEW c \in Calls, Step(c), call'[c] # Nil
    PROVE  call'[c].at <= now
  <1>0. now \in Nat /\ 0 <= now /\ now <= now
    BY TimeAssumption DEF TypeInv, TypeOK
  <1>1. ASSUME NEW id, NEW at, NEW until, NEW step, Move(c, id, at, until, step), at <= now
        PROVE  call'[c].at <= now
    BY <1>1, MoveFields DEF TypeInv
  <1>2. CASE CreateRequest(c)
    BY <1>0, <1>1, <1>2 DEF CreateRequest
  <1>3. CASE ReadLedger(c) \/ GateRead(c)
    <2>1. GoTo(c, call'[c].step) /\ call[c].at <= now
      BY <1>3, MoveFields DEF ReadLedger, GateRead, GoTo, At, DueInv, TypeInv
    <2> QED BY <1>1, <2>1 DEF GoTo
  <1>4. CASE ApproveRequest(c) \/ RejectRequest(c) \/ ConsumeApproval(c)
    <2>1. Move(c, call[c].id, now, 0, "saveLedger") \/ Return(c)
      BY <1>4 DEF ApproveRequest, RejectRequest, ConsumeApproval, Decide
    <2> QED BY <1>0, <1>1, <2>1 DEF Return, TypeInv, TypeOK
  <1>5. CASE SaveLedger(c) \/ GateAnswer(c) \/ GateFails(c) \/ SaveDeletion(c)
    <2>1. Return(c) \/ \E step : Leave(c, step)
      BY <1>5 DEF SaveLedger, GateAnswer, GateFails, SaveDeletion
    <2> QED BY <1>0, <1>1, <2>1 DEF Leave, Return, TypeInv, TypeOK
  <1>6. CASE Answer(c) \/ Invalidate(c)
    BY <1>6 DEF Answer, Invalidate, Return, TypeInv, TypeOK
  <1>7. CASE ReadDeletion(c)
    <2>1. Return(c) \/ (GoTo(c, "saveDeletion") /\ call[c].at <= now)
      BY <1>7 DEF ReadDeletion, At, DueInv
    <2> QED BY <1>1, <2>1 DEF GoTo, Return, TypeInv, TypeOK
  <1>8. CASE Schedule(c)
    BY <1>0, <1>1, <1>8 DEF Schedule
  <1>9. CASE Enter(c) \/ Arrive(c)
    BY <1>0, <1>9, Arriving DEF TypeInv
  <1> QED
    BY <1>2, <1>3, <1>4, <1>5, <1>6, <1>7, <1>8, <1>9 DEF Step, ControlStep

LEMMA DueStep == TypeInv /\ DueInv /\ [Next]_vars => DueInv'
  <1> SUFFICES ASSUME TypeInv, DueInv, [Next]_vars PROVE DueInv'
    OBVIOUS
  <1>0. now \in Nat /\ deletion.due \in Nat
    BY TimeAssumption DEF TypeInv, TypeOK, DeletionRecords
  <1>a. \A c \in Calls : call[c] # Nil => call[c].at \in Nat
    BY DEF TypeInv, TypeOK, CallRecords
  <1>1. CASE UNCHANGED vars
    BY <1>1 DEF vars, deletionVars, DueInv
  <1>2. CASE Tick
    BY <1>0, <1>a, <1>2 DEF Tick, deletionVars, DueInv
  <1>3. CASE Restart
    BY <1>3 DEF Restart, DueInv
  <1>4. ASSUME NEW c \in Calls, Step(c) PROVE DueInv'
    <2>1. now' = now
      BY <1>4 DEF Step, ControlStep, CreateRequest, ReadLedger, ApproveRequest, RejectRequest,
           ConsumeApproval, Decide, SaveLedger, Enter, Arrive, GateRead, GateAnswer, GateFails,
           Answer, Schedule, ReadDeletion, SaveDeletion, Invalidate
    <2>2. \A d \in Calls : call'[d] # Nil => call'[d].at <= now
      BY <1>4, DatedNow, Others DEF TypeInv, DueInv
    <2>3. deletion'.state = "completed" => deletion'.due <= now
      <3>1. CASE SaveDeletion(c)
        <4>1. /\ deletion' = Outcome(call[c], view[c]) /\ call[c] # Nil
              /\ call[c].op \in DeletionOps /\ Allowed(call[c], view[c])
              /\ view[c] \in DeletionRecords
          BY <3>1 DEF SaveDeletion, TypeInv, Shape, At
        <4>2. deletion'.state = "completed" =>
                call[c].op = "complete" /\ deletion'.due = view[c].due
          BY <4>1 DEF Outcome, Deletion, DeletionOps
        <4>3. call[c].op = "complete" => view[c].due <= call[c].at
          BY <4>1 DEF Allowed, IsPastDue
        <4>4. call[c].at <= now /\ call[c].at \in Nat /\ view[c].due \in Nat
          BY <1>a, <4>1 DEF DueInv, DeletionRecords
        <4> QED BY <1>0, <4>2, <4>3, <4>4
      <3>2. CASE ~SaveDeletion(c)
        <4>1. deletion' = deletion
          BY <1>4, <3>2 DEF Step, deletionVars, Enter, Arrive, GateRead, GateAnswer, GateFails,
             Answer, Schedule, ReadDeletion, Invalidate
        <4> QED BY <4>1 DEF DueInv
      <3> QED BY <3>1, <3>2
    <2> QED BY <2>1, <2>2, <2>3 DEF DueInv
  <1> QED BY <1>1, <1>2, <1>3, <1>4 DEF Next

\* No overlap of schedules, cancellations and completions records a wipe as done
\* before the date of the deletion on file.
THEOREM WipesWaitForTheirDate == Spec => []WipeAfterDue
  <1>1. DueInv => WipeAfterDue
    BY DEF DueInv, WipeAfterDue
  <1> QED BY <1>1, TypeInit, TypeStep, DueInit, DueStep, PTL DEF Spec
=============================================================================
