------------------------ MODULE VaultSession_proofs ------------------------
(***************************************************************************)
(* Proofs about the client: VaultSession, for any number of user calls,    *)
(* keys and handles and any subset of the lifecycle operations;            *)
(* KeyRotation, which is the rotation proper of its rotate_key; and the    *)
(* keys that the desktop application's view holds of it (DesktopApp).      *)
(***************************************************************************)
EXTENDS VaultSession, MCKeyRotation, MCDesktopApp, FiniteSetTheorems, TLAPS

(* The operations have at most seven steps, and which steps they are.      *)
LEMMA StepTable ==
    /\ Len(Steps["lock"]) = 7 /\ Steps["lock"] = LockSteps
    /\ Len(Steps["password"]) = 7 /\ Steps["password"] = PasswordSteps
    /\ Len(Steps["raw"]) = 4 /\ Steps["raw"] = RawSteps
    /\ Len(Steps["recover"]) = 5 /\ Steps["recover"] = RecoverSteps
    /\ Len(Steps["complete"]) = 5 /\ Steps["complete"] = CompleteSteps
    /\ Len(Steps["rotate"]) = 6 /\ Steps["rotate"] = RotateSteps
<1>1. /\ Len(LockSteps) = 7 /\ Len(PasswordSteps) = 7 /\ Len(RawSteps) = 4
      /\ Len(RecoverSteps) = 5 /\ Len(CompleteSteps) = 5 /\ Len(RotateSteps) = 6
  BY DEF LockSteps, PasswordSteps, RawSteps, RecoverSteps, CompleteSteps, RotateSteps
<1>2. /\ Steps["lock"] = LockSteps /\ Steps["password"] = PasswordSteps
      /\ Steps["raw"] = RawSteps /\ Steps["recover"] = RecoverSteps
      /\ Steps["complete"] = CompleteSteps /\ Steps["rotate"] = RotateSteps
  BY DEF Steps
<1> QED BY <1>1, <1>2

(* Every operation has between one and seven steps.                        *)
LEMMA StepLens == \A op \in Ops : Len(Steps[op]) \in Nat /\ 1 <= Len(Steps[op]) /\ Len(Steps[op]) <= 7
<1> SUFFICES ASSUME NEW op \in Ops PROVE Len(Steps[op]) \in Nat /\ 1 <= Len(Steps[op]) /\ Len(Steps[op]) <= 7
  OBVIOUS
<1>1. op \in {"lock", "password", "raw", "recover", "complete", "rotate"}
  BY SessionAssumption DEF SessionAssumption
<1>2. CASE op = "lock"
  BY <1>2, StepTable
<1>3. CASE op = "password"
  BY <1>3, StepTable
<1>4. CASE op = "raw"
  BY <1>4, StepTable
<1>5. CASE op = "recover"
  BY <1>5, StepTable
<1>6. CASE op = "complete"
  BY <1>6, StepTable
<1>7. CASE op = "rotate"
  BY <1>7, StepTable
<1> QED BY <1>1, <1>2, <1>3, <1>4, <1>5, <1>6, <1>7

(* A task's next state is well typed when it goes on and when it returns.  *)
LEMMA AdvanceTyped ==
    ASSUME TypeOK, NEW t \in Life, life[t] # Idle, Advance(t) \/ Return(t)
    PROVE  /\ life' \in [Life -> [op : Ops, pc : 1..7, key : Keys] \cup {Idle}]
           /\ \A s \in Life : life'[s] # Idle => life'[s].pc <= Len(Steps[life'[s].op])
<1> DEFINE Call7 == [op : Ops, pc : 1..7, key : Keys]
<1>1. life \in [Life -> Call7 \cup {Idle}] /\ life[t] \in Call7
  BY DEF TypeOK
<1>2. CASE life' = [life EXCEPT ![t] = Idle]
  BY <1>1, <1>2 DEF TypeOK
<1>3. CASE life[t].pc # Len(Steps[life[t].op]) /\ Advance(t)
  <2> DEFINE c == [op |-> life[t].op, pc |-> life[t].pc + 1, key |-> life[t].key]
  <2>1. life[t].op \in Ops /\ Len(Steps[life[t].op]) \in Nat /\ Len(Steps[life[t].op]) <= 7
    BY <1>1, StepLens
  <2>2. life[t].pc < Len(Steps[life[t].op])
    BY <1>1, <1>3, <2>1 DEF TypeOK
  <2>3. c \in Call7 /\ c.pc <= Len(Steps[c.op])
    <3>1. life[t].pc + 1 \in 1..7 /\ life[t].pc + 1 <= Len(Steps[life[t].op])
      BY <1>1, <2>1, <2>2
    <3> QED BY <1>1, <3>1
  <2>4. life' = [life EXCEPT ![t] = c]
    BY <1>1, <1>3 DEF Advance
  <2> HIDE DEF c
  <2> QED BY <1>1, <2>3, <2>4 DEF TypeOK
<1> QED BY <1>1, <1>2, <1>3 DEF Advance, Return

(* Type correctness of the session under every interleaving of lifecycle   *)
(* operations and user calls, each one stopping at its awaits.             *)
THEOREM TypeCorrect == Spec => []TypeOK
<1>1. Init => TypeOK
  BY DEF Init, TypeOK
<1>2. TypeOK /\ [Next]_vars => TypeOK'
  <2> SUFFICES ASSUME TypeOK, [Next]_vars PROVE TypeOK'
    OBVIOUS
  <2>1. ASSUME NEW t \in Life, NEW op \in Ops, NEW key \in Keys, Call(t, op, key)
        PROVE TypeOK'
    <3>1. 1 <= Len(Steps[op])
      BY StepLens
    <3>2. [op |-> op, pc |-> 1, key |-> key] \in [op : Ops, pc : 1..7, key : Keys]
      OBVIOUS
    <3> QED BY <2>1, <3>1, <3>2 DEF TypeOK, Call, keys, second, recovery
  <2>2. ASSUME NEW t \in Life, SetSvk(t) \/ SetDek(t) \/ SetMk(t) PROVE TypeOK'
    <3>1. life[t] # Idle /\ Advance(t)
      BY <2>2 DEF SetSvk, SetDek, SetMk, At
    <3>2. life[t].key \in Keys
      BY <3>1 DEF TypeOK
    <3>3. mk' \in BOOLEAN
      BY <2>2 DEF SetSvk, SetDek, SetMk, TypeOK, At
    <3>4. svk' \in Keys \cup {None} /\ dek' \in Keys \cup {None}
      BY <2>2, <3>2 DEF SetSvk, SetDek, SetMk, TypeOK
    <3> QED BY <2>2, <3>1, <3>3, <3>4, AdvanceTyped
            DEF SetSvk, SetDek, SetMk, TypeOK, second, recovery
  <2>3. ASSUME NEW t \in Life, SetLocked(t) PROVE TypeOK'
    <3>1. life[t] # Idle /\ Advance(t)
      BY <2>3 DEF SetLocked, At
    <3>2. locked' \in BOOLEAN /\ answered' \in BOOLEAN
      BY <2>3 DEF SetLocked, TypeOK, At
    <3>3. user' \in [Users -> [op : {"reveal", "verify"}, late : BOOLEAN] \cup {Idle}]
      BY <2>3 DEF SetLocked, TypeOK
    <3> QED BY <2>3, <3>1, <3>2, <3>3, AdvanceTyped DEF SetLocked, TypeOK, keys, recovery
  <2>4. ASSUME NEW t \in Life, ClearHandles(t) \/ Gate(t) \/ Need(t) \/ Try(t) PROVE TypeOK'
    <3>1. life[t] # Idle /\ (Advance(t) \/ Return(t))
      BY <2>4 DEF ClearHandles, Gate, Need, Try, At
    <3> QED BY <2>4, <3>1, AdvanceTyped
            DEF ClearHandles, Gate, Need, Try, TypeOK, keys, second, recovery
  <2>5. ASSUME NEW t \in Life, ResetFactor(t) \/ Discover(t) PROVE TypeOK'
    <3>1. life[t] # Idle /\ Advance(t)
      BY <2>5 DEF ResetFactor, Discover, At
    <3>2. factor' \in BOOLEAN /\ verified' \in BOOLEAN
      BY <2>5 DEF ResetFactor, Discover, TypeOK, At
    <3> QED BY <2>5, <3>1, <3>2, AdvanceTyped
            DEF ResetFactor, Discover, TypeOK, keys, recovery
  <2>6. ASSUME NEW t \in Life, SetRecovery(t) PROVE TypeOK'
    <3>1. life[t] # Idle /\ Advance(t)
      BY <2>6 DEF SetRecovery, At
    <3>2. creds' \in BOOLEAN /\ pending' \in BOOLEAN
      BY <2>6 DEF SetRecovery, TypeOK, At
    <3> QED BY <2>6, <3>1, <3>2, AdvanceTyped DEF SetRecovery, TypeOK, keys, second
  <2>7. ASSUME NEW t \in Users, UserStep(t) PROVE TypeOK'
    <3>1. user' \in [Users -> [op : {"reveal", "verify"}, late : BOOLEAN] \cup {Idle}]
      <4>1. /\ [op |-> "reveal", late |-> FALSE] \in [op : {"reveal", "verify"}, late : BOOLEAN]
            /\ [op |-> "verify", late |-> FALSE] \in [op : {"reveal", "verify"}, late : BOOLEAN]
        OBVIOUS
      <4>2. \E c \in [op : {"reveal", "verify"}, late : BOOLEAN] \cup {Idle} :
               user' = [user EXCEPT ![t] = c]
        BY <2>7, <4>1 DEF UserStep, RevealCheck, RevealInsert, VerifyAsk, VerifyDone, VerifyRefused
      <4> QED BY <4>2 DEF TypeOK
    <3>2. handles' \subseteq Handles
      BY <2>7 DEF UserStep, RevealCheck, RevealInsert, VerifyAsk, VerifyDone, VerifyRefused,
                  TypeOK
    <3>3. verified' \in BOOLEAN /\ answered' \in BOOLEAN
      BY <2>7 DEF UserStep, RevealCheck, RevealInsert, VerifyAsk, VerifyDone, VerifyRefused,
                  TypeOK, second
    <3> QED BY <2>7, <3>1, <3>2, <3>3
            DEF UserStep, RevealCheck, RevealInsert, VerifyAsk, VerifyDone, VerifyRefused,
                TypeOK, keys, second, recovery
  <2>8. ASSUME NEW h \in Handles, Release(h) PROVE TypeOK'
    BY <2>8 DEF Release, TypeOK, keys, second, recovery
  <2>9. CASE UNCHANGED vars
    BY <2>9 DEF TypeOK, vars, keys, second, recovery
  <2> QED BY <2>1, <2>2, <2>3, <2>4, <2>5, <2>6, <2>7, <2>8, <2>9 DEF Next, LifeStep
<1> QED BY <1>1, <1>2, PTL DEF Spec

-----------------------------------------------------------------------------
(* No key is held and no secret is revealed.                               *)
Empty == svk = None /\ dek = None /\ ~mk /\ handles = {}

(* What the memory looks like between operations.                          *)
Settled == IF locked THEN Empty ELSE svk # None /\ dek = svk

(* What the memory looks like while operation c runs: lock has wiped what  *)
(* its earlier steps wipe and never leaves a locked client with anything   *)
(* but nothing; the unlocking operations have set the keys that their      *)
(* earlier steps set, and from then on cannot fail before they open.       *)
During(c) ==
    /\ c.op = "lock" =>
         /\ locked => Empty
         /\ c.pc > 1 => svk = None
         /\ c.pc > 2 => dek = None
         /\ c.pc > 3 => ~mk
         /\ c.pc > 4 => handles = {}
         /\ c.pc > 5 => locked
    /\ c.op = "password" =>
         /\ c.pc < 5 => Settled
         /\ c.pc > 4 => svk = c.key
         /\ c.pc > 5 => dek = c.key
    /\ c.op = "raw" =>
         /\ c.pc < 2 => Settled
         /\ c.pc > 1 => svk = c.key
         /\ c.pc > 2 => dek = c.key
    /\ c.op = "recover" =>
         /\ c.pc < 2 \/ c.pc > 3 => Settled
         /\ c.pc = 2 \/ c.pc = 3 => svk = c.key
         /\ c.pc = 3 => dek = c.key
         /\ c.pc > 3 => ~locked
    /\ c.op = "complete" => Settled
    /\ c.op = "rotate" =>
         /\ c.pc < 6 => Settled
         /\ c.pc = 6 => svk = c.key
         /\ c.pc > 1 => ~locked

(* The inductive invariant of a client whose lifecycle operations do not   *)
(* overlap.                                                                *)
SessionInv ==
    /\ TypeOK
    /\ Quiet => Settled
    /\ \A t \in Life : life[t] # Idle => During(life[t])

(* Which operations are at which of their steps when an action runs.       *)
LEMMA StepsAt ==
    ASSUME TypeOK, NEW t \in Life, life[t] # Idle
    PROVE  LET c == life[t] IN
           /\ c.op \in {"lock", "password", "raw", "recover", "complete", "rotate"}
           /\ c.pc \in Nat /\ c.pc >= 1 /\ c.key \in Keys
           /\ c.op = "lock" => Len(Steps[c.op]) = 7 /\ c.pc <= 7
           /\ c.op = "password" => Len(Steps[c.op]) = 7 /\ c.pc <= 7
           /\ c.op = "raw" => Len(Steps[c.op]) = 4 /\ c.pc <= 4
           /\ c.op = "recover" => Len(Steps[c.op]) = 5 /\ c.pc <= 5
           /\ c.op = "complete" => Len(Steps[c.op]) = 5 /\ c.pc <= 5
           /\ c.op = "rotate" => Len(Steps[c.op]) = 6 /\ c.pc <= 6
           /\ At(t, "wipe_svk") <=> c.op = "lock" /\ c.pc = 1
           /\ At(t, "wipe_dek") <=> c.op = "lock" /\ c.pc = 2
           /\ At(t, "wipe_mk") <=> \/ c.op = "lock" /\ c.pc = 3
                                   \/ c.op = "raw" /\ c.pc = 3
           /\ At(t, "clear_handles") <=> c.op = "lock" /\ c.pc = 4
           /\ At(t, "set_locked") <=> c.op = "lock" /\ c.pc = 5
           /\ At(t, "reset_factor") <=> c.op = "lock" /\ c.pc = 6
           /\ At(t, "reset_verified") <=> c.op = "lock" /\ c.pc = 7
           /\ At(t, "discover") <=> c.op = "password" /\ c.pc = 1
           /\ At(t, "gate") <=> c.op = "password" /\ c.pc = 2
           /\ At(t, "try") <=> \/ c.op = "password" /\ c.pc = 3
                               \/ c.op = "complete" /\ c.pc = 3
                               \/ c.op = "rotate" /\ c.pc = 4
           /\ At(t, "svk") <=> \/ c.op = "password" /\ c.pc = 4
                               \/ c.op = "raw" /\ c.pc = 1
                               \/ c.op = "recover" /\ c.pc = 1
                               \/ c.op = "rotate" /\ c.pc = 5
           /\ At(t, "dek") <=> \/ c.op = "password" /\ c.pc = 5
                               \/ c.op = "raw" /\ c.pc = 2
                               \/ c.op = "recover" /\ c.pc = 2
                               \/ c.op = "rotate" /\ c.pc = 6
           /\ At(t, "mk") <=> c.op = "password" /\ c.pc = 6
           /\ At(t, "open") <=> \/ c.op = "password" /\ c.pc = 7
                                \/ c.op = "raw" /\ c.pc = 4
                                \/ c.op = "recover" /\ c.pc = 3
           /\ At(t, "creds") <=> \/ c.op = "recover" /\ c.pc = 4
                                 \/ c.op = "complete" /\ c.pc = 4
           /\ At(t, "pending") <=> c.op = "recover" /\ c.pc = 5
           /\ At(t, "need_pending") <=> c.op = "complete" /\ c.pc = 1
           /\ At(t, "need_svk") <=> \/ c.op = "complete" /\ c.pc = 2
                                    \/ c.op = "rotate" /\ c.pc = 3
           /\ At(t, "not_pending") <=> c.op = "complete" /\ c.pc = 5
           /\ At(t, "need_open") <=> c.op = "rotate" /\ c.pc = 1
           /\ At(t, "need_mk") <=> c.op = "rotate" /\ c.pc = 2
<1> DEFINE c == life[t]
<1>1. c \in [op : Ops, pc : 1..7, key : Keys] /\ c.pc <= Len(Steps[c.op])
  BY DEF TypeOK
<1>2. /\ c.op \in {"lock", "password", "raw", "recover", "complete", "rotate"}
      /\ c.pc \in 1..7 /\ c.key \in Keys
  BY <1>1, SessionAssumption DEF SessionAssumption
<1>3. ASSUME NEW s PROVE At(t, s) <=> Steps[c.op][c.pc] = s
  BY DEF At
<1>4. CASE c.op = "lock"
  BY <1>1, <1>2, <1>3, <1>4, StepTable DEF LockSteps
<1>5. CASE c.op = "password"
  BY <1>1, <1>2, <1>3, <1>5, StepTable DEF PasswordSteps
<1>6. CASE c.op = "raw"
  BY <1>1, <1>2, <1>3, <1>6, StepTable DEF RawSteps
<1>7. CASE c.op = "recover"
  BY <1>1, <1>2, <1>3, <1>7, StepTable DEF RecoverSteps
<1>8. CASE c.op = "complete"
  BY <1>1, <1>2, <1>3, <1>8, StepTable DEF CompleteSteps
<1>9. CASE c.op = "rotate"
  BY <1>1, <1>2, <1>3, <1>9, StepTable DEF RotateSteps
<1> QED BY <1>2, <1>4, <1>5, <1>6, <1>7, <1>8, <1>9

(* The task has gone on to step pc of its operation.                       *)
Moved(t, pc) ==
    /\ life'[t] # Idle
    /\ life'[t].op = life[t].op /\ life'[t].key = life[t].key
    /\ life'[t].pc = pc

(* The task's next state: one step on, or idle after the last one.         *)
LEMMA AdvanceTo ==
    ASSUME TypeOK, NEW t \in Life, life[t] # Idle, Advance(t)
    PROVE  /\ life[t].pc = Len(Steps[life[t].op]) => life'[t] = Idle
           /\ life[t].pc # Len(Steps[life[t].op]) => Moved(t, life[t].pc + 1)
<1> DEFINE d == [op |-> life[t].op, pc |-> life[t].pc + 1, key |-> life[t].key]
<1>1. life[t] \in [op : Ops, pc : 1..7, key : Keys] /\ life[t].pc <= Len(Steps[life[t].op])
  BY DEF TypeOK
<1>2. Len(Steps[life[t].op]) \in Nat /\ Len(Steps[life[t].op]) <= 7
  BY <1>1, StepLens
<1>3. life'[t] = IF life[t].pc = Len(Steps[life[t].op]) THEN Idle ELSE d
  BY DEF Advance, TypeOK
<1>4. life[t].pc # Len(Steps[life[t].op]) => d \in [op : Ops, pc : 1..7, key : Keys]
  BY <1>1, <1>2
<1>5. d.op = life[t].op /\ d.pc = life[t].pc + 1 /\ d.key = life[t].key
  OBVIOUS
<1> HIDE DEF d
<1> QED BY <1>3, <1>4, <1>5, SessionAssumption DEF SessionAssumption, Moved

(* Where each step leads: the operation that is at it, and what comes next. *)
LEMMA AdvanceFrom ==
    ASSUME TypeOK, NEW t \in Life, life[t] # Idle, Advance(t)
    PROVE  /\ At(t, "wipe_svk") => life[t].op = "lock" /\ life[t].pc = 1 /\ Moved(t, 2)
           /\ At(t, "wipe_dek") => life[t].op = "lock" /\ life[t].pc = 2 /\ Moved(t, 3)
           /\ At(t, "wipe_mk") =>
                \/ life[t].op = "lock" /\ life[t].pc = 3 /\ Moved(t, 4)
                \/ life[t].op = "raw" /\ life[t].pc = 3 /\ Moved(t, 4)
           /\ At(t, "clear_handles") => life[t].op = "lock" /\ life[t].pc = 4 /\ Moved(t, 5)
           /\ At(t, "set_locked") => life[t].op = "lock" /\ life[t].pc = 5 /\ Moved(t, 6)
           /\ At(t, "reset_factor") => life[t].op = "lock" /\ life[t].pc = 6 /\ Moved(t, 7)
           /\ At(t, "reset_verified") => life[t].op = "lock" /\ life[t].pc = 7 /\ life'[t] = Idle
           /\ At(t, "discover") => life[t].op = "password" /\ life[t].pc = 1 /\ Moved(t, 2)
           /\ At(t, "gate") => life[t].op = "password" /\ life[t].pc = 2 /\ Moved(t, 3)
           /\ At(t, "try") =>
                \/ life[t].op = "password" /\ life[t].pc = 3 /\ Moved(t, 4)
                \/ life[t].op = "complete" /\ life[t].pc = 3 /\ Moved(t, 4)
                \/ life[t].op = "rotate" /\ life[t].pc = 4 /\ Moved(t, 5)
           /\ At(t, "svk") =>
                \/ life[t].op = "password" /\ life[t].pc = 4 /\ Moved(t, 5)
                \/ life[t].op = "raw" /\ life[t].pc = 1 /\ Moved(t, 2)
                \/ life[t].op = "recover" /\ life[t].pc = 1 /\ Moved(t, 2)
                \/ life[t].op = "rotate" /\ life[t].pc = 5 /\ Moved(t, 6)
           /\ At(t, "dek") =>
                \/ life[t].op = "password" /\ life[t].pc = 5 /\ Moved(t, 6)
                \/ life[t].op = "raw" /\ life[t].pc = 2 /\ Moved(t, 3)
                \/ life[t].op = "recover" /\ life[t].pc = 2 /\ Moved(t, 3)
                \/ life[t].op = "rotate" /\ life[t].pc = 6 /\ life'[t] = Idle
           /\ At(t, "mk") => life[t].op = "password" /\ life[t].pc = 6 /\ Moved(t, 7)
           /\ At(t, "open") =>
                \/ life[t].op = "password" /\ life[t].pc = 7 /\ life'[t] = Idle
                \/ life[t].op = "raw" /\ life[t].pc = 4 /\ life'[t] = Idle
                \/ life[t].op = "recover" /\ life[t].pc = 3 /\ Moved(t, 4)
           /\ At(t, "creds") =>
                \/ life[t].op = "recover" /\ life[t].pc = 4 /\ Moved(t, 5)
                \/ life[t].op = "complete" /\ life[t].pc = 4 /\ Moved(t, 5)
           /\ At(t, "pending") => life[t].op = "recover" /\ life[t].pc = 5 /\ life'[t] = Idle
           /\ At(t, "need_pending") => life[t].op = "complete" /\ life[t].pc = 1 /\ Moved(t, 2)
           /\ At(t, "need_svk") =>
                \/ life[t].op = "complete" /\ life[t].pc = 2 /\ Moved(t, 3)
                \/ life[t].op = "rotate" /\ life[t].pc = 3 /\ Moved(t, 4)
           /\ At(t, "not_pending") => life[t].op = "complete" /\ life[t].pc = 5 /\ life'[t] = Idle
           /\ At(t, "need_open") => life[t].op = "rotate" /\ life[t].pc = 1 /\ Moved(t, 2)
           /\ At(t, "need_mk") => life[t].op = "rotate" /\ life[t].pc = 2 /\ Moved(t, 3)
<1>1. /\ life[t].pc = Len(Steps[life[t].op]) => life'[t] = Idle
      /\ life[t].pc # Len(Steps[life[t].op]) => Moved(t, life[t].pc + 1)
  BY AdvanceTo
<1>2. ASSUME life[t].op = "lock"
      PROVE  /\ life[t].pc = 1 => Moved(t, 2)
             /\ life[t].pc = 2 => Moved(t, 3)
             /\ life[t].pc = 3 => Moved(t, 4)
             /\ life[t].pc = 4 => Moved(t, 5)
             /\ life[t].pc = 5 => Moved(t, 6)
             /\ life[t].pc = 6 => Moved(t, 7)
             /\ life[t].pc = 7 => life'[t] = Idle
  BY <1>2, <1>1, StepTable
<1>3. ASSUME life[t].op = "password"
      PROVE  /\ life[t].pc = 1 => Moved(t, 2)
             /\ life[t].pc = 2 => Moved(t, 3)
             /\ life[t].pc = 3 => Moved(t, 4)
             /\ life[t].pc = 4 => Moved(t, 5)
             /\ life[t].pc = 5 => Moved(t, 6)
             /\ life[t].pc = 6 => Moved(t, 7)
             /\ life[t].pc = 7 => life'[t] = Idle
  BY <1>3, <1>1, StepTable
<1>4. ASSUME life[t].op = "raw"
      PROVE  /\ life[t].pc = 1 => Moved(t, 2)
             /\ life[t].pc = 2 => Moved(t, 3)
             /\ life[t].pc = 3 => Moved(t, 4)
             /\ life[t].pc = 4 => life'[t] = Idle
  BY <1>4, <1>1, StepTable
<1>5. ASSUME life[t].op = "recover"
      PROVE  /\ life[t].pc = 1 => Moved(t, 2)
             /\ life[t].pc = 2 => Moved(t, 3)
             /\ life[t].pc = 3 => Moved(t, 4)
             /\ life[t].pc = 4 => Moved(t, 5)
             /\ life[t].pc = 5 => life'[t] = Idle
  BY <1>5, <1>1, StepTable
<1>6. ASSUME life[t].op = "complete"
      PROVE  /\ life[t].pc = 1 => Moved(t, 2)
             /\ life[t].pc = 2 => Moved(t, 3)
             /\ life[t].pc = 3 => Moved(t, 4)
             /\ life[t].pc = 4 => Moved(t, 5)
             /\ life[t].pc = 5 => life'[t] = Idle
  BY <1>6, <1>1, StepTable
<1>7. ASSUME life[t].op = "rotate"
      PROVE  /\ life[t].pc = 1 => Moved(t, 2)
             /\ life[t].pc = 2 => Moved(t, 3)
             /\ life[t].pc = 3 => Moved(t, 4)
             /\ life[t].pc = 4 => Moved(t, 5)
             /\ life[t].pc = 5 => Moved(t, 6)
             /\ life[t].pc = 6 => life'[t] = Idle
  BY <1>7, <1>1, StepTable
<1> QED BY StepsAt, <1>2, <1>3, <1>4, <1>5, <1>6, <1>7

(* With one lifecycle task, the invariant of the next state is about that  *)
(* task alone.                                                             *)
LEMMA OneTask ==
    ASSUME \A s, t \in Life : s = t, TypeOK', NEW t \in Life,
           life'[t] = Idle => Settled', life'[t] # Idle => During(life[t])'
    PROVE  SessionInv'
<1>1. \A s \in Life : life'[s] = life'[t]
  OBVIOUS
<1>2. Quiet' => Settled'
  BY DEF Quiet
<1>3. \A s \in Life : life'[s] # Idle => During(life[s])'
  BY <1>1
<1> QED BY <1>2, <1>3 DEF SessionInv

(* Each step of an operation takes the memory to what the next step needs. *)
LEMMA LifeStepKeeps ==
    ASSUME \A s, t \in Life : s = t, SessionInv, TypeOK', NEW t \in Life, LifeStep(t)
    PROVE  SessionInv'
<1> SUFFICES /\ life'[t] = Idle => Settled'
             /\ life'[t] # Idle => During(life[t])'
  BY OneTask
<1>a. TypeOK /\ None \notin Keys
  BY SessionAssumption DEF SessionInv, SessionAssumption
<1>b. life[t] # Idle => During(life[t])
  BY DEF SessionInv
<1>1. CASE \E op \in Ops, key \in Keys : Call(t, op, key)
  <2>1. PICK op \in Ops, key \in Keys : Call(t, op, key)
    BY <1>1
  <2>2. Quiet /\ Settled
    BY <2>1 DEF Call, Quiet, SessionInv
  <2>3. life'[t] = [op |-> op, pc |-> 1, key |-> key]
    BY <2>1, <1>a DEF Call, TypeOK
  <2>4. life'[t].op = op /\ life'[t].pc = 1
    BY <2>3
  <2>5. op \in {"lock", "password", "raw", "recover", "complete", "rotate"}
    BY SessionAssumption DEF SessionAssumption
  <2>6. Settled' /\ (locked' => Empty')
    BY <2>1, <2>2 DEF Call, Settled, Empty, keys
  <2> QED BY <2>4, <2>5, <2>6 DEF During
<1>3. CASE SetSvk(t)
  <2>1. life[t] # Idle /\ Advance(t)
    BY <1>3 DEF SetSvk, At
  <2>2. UNCHANGED <<dek, mk, locked, handles>>
    BY <1>3 DEF SetSvk
  <2>3. CASE At(t, "wipe_svk")
    <3>1. ~At(t, "svk")
      BY <2>1, <2>3, <1>a, StepsAt
    <3>2. svk' = None
      BY <1>3, <3>1 DEF SetSvk
    <3>3. life[t].op = "lock" /\ life[t].pc = 1 /\ Moved(t, 2)
      BY <2>1, <2>3, <1>a, AdvanceFrom
    <3> QED BY <2>1, <2>2, <3>2, <3>3, <1>b DEF Moved, During, Settled, Empty
  <2>4. CASE At(t, "svk")
    <3>1. svk' = life[t].key /\ life[t].key # None
      BY <1>3, <2>1, <2>4, <1>a, StepsAt DEF SetSvk
    <3>2. \/ life[t].op = "password" /\ life[t].pc = 4 /\ Moved(t, 5)
          \/ life[t].op = "raw" /\ life[t].pc = 1 /\ Moved(t, 2)
          \/ life[t].op = "recover" /\ life[t].pc = 1 /\ Moved(t, 2)
          \/ life[t].op = "rotate" /\ life[t].pc = 5 /\ Moved(t, 6)
      BY <2>1, <2>4, <1>a, AdvanceFrom
    <3> QED BY <2>1, <2>2, <3>1, <3>2, <1>b DEF Moved, During, Settled, Empty
  <2> QED BY <1>3, <2>3, <2>4 DEF SetSvk
<1>4. CASE SetDek(t)
  <2>1. life[t] # Idle /\ Advance(t)
    BY <1>4 DEF SetDek, At
  <2>2. UNCHANGED <<svk, mk, locked, handles>>
    BY <1>4 DEF SetDek
  <2>3. CASE At(t, "wipe_dek")
    <3>1. ~At(t, "dek")
      BY <2>1, <2>3, <1>a, StepsAt
    <3>2. dek' = None
      BY <1>4, <3>1 DEF SetDek
    <3>3. life[t].op = "lock" /\ life[t].pc = 2 /\ Moved(t, 3)
      BY <2>1, <2>3, <1>a, AdvanceFrom
    <3> QED BY <2>1, <2>2, <3>2, <3>3, <1>b DEF Moved, During, Settled, Empty
  <2>4. CASE At(t, "dek")
    <3>1. dek' = life[t].key /\ life[t].key # None
      BY <1>4, <2>1, <2>4, <1>a, StepsAt DEF SetDek
    <3>2. \/ life[t].op = "password" /\ life[t].pc = 5 /\ Moved(t, 6)
          \/ life[t].op = "raw" /\ life[t].pc = 2 /\ Moved(t, 3)
          \/ life[t].op = "recover" /\ life[t].pc = 2 /\ Moved(t, 3)
          \/ life[t].op = "rotate" /\ life[t].pc = 6 /\ life'[t] = Idle
      BY <2>1, <2>4, <1>a, AdvanceFrom
    <3> QED BY <2>1, <2>2, <3>1, <3>2, <1>b DEF Moved, During, Settled, Empty
  <2> QED BY <1>4, <2>3, <2>4 DEF SetDek
<1>5. CASE SetMk(t)
  <2>1. life[t] # Idle /\ Advance(t)
    BY <1>5 DEF SetMk, At
  <2>2. UNCHANGED <<svk, dek, locked, handles>>
    BY <1>5 DEF SetMk
  <2>3. CASE At(t, "wipe_mk")
    <3>1. ~At(t, "mk")
      BY <2>1, <2>3, <1>a, StepsAt
    <3>2. ~mk'
      BY <1>5, <3>1 DEF SetMk
    <3>3. \/ life[t].op = "lock" /\ life[t].pc = 3 /\ Moved(t, 4)
          \/ life[t].op = "raw" /\ life[t].pc = 3 /\ Moved(t, 4)
      BY <2>1, <2>3, <1>a, AdvanceFrom
    <3> QED BY <2>1, <2>2, <3>2, <3>3, <1>b DEF Moved, During, Settled, Empty
  <2>4. CASE At(t, "mk")
    <3>1. life[t].op = "password" /\ life[t].pc = 6 /\ Moved(t, 7)
      BY <2>1, <2>4, <1>a, AdvanceFrom
    <3> QED BY <2>1, <2>2, <3>1, <1>b DEF Moved, During, Settled, Empty
  <2> QED BY <1>5, <2>3, <2>4 DEF SetMk
<1>6. CASE ClearHandles(t)
  <2>1. life[t] # Idle /\ Advance(t)
    BY <1>6 DEF ClearHandles, At
  <2>2. life[t].op = "lock" /\ life[t].pc = 4 /\ Moved(t, 5)
    BY <1>6, <2>1, <1>a, AdvanceFrom DEF ClearHandles
  <2> QED BY <1>6, <2>1, <2>2, <1>b DEF ClearHandles, Moved, During, Settled, Empty, keys
<1>7. CASE SetLocked(t)
  <2>1. life[t] # Idle /\ Advance(t)
    BY <1>7 DEF SetLocked, At
  <2> QED BY <1>7, <2>1, <1>a, <1>b, StepsAt, AdvanceFrom
          DEF Moved, SetLocked, During, Settled, Empty, keys
<1>8. CASE ResetFactor(t) \/ Discover(t) \/ SetRecovery(t)
  <2>1. life[t] # Idle /\ Advance(t)
    BY <1>8 DEF ResetFactor, Discover, SetRecovery, At
  <2>2. UNCHANGED <<svk, dek, mk, locked, handles>>
    BY <1>8 DEF ResetFactor, Discover, SetRecovery, keys
  <2>3. \/ At(t, "reset_factor") \/ At(t, "reset_verified") \/ At(t, "discover")
        \/ At(t, "creds") \/ At(t, "pending") \/ At(t, "not_pending")
    BY <1>8 DEF ResetFactor, Discover, SetRecovery
  <2> QED BY <2>1, <2>2, <2>3, <1>a, <1>b, StepsAt, AdvanceFrom
       DEF Moved, During, Settled, Empty
<1>9. CASE Gate(t) \/ Need(t) \/ Try(t)
  <2>1. life[t] # Idle /\ (Advance(t) \/ Return(t))
    BY <1>9 DEF Gate, Need, Try, At
  <2>2. UNCHANGED <<svk, dek, mk, locked, handles>>
    BY <1>9 DEF Gate, Need, Try, keys
  <2>3. \/ At(t, "gate") \/ At(t, "try") \/ At(t, "need_open") \/ At(t, "need_mk")
        \/ At(t, "need_svk") \/ At(t, "need_pending")
    BY <1>9 DEF Gate, Need, Try
  <2>4. At(t, "need_open") => Return(t) \/ ~locked
    BY <1>9, <2>1, <1>a, StepsAt DEF Gate, Need, Try, Holds
  <2>5. CASE Advance(t) /\ (At(t, "need_open") => ~locked)
    BY <2>1, <2>2, <2>3, <2>5, <1>a, <1>b, StepsAt, AdvanceFrom
       DEF Moved, During, Settled, Empty
  <2>6. CASE Return(t)
    <3>1. life'[t] = Idle
      BY <2>6, <1>a DEF Return, TypeOK
    <3> QED BY <2>1, <2>2, <2>3, <3>1, <1>a, <1>b, StepsAt DEF During, Settled, Empty
  <2> QED BY <2>1, <2>4, <2>5, <2>6
<1> QED BY <1>1, <1>3, <1>4, <1>5, <1>6, <1>7, <1>8, <1>9 DEF LifeStep

(* A call of the user changes neither keys nor lock flag, and reveals a    *)
(* secret only while the data key is held: lock takes that key away before *)
(* it releases the handles, so a late reveal finds none.                   *)
LEMMA UserStepKeeps ==
    ASSUME SessionInv, TypeOK', UNCHANGED <<svk, dek, mk, locked, life>>,
           handles' \subseteq handles \/ dek # None
    PROVE  SessionInv'
<1>1. handles = {} /\ dek = None => handles' = {}
  OBVIOUS
<1>2. Settled => Settled'
  BY <1>1 DEF Settled, Empty
<1>3. Quiet' => Settled'
  BY <1>2 DEF Quiet, SessionInv
<1>4. ASSUME NEW t \in Life, life'[t] # Idle PROVE During(life[t])'
  <2>1. life'[t] = life[t] /\ During(life[t])
    BY <1>4 DEF SessionInv
  <2>2. life[t].pc \in 1..7
    BY <1>4 DEF SessionInv, TypeOK
  <2>3. (locked => Empty) => (locked' => Empty')
    BY <1>1 DEF Empty
  <2> QED BY <2>1, <2>2, <2>3, <1>1, <1>2 DEF During
<1> QED BY <1>3, <1>4 DEF SessionInv

(* One lifecycle operation at a time: the client's state is settled        *)
(* whenever none is running, and each operation keeps its part of it.      *)
LEMMA SessionInvariant ==
    ASSUME \A s, t \in Life : s = t
    PROVE  Spec => []SessionInv
<1>1. Init /\ TypeOK => SessionInv
  BY DEF Init, SessionInv, Settled, Empty, Quiet
<1>2. SessionInv /\ TypeOK' /\ [Next]_vars => SessionInv'
  <2> SUFFICES ASSUME SessionInv, TypeOK', [Next]_vars PROVE SessionInv'
    OBVIOUS
  <2>1. ASSUME NEW t \in Life, LifeStep(t) PROVE SessionInv'
    BY <2>1, LifeStepKeeps
  <2>2. ASSUME NEW t \in Users, UserStep(t) PROVE SessionInv'
    <3>1. UNCHANGED <<svk, dek, mk, locked, life>> /\ (handles' \subseteq handles \/ dek # None)
      BY <2>2 DEF UserStep, RevealCheck, RevealInsert, VerifyAsk, VerifyDone, VerifyRefused,
                  keys
    <3> QED BY <3>1, UserStepKeeps
  <2>3. ASSUME NEW h \in Handles, Release(h) PROVE SessionInv'
    BY <2>3, UserStepKeeps DEF Release, keys
  <2>4. CASE UNCHANGED vars
    BY <2>4, UserStepKeeps DEF vars, keys
  <2> QED BY <2>1, <2>2, <2>3, <2>4 DEF Next
<1> QED BY <1>1, <1>2, TypeCorrect, PTL DEF Spec

(* A client that is locked and at rest holds no key and no revealed secret *)
(* (lock, reveal_secret), when the front end runs one lifecycle operation  *)
(* at a time. With two that overlap the code does not keep this.           *)
THEOREM LockedIsEmpty ==
    ASSUME \A s, t \in Life : s = t
    PROVE  Spec => []LockedEmpty
<1>1. SessionInv => LockedEmpty
  BY DEF SessionInv, LockedEmpty, Settled, Empty
<1> QED BY <1>1, SessionInvariant, PTL

(* A client that is open and at rest holds the vault key and the data key  *)
(* derived from it, under the same condition.                              *)
THEOREM OpenIsKeyed ==
    ASSUME \A s, t \in Life : s = t
    PROVE  Spec => []OpenHasKeys
<1>1. SessionInv => OpenHasKeys
  BY DEF SessionInv, OpenHasKeys, Settled
<1> QED BY <1>1, SessionInvariant, PTL

-----------------------------------------------------------------------------
(* The rotation proper, the step "try" of rotate_key: KeyRotation, for any *)
(* number of items, devices, rotations, failures and crashes.              *)
Running(d) == rot[d] # NoTask

(* A rotation may still write item u, or will list it.                     *)
PendingIn(r, u) ==
    \/ r.pc = "list"
    \/ \E e \in r.todo \cup r.batch : e.u = u
    \/ \E c \in r.clashes : c.u = u
Pending(d, u) == Running(d) /\ PendingIn(rot[d], u)
Waiting(u) == {d \in Devices : Pending(d, u)}

(* No device knows a generation the server has not reached, and the server *)
(* has reached none that no rotation made.                                 *)
GensFit ==
    /\ minGen <= made + 1
    /\ \A d \in Devices : /\ sess[d].gen <= minGen
                          /\ mem[d] # NoTask => mem[d].gen <= minGen
                          /\ Running(d) => rot[d].gen <= minGen

(* A rotation has an item in one place, once.                              *)
Apart(r) ==
    /\ \A a, b \in r.todo \cup r.batch : a.u = b.u => a = b
    /\ \A a, b \in r.clashes : a.u = b.u => a = b
    /\ \A a \in r.todo \cup r.batch, c \in r.clashes : a.u # c.u
    /\ r.todo \cap r.batch = {}
    /\ r.pc = "list" => r.todo = {} /\ r.batch = {} /\ r.clashes = {}
OneEach == \A d \in Devices : Running(d) => Apart(rot[d])

(* An item has been written once by each edit at most, and once by each    *)
(* rotation that will not write it any more.                               *)
Room == \A u \in Items : srv[u].version + Cardinality(Waiting(u)) <= 1 + used.edits + made

RotationInv == R!TypeOK /\ GensFit /\ OneEach /\ Room

LEMMA SizesFacts ==
    ASSUME Sizes
    PROVE  /\ MaxKeys \in Nat /\ MaxEdits \in Nat /\ MaxFailures \in Nat /\ MaxCrashes \in Nat
           /\ IsFiniteSet(Devices) /\ Unsynced \subseteq Items
           /\ NoRow \notin R!Row /\ NoTask \notin R!Session /\ NoTask \notin R!Rotation
           /\ NoTask \notin R!Saving
BY DEF Sizes, R!RotationAssumption, R!AbsentAssumption, IsFiniteSet, R!IsFiniteSet

(* The items that wait are not more when fewer rotations have them ...     *)
LEMMA FewerWait ==
    ASSUME NEW S, NEW T, IsFiniteSet(T), S \subseteq T
    PROVE  /\ Cardinality(S) \in Nat /\ Cardinality(T) \in Nat
           /\ Cardinality(S) <= Cardinality(T)
BY FS_Subset, FS_CardinalityType

(* ... one less without one of them, and one more with another.            *)
LEMMA OneLess ==
    ASSUME NEW S, NEW T, IsFiniteSet(T), NEW d \in T, S \subseteq T \ {d}
    PROVE  /\ Cardinality(S) \in Nat /\ Cardinality(T) \in Nat
           /\ Cardinality(S) + 1 <= Cardinality(T)
<1>1. IsFiniteSet(T \ {d}) /\ Cardinality(T \ {d}) = Cardinality(T) - 1
  BY FS_RemoveElement
<1>2. /\ Cardinality(S) \in Nat /\ Cardinality(T) \in Nat /\ Cardinality(S) <= Cardinality(T \ {d})
  BY <1>1, FewerWait, FS_CardinalityType
<1> QED BY <1>1, <1>2

LEMMA OneMore ==
    ASSUME NEW S, NEW T, IsFiniteSet(T), NEW d, S \subseteq T \cup {d}
    PROVE  /\ Cardinality(S) \in Nat /\ Cardinality(T) \in Nat
           /\ Cardinality(S) <= Cardinality(T) + 1
<1>1. IsFiniteSet(T \cup {d})
  BY FS_AddElement
<1>2. Cardinality(T \cup {d}) \in Nat /\ Cardinality(T) \in Nat
  BY <1>1, FS_CardinalityType
<1>3. Cardinality(T \cup {d}) <= Cardinality(T) + 1
  <2>1. Cardinality(T \cup {d}) = IF d \in T THEN Cardinality(T) ELSE Cardinality(T) + 1
    BY FS_AddElement
  <2> QED BY <2>1, <1>2
<1> QED BY <1>1, <1>2, <1>3, FewerWait

(* The numbers that Room relates.                                          *)
LEMMA RoomTyped ==
    ASSUME Sizes, R!TypeOK
    PROVE  /\ used.edits \in 0 .. MaxEdits /\ made \in 0 .. MaxKeys
           /\ used.failures \in 0 .. MaxFailures /\ used.crashes \in 0 .. MaxCrashes
           /\ \A u \in Items : /\ srv[u] \in R!Row /\ srv[u].version \in Nat
                               /\ srv[u].base \in Nat
                               /\ IsFiniteSet(Waiting(u)) /\ Cardinality(Waiting(u)) \in Nat
<1>1. \A u \in Items : IsFiniteSet(Waiting(u)) /\ Cardinality(Waiting(u)) \in Nat
  <2> SUFFICES ASSUME NEW u \in Items
               PROVE  IsFiniteSet(Waiting(u)) /\ Cardinality(Waiting(u)) \in Nat
    OBVIOUS
  <2>1. IsFiniteSet(Devices) /\ Waiting(u) \subseteq Devices
    BY SizesFacts DEF Waiting
  <2>2. IsFiniteSet(Waiting(u))
    BY <2>1, FS_Subset
  <2> QED BY <2>2, FS_CardinalityType
<1>2. \A u \in Items : srv[u] \in R!Row /\ srv[u].version \in Nat /\ srv[u].base \in Nat
  BY SizesFacts DEF R!TypeOK, R!Row, R!Versions
<1> QED BY <1>1, <1>2, SizesFacts DEF R!TypeOK, R!Keys

(* A step that writes no item, and after which no rotation has an item     *)
(* that it did not have, leaves room.                                      *)
LEMMA RoomKeeps ==
    ASSUME Sizes, R!TypeOK, R!TypeOK', Room, used'.edits >= used.edits, made' >= made,
           \A u \in Items : srv'[u].version = srv[u].version,
           \A u \in Items : Waiting(u)' \subseteq Waiting(u)
    PROVE  Room'
<1> SUFFICES ASSUME NEW u \in Items
             PROVE  srv'[u].version + Cardinality(Waiting(u)') <= 1 + used'.edits + made'
  BY DEF Room
<1>1. /\ Cardinality(Waiting(u)') \in Nat /\ Cardinality(Waiting(u)) \in Nat
      /\ Cardinality(Waiting(u)') <= Cardinality(Waiting(u))
  BY RoomTyped, FewerWait
<1>2. used.edits \in Nat /\ made \in Nat /\ srv[u].version \in Nat /\ used'.edits \in Nat /\ made' \in Nat
  BY RoomTyped, SizesFacts DEF R!TypeOK, R!Keys
<1>3. srv[u].version + Cardinality(Waiting(u)) <= 1 + used.edits + made
  BY DEF Room
<1> QED BY <1>1, <1>2, <1>3

(* A rotation that goes on with the same generation, or ends.              *)
LEMMA RotationKeeps ==
    ASSUME Sizes, RotationInv, NEW d \in Devices, NEW r, rot' = [rot EXCEPT ![d] = r],
           r = NoTask \/ (Running(d) /\ r \in R!Rotation /\ r.gen = rot[d].gen /\ Apart(r)),
           UNCHANGED <<minGen, blob, had, mem, sess, save, made>>,
           srv' \in [Items -> R!Row], loc' \in [Devices -> [Items -> R!Row \cup {NoRow}]],
           used' \in [edits : 0..MaxEdits, failures : 0..MaxFailures, crashes : 0..MaxCrashes]
    PROVE  R!TypeOK' /\ GensFit' /\ OneEach'
<1>0. rot \in [Devices -> R!Rotation \cup {NoTask}]
  BY DEF RotationInv, R!TypeOK
<1>1. rot' \in [Devices -> R!Rotation \cup {NoTask}]
  BY <1>0
<1>2. R!TypeOK'
  BY <1>1 DEF RotationInv, R!TypeOK, R!Keys, R!Gens
<1>3. \A x \in Devices : rot'[x] = IF x = d THEN r ELSE rot[x]
  BY <1>0
<1>4. GensFit'
  BY <1>3 DEF RotationInv, GensFit, Running
<1>5. OneEach'
  BY <1>3 DEF RotationInv, OneEach, Running
<1> QED BY <1>2, <1>4, <1>5

(* After it, the rotation of d has the items of r and the others have      *)
(* theirs.                                                                 *)
LEMMA WaitingAfter ==
    ASSUME NEW d \in Devices, NEW r, rot \in [Devices -> R!Rotation \cup {NoTask}],
           rot' = [rot EXCEPT ![d] = r], NEW u
    PROVE  /\ Waiting(u)' \ {d} = Waiting(u) \ {d}
           /\ d \in Waiting(u)' <=> r # NoTask /\ PendingIn(r, u)
           /\ d \in Waiting(u) <=> rot[d] # NoTask /\ PendingIn(rot[d], u)
<1>1. \A x \in Devices : rot'[x] = IF x = d THEN r ELSE rot[x]
  OBVIOUS
<1>2. \A x \in Devices : Pending(x, u)' <=> IF x = d THEN r # NoTask /\ PendingIn(r, u) ELSE Pending(x, u)
  BY <1>1 DEF Pending, Running, PendingIn
<1>3. Pending(d, u) <=> rot[d] # NoTask /\ PendingIn(rot[d], u)
  BY DEF Pending, Running
<1> QED BY <1>2, <1>3 DEF Waiting

(* A step outside of rotate_key that writes nothing on the server.         *)
LEMMA OutsideKeeps ==
    ASSUME Sizes, RotationInv, R!TypeOK', UNCHANGED <<rot, srv, minGen, made>>,
           used'.edits >= used.edits,
           \A d \in Devices : sess'[d].gen <= minGen /\ (mem'[d] # NoTask => mem'[d].gen <= minGen)
    PROVE  RotationInv'
<1>1. GensFit' /\ OneEach'
  BY DEF RotationInv, GensFit, OneEach, Running
<1>2. \A u \in Items : Waiting(u)' \subseteq Waiting(u)
  BY DEF Waiting, Pending, Running
<1>3. made' >= made /\ made \in Nat
  BY RoomTyped DEF RotationInv
<1>4. Room'
  BY <1>2, <1>3, RoomKeeps DEF RotationInv
<1> QED BY <1>1, <1>4 DEF RotationInv

LEMMA UsedKeeps ==
    ASSUME Sizes, R!TypeOK, NEW what \in {"edits", "failures", "crashes"}, R!Use(what),
           R!May(what, IF what = "edits" THEN MaxEdits
                       ELSE IF what = "failures" THEN MaxFailures ELSE MaxCrashes)
    PROVE  /\ used' \in [edits : 0..MaxEdits, failures : 0..MaxFailures, crashes : 0..MaxCrashes]
           /\ used'.edits = IF what = "edits" THEN used.edits + 1 ELSE used.edits
           /\ used'.edits >= used.edits
<1>1. used \in [edits : 0..MaxEdits, failures : 0..MaxFailures, crashes : 0..MaxCrashes]
  BY DEF R!TypeOK
<1>2. CASE what = "edits"
  BY <1>1, <1>2, SizesFacts DEF R!Use, R!May
<1>3. CASE what = "failures"
  BY <1>1, <1>3, SizesFacts DEF R!Use, R!May
<1>4. CASE what = "crashes"
  BY <1>1, <1>4, SizesFacts DEF R!Use, R!May
<1> QED BY <1>2, <1>3, <1>4

LEMMA SyncKeeps ==
    ASSUME Sizes, RotationInv, NEW d \in Devices, R!Sync(d)
    PROVE  RotationInv'
<1>1. /\ mem[d] # NoTask /\ mem[d] \in R!Session /\ minGen \in R!Gens /\ srv \in [Items -> R!Row]
      /\ mem \in [Devices -> R!Session \cup {NoTask}]
      /\ loc \in [Devices -> [Items -> R!Row \cup {NoRow}]]
      /\ had \in [Devices -> [Items -> R!Versions \cup {0}]]
  BY DEF R!Sync, R!Unlocked, RotationInv, R!TypeOK
<1>2. mem' \in [Devices -> R!Session \cup {NoTask}]
  BY <1>1 DEF R!Sync, R!Session
<1>3. [u \in Items |-> IF had[d][u] = srv[u].version THEN loc[d][u]
                       ELSE IF srv[u].live THEN srv[u] ELSE NoRow] \in [Items -> R!Row \cup {NoRow}]
  BY <1>1
<1>4. loc' \in [Devices -> [Items -> R!Row \cup {NoRow}]]
  BY <1>1, <1>3 DEF R!Sync
<1>5. [u \in Items |-> srv[u].version] \in [Items -> R!Versions \cup {0}]
  BY <1>1 DEF R!Row
<1>6. had' \in [Devices -> [Items -> R!Versions \cup {0}]]
  BY <1>1, <1>5 DEF R!Sync
<1>7. UNCHANGED <<srv, minGen, blob, sess, rot, save, made, used>>
  BY DEF R!Sync, R!server
<1>8. R!TypeOK'
  BY <1>2, <1>4, <1>6, <1>7 DEF RotationInv, R!TypeOK
<1>9. \A x \in Devices : sess'[x].gen <= minGen /\ (mem'[x] # NoTask => mem'[x].gen <= minGen)
  <2>1. \A x \in Devices : mem'[x] # NoTask => mem[x] # NoTask /\ mem'[x].gen = mem[x].gen
    BY <1>1 DEF R!Sync, R!Session
  <2> QED BY <2>1, <1>7 DEF RotationInv, GensFit
<1>10. used'.edits >= used.edits
  BY <1>7, RoomTyped DEF RotationInv
<1> QED BY <1>7, <1>8, <1>9, <1>10, OutsideKeeps

LEMMA SaveCheckKeeps ==
    ASSUME Sizes, RotationInv, NEW d \in Devices, NEW u \in Items, R!SaveCheck(d, u)
    PROVE  RotationInv'
<1>1. UNCHANGED <<srv, minGen, blob, loc, had, mem, sess, rot, made>>
  BY DEF R!SaveCheck, R!server, R!local
<1>2. /\ used' \in [edits : 0..MaxEdits, failures : 0..MaxFailures, crashes : 0..MaxCrashes]
      /\ used'.edits >= used.edits
  BY UsedKeeps DEF R!SaveCheck, RotationInv
<1>3. mem[d] \in R!Session /\ loc[d][u] \in R!Row
  BY DEF R!SaveCheck, R!Unlocked, R!HasLocal, RotationInv, R!TypeOK
<1>4. [u |-> u, base |-> loc[d][u].base, key |-> mem[d].svk, gen |-> mem[d].gen] \in R!Saving
  BY <1>3 DEF R!Saving, R!Session, R!Row
<1>5. save' \in [Devices -> R!Saving \cup {NoTask}]
  BY <1>4 DEF R!SaveCheck, RotationInv, R!TypeOK
<1>6. R!TypeOK'
  BY <1>1, <1>2, <1>5 DEF RotationInv, R!TypeOK
<1>7. \A x \in Devices : sess'[x].gen <= minGen /\ (mem'[x] # NoTask => mem'[x].gen <= minGen)
  BY <1>1 DEF RotationInv, GensFit
<1> QED BY <1>1, <1>2, <1>6, <1>7, OutsideKeeps

LEMMA SaveCommitKeeps ==
    ASSUME Sizes, RotationInv, NEW d \in Devices, R!SaveCommit(d)
    PROVE  RotationInv'
<1>1. UNCHANGED <<srv, minGen, blob, had, mem, sess, rot, made, used>>
  BY DEF R!SaveCommit, R!server
<1>2. save[d] \in R!Saving /\ loc \in [Devices -> [Items -> R!Row \cup {NoRow}]]
  BY DEF R!SaveCommit, RotationInv, R!TypeOK
<1>3. 1 \in R!Versions
  BY SizesFacts DEF R!Versions
<1> DEFINE v == IF R!HasLocal(d, save[d].u) THEN loc[d][save[d].u].version ELSE 1
           row == [version |-> v, base |-> save[d].base, key |-> save[d].key,
                   gen |-> save[d].gen, live |-> TRUE]
<1>4. v \in R!Versions
  BY <1>2, <1>3 DEF R!HasLocal, R!Row, R!Saving
<1>5. row \in R!Row
  BY <1>4, <1>2 DEF R!Saving, R!Row
<1>6. loc' = [loc EXCEPT ![d] = [loc[d] EXCEPT ![save[d].u] = row]]
  BY DEF R!SaveCommit
<1>7. loc' \in [Devices -> [Items -> R!Row \cup {NoRow}]]
  BY <1>2, <1>5, <1>6
<1>8. save' \in [Devices -> R!Saving \cup {NoTask}]
  BY DEF R!SaveCommit, RotationInv, R!TypeOK
<1>9. R!TypeOK'
  BY <1>1, <1>7, <1>8 DEF RotationInv, R!TypeOK
<1>10. \A x \in Devices : sess'[x].gen <= minGen /\ (mem'[x] # NoTask => mem'[x].gen <= minGen)
  BY <1>1 DEF RotationInv, GensFit
<1>11. used'.edits >= used.edits
  BY <1>1, RoomTyped DEF RotationInv
<1> QED BY <1>1, <1>9, <1>10, <1>11, OutsideKeeps

(* A login, and a session restored.                                        *)
LEMMA UnlockKeeps ==
    ASSUME Sizes, RotationInv, NEW d \in Devices, R!Unlock(d) \/ R!Restore(d)
    PROVE  RotationInv'
<1>1. UNCHANGED <<srv, minGen, blob, loc, had, rot, save, made, used>>
  BY DEF R!Unlock, R!Restore, R!server, R!local
<1>2. /\ blob \in R!Keys /\ minGen \in R!Gens /\ minGen \in Int
      /\ sess \in [Devices -> [svk : R!Keys, gen : R!Gens]]
      /\ mem \in [Devices -> R!Session \cup {NoTask}]
  BY DEF RotationInv, R!TypeOK, R!Gens
<1>3. mem' \in [Devices -> R!Session \cup {NoTask}] /\ sess' \in [Devices -> [svk : R!Keys, gen : R!Gens]]
  BY <1>2 DEF R!Unlock, R!Restore, R!Session, R!local
<1>4. R!TypeOK'
  BY <1>1, <1>3 DEF RotationInv, R!TypeOK
<1>5. \A x \in Devices : sess[x].gen <= minGen /\ (mem[x] # NoTask => mem[x].gen <= minGen)
  BY DEF RotationInv, GensFit
<1>6. \A x \in Devices : sess'[x].gen <= minGen /\ (mem'[x] # NoTask => mem'[x].gen <= minGen)
  BY <1>2, <1>5 DEF R!Unlock, R!Restore, R!local, R!Gens
<1>7. used'.edits >= used.edits
  BY <1>1, RoomTyped DEF RotationInv
<1> QED BY <1>1, <1>4, <1>6, <1>7, OutsideKeeps

(* A write on the server.                                                  *)
LEMMA WriteTyped ==
    ASSUME R!TypeOK, NEW u \in Items, NEW base \in R!Versions, NEW key \in R!Keys,
           NEW gen \in R!Gens, NEW live \in BOOLEAN, srv[u].version + 1 \in R!Versions,
           R!Write(u, base, key, gen, live)
    PROVE  /\ srv' \in [Items -> R!Row]
           /\ srv'[u] = [version |-> srv[u].version + 1, base |-> base, key |-> key,
                         gen |-> gen, live |-> live]
           /\ \A w \in Items \ {u} : srv'[w] = srv[w]
<1>1. srv \in [Items -> R!Row]
  BY DEF R!TypeOK
<1>2. [version |-> srv[u].version + 1, base |-> base, key |-> key, gen |-> gen, live |-> live] \in R!Row
  BY DEF R!Row
<1> QED BY <1>1, <1>2 DEF R!Write

LEMMA EditKeeps ==
    ASSUME Sizes, RotationInv, NEW d \in Devices, NEW u \in Items, NEW live \in BOOLEAN,
           R!Edit(d, u, live)
    PROVE  RotationInv'
<1>1. UNCHANGED <<minGen, blob, mem, sess, rot, save, made>>
  BY DEF R!Edit
<1>2. /\ used' \in [edits : 0..MaxEdits, failures : 0..MaxFailures, crashes : 0..MaxCrashes]
      /\ used'.edits = used.edits + 1
  BY UsedKeeps DEF R!Edit, RotationInv
<1>3. /\ used.edits < MaxEdits /\ used.edits \in Nat /\ made \in 0..MaxKeys
      /\ srv[u].version \in Nat /\ srv[u].version >= 1 /\ Cardinality(Waiting(u)) \in Nat
      /\ MaxEdits \in Nat /\ MaxKeys \in Nat
  <2>1. srv[u] \in R!Row /\ used.edits \in 0..MaxEdits /\ made \in 0..MaxKeys
        /\ Cardinality(Waiting(u)) \in Nat /\ MaxEdits \in Nat /\ MaxKeys \in Nat
    BY RoomTyped, SizesFacts DEF RotationInv
  <2>2. srv[u].version \in Nat /\ srv[u].version >= 1
    BY <2>1 DEF R!Row, R!Versions
  <2>3. used.edits < MaxEdits
    BY DEF R!Edit, R!May
  <2> QED BY <2>1, <2>2, <2>3
<1>4. srv[u].version + Cardinality(Waiting(u)) <= 1 + used.edits + made
  BY DEF RotationInv, Room
<1>5. srv[u].version + 1 \in R!Versions
  BY <1>3, <1>4 DEF R!Versions
<1>6. mem[d] \in R!Session
  BY DEF R!Edit, R!Unlocked, RotationInv, R!TypeOK
<1>7. mem[d].svk \in R!Keys /\ mem[d].gen \in R!Gens
  BY <1>6 DEF R!Session
<1>8. R!Write(u, srv[u].version + 1, mem[d].svk, mem[d].gen, live)
  BY DEF R!Edit
<1>9. /\ srv' \in [Items -> R!Row] /\ srv'[u].version = srv[u].version + 1
      /\ \A w \in Items \ {u} : srv'[w] = srv[w]
  <2>1. R!TypeOK
    BY DEF RotationInv
  <2>2. /\ srv' \in [Items -> R!Row]
        /\ srv'[u] = [version |-> srv[u].version + 1, base |-> srv[u].version + 1,
                      key |-> mem[d].svk, gen |-> mem[d].gen, live |-> live]
        /\ \A w \in Items \ {u} : srv'[w] = srv[w]
    BY <2>1, <1>5, <1>7, <1>8, WriteTyped
  <2> QED BY <2>2
<1>10. loc' \in [Devices -> [Items -> R!Row \cup {NoRow}]]
  BY <1>9 DEF R!Edit, RotationInv, R!TypeOK
<1>11. had' \in [Devices -> [Items -> R!Versions \cup {0}]]
  <2>1. srv'[u].version \in R!Versions
    BY <1>9, <1>5
  <2> QED BY <2>1 DEF R!Edit, RotationInv, R!TypeOK
<1>12. R!TypeOK'
  BY <1>1, <1>2, <1>9, <1>10, <1>11 DEF RotationInv, R!TypeOK
<1>13. GensFit' /\ OneEach'
  BY <1>1 DEF RotationInv, GensFit, OneEach, Running
<1>14. Room'
  <2> SUFFICES ASSUME NEW w \in Items
               PROVE  srv'[w].version + Cardinality(Waiting(w)') <= 1 + used'.edits + made'
    BY DEF Room
  <2>1. Waiting(w)' = Waiting(w)
    BY <1>1 DEF Waiting, Pending, Running
  <2>2. srv'[w].version <= srv[w].version + 1 /\ srv[w].version \in Nat /\ srv'[w].version \in Nat
    BY <1>9, RoomTyped DEF RotationInv
  <2>3. Cardinality(Waiting(w)) \in Nat /\ Cardinality(Waiting(w)') = Cardinality(Waiting(w))
    BY <2>1, RoomTyped DEF RotationInv
  <2>4. srv[w].version + Cardinality(Waiting(w)) <= 1 + used.edits + made
    BY DEF RotationInv, Room
  <2> QED BY <2>2, <2>3, <2>4, <1>1, <1>2, <1>3
<1> QED BY <1>12, <1>13, <1>14 DEF RotationInv

LEMMA CrashKeeps ==
    ASSUME Sizes, RotationInv, NEW d \in Devices, R!Crash(d)
    PROVE  RotationInv'
<1>1. UNCHANGED <<srv, minGen, blob, loc, had, sess, made>>
  BY DEF R!Crash, R!server, R!local
<1>2. /\ used' \in [edits : 0..MaxEdits, failures : 0..MaxFailures, crashes : 0..MaxCrashes]
      /\ used'.edits >= used.edits
  BY UsedKeeps DEF R!Crash, RotationInv
<1>3. /\ mem' \in [Devices -> R!Session \cup {NoTask}]
      /\ rot' \in [Devices -> R!Rotation \cup {NoTask}]
      /\ save' \in [Devices -> R!Saving \cup {NoTask}]
  BY DEF R!Crash, RotationInv, R!TypeOK
<1>4. R!TypeOK'
  BY <1>1, <1>2, <1>3 DEF RotationInv, R!TypeOK
<1>5. \A x \in Devices : (rot'[x] # NoTask => rot'[x] = rot[x]) /\ (mem'[x] # NoTask => mem'[x] = mem[x])
  BY DEF R!Crash, RotationInv, R!TypeOK
<1>6. GensFit' /\ OneEach'
  BY <1>1, <1>5 DEF RotationInv, GensFit, OneEach, Running
<1>7. \A u \in Items : Waiting(u)' \subseteq Waiting(u)
  BY <1>5 DEF Waiting, Pending, Running
<1>8. made' >= made
  BY <1>1, RoomTyped DEF RotationInv
<1>9. Room'
  BY <1>1, <1>2, <1>4, <1>7, <1>8, RoomKeeps DEF RotationInv
<1> QED BY <1>4, <1>6, <1>9 DEF RotationInv

(* The server's side of a rotation's first call.                           *)
LEMMA ServerRotates ==
    ASSUME Sizes, RotationInv, NEW d \in Devices, R!Unlocked(d), made < MaxKeys, made' = made + 1,
           R!RotateServer(made', mem[d].gen + 1)
    PROVE  /\ minGen' \in R!Gens /\ blob' \in R!Keys /\ UNCHANGED srv /\ made' \in R!Keys
           /\ minGen \in Nat /\ minGen <= minGen' /\ minGen' <= made' + 1
<1>1. /\ mem[d] \in R!Session /\ made \in R!Keys /\ blob \in R!Keys /\ minGen \in R!Gens
      /\ mem[d].gen \in R!Gens
  BY DEF R!Unlocked, RotationInv, R!TypeOK, R!Session
<1>2. mem[d].gen <= minGen /\ minGen <= made + 1
  BY DEF RotationInv, GensFit, R!Unlocked
<1>3. MaxKeys \in Nat /\ made \in 0..MaxKeys /\ minGen \in Nat /\ mem[d].gen \in Nat /\ minGen >= 1
  BY <1>1, SizesFacts DEF R!Keys, R!Gens
<1>4. made' \in R!Keys
  BY <1>3 DEF R!Keys
<1>5. CASE mem[d].gen + 1 > minGen
  BY <1>1, <1>2, <1>3, <1>4, <1>5 DEF R!RotateServer, R!Gens
<1>6. CASE ~(mem[d].gen + 1 > minGen)
  BY <1>1, <1>2, <1>3, <1>4, <1>6 DEF R!RotateServer, R!server
<1> QED BY <1>5, <1>6

LEMMA RotateCallKeeps ==
    ASSUME Sizes, RotationInv, NEW d \in Devices, R!RotateCall(d)
    PROVE  RotationInv'
<1> DEFINE r == [pc |-> "list", old |-> mem[d].svk, new |-> made', gen |-> minGen',
                 todo |-> {}, batch |-> {}, clashes |-> {}]
<1>1. /\ R!Unlocked(d) /\ rot[d] = NoTask /\ made < MaxKeys /\ made' = made + 1
      /\ R!RotateServer(made', mem[d].gen + 1)
      /\ mem' = [mem EXCEPT ![d] = [mem[d] EXCEPT !.min = minGen']]
      /\ rot' = [rot EXCEPT ![d] = r]
      /\ UNCHANGED <<loc, had, sess, save, used>>
  BY DEF R!RotateCall, R!local
<1>2. /\ minGen' \in R!Gens /\ blob' \in R!Keys /\ UNCHANGED srv /\ made' \in R!Keys
      /\ minGen \in Nat /\ minGen <= minGen' /\ minGen' <= made' + 1
  BY <1>1, ServerRotates
<1>3. /\ mem \in [Devices -> R!Session \cup {NoTask}] /\ mem[d] \in R!Session
      /\ rot \in [Devices -> R!Rotation \cup {NoTask}]
  BY <1>1 DEF RotationInv, R!TypeOK, R!Unlocked
<1>4. r \in R!Rotation
  BY <1>2, <1>3 DEF R!Rotation, R!Session
<1>5. [mem[d] EXCEPT !.min = minGen'] \in R!Session /\ [mem[d] EXCEPT !.min = minGen'].gen = mem[d].gen
  BY <1>2, <1>3 DEF R!Session
<1>6. R!TypeOK'
  <2>1. mem' \in [Devices -> R!Session \cup {NoTask}] /\ rot' \in [Devices -> R!Rotation \cup {NoTask}]
    BY <1>1, <1>3, <1>4, <1>5
  <2> QED BY <2>1, <1>1, <1>2 DEF RotationInv, R!TypeOK
<1>7. GensFit'
  <2>1. \A x \in Devices : mem'[x] # NoTask => mem[x] # NoTask /\ mem'[x].gen = mem[x].gen
    BY <1>1, <1>3, <1>5 DEF R!Unlocked
  <2>2. \A x \in Devices : rot'[x] # NoTask =>
          rot'[x].gen = minGen' \/ (Running(x) /\ rot'[x].gen = rot[x].gen)
    BY <1>1, <1>3 DEF Running
  <2>3. \A x \in Devices : /\ sess[x].gen <= minGen /\ sess[x].gen \in Int
                           /\ mem[x] # NoTask => mem[x].gen <= minGen /\ mem[x].gen \in Int
                           /\ Running(x) => rot[x].gen <= minGen /\ rot[x].gen \in Int
    BY <1>3 DEF RotationInv, R!TypeOK, GensFit, Running, R!Session, R!Rotation, R!Gens
  <2>4. minGen' \in Int
    BY <1>2 DEF R!Gens
  <2> QED BY <2>1, <2>2, <2>3, <2>4, <1>1, <1>2 DEF GensFit, Running
<1>8. OneEach'
  <2>1. Apart(r)
    BY DEF Apart
  <2>2. \A x \in Devices : rot'[x] = IF x = d THEN r ELSE rot[x]
    BY <1>1, <1>3
  <2> QED BY <2>1, <2>2 DEF RotationInv, OneEach, Running
<1>9. Room'
  <2> SUFFICES ASSUME NEW u \in Items
               PROVE  srv'[u].version + Cardinality(Waiting(u)') <= 1 + used'.edits + made'
    BY DEF Room
  <2>1. Waiting(u)' \subseteq Waiting(u) \cup {d}
    BY <1>1, <1>3, WaitingAfter
  <2>2. /\ Cardinality(Waiting(u)') \in Nat /\ Cardinality(Waiting(u)) \in Nat
        /\ Cardinality(Waiting(u)') <= Cardinality(Waiting(u)) + 1
    BY <2>1, RoomTyped, OneMore DEF RotationInv
  <2>3. srv[u].version + Cardinality(Waiting(u)) <= 1 + used.edits + made
    BY DEF RotationInv, Room
  <2>4. srv[u].version \in Nat /\ used.edits \in Nat /\ made \in Nat
    BY RoomTyped DEF RotationInv
  <2> QED BY <2>2, <2>3, <2>4, <1>1, <1>2
<1> QED BY <1>6, <1>7, <1>8, <1>9 DEF RotationInv

LEMMA RotateReplyLostKeeps ==
    ASSUME Sizes, RotationInv, NEW d \in Devices, R!RotateReplyLost(d)
    PROVE  RotationInv'
<1>1. /\ R!Unlocked(d) /\ made < MaxKeys /\ made' = made + 1
      /\ R!RotateServer(made', mem[d].gen + 1)
      /\ UNCHANGED <<loc, had, sess, mem, rot, save>>
  BY DEF R!RotateReplyLost, R!local
<1>2. /\ minGen' \in R!Gens /\ blob' \in R!Keys /\ UNCHANGED srv /\ made' \in R!Keys
      /\ minGen \in Nat /\ minGen <= minGen' /\ minGen' <= made' + 1
  BY <1>1, ServerRotates
<1>3. /\ used' \in [edits : 0..MaxEdits, failures : 0..MaxFailures, crashes : 0..MaxCrashes]
      /\ used'.edits >= used.edits
  BY UsedKeeps DEF R!RotateReplyLost, RotationInv
<1>4. R!TypeOK'
  BY <1>1, <1>2, <1>3 DEF RotationInv, R!TypeOK
<1>5. GensFit'
  <2>3. \A x \in Devices : /\ sess[x].gen <= minGen /\ sess[x].gen \in Int
                           /\ mem[x] # NoTask => mem[x].gen <= minGen /\ mem[x].gen \in Int
                           /\ Running(x) => rot[x].gen <= minGen /\ rot[x].gen \in Int
    BY DEF RotationInv, R!TypeOK, GensFit, Running, R!Session, R!Rotation, R!Gens
  <2>4. minGen' \in Int
    BY <1>2 DEF R!Gens
  <2> QED BY <2>3, <2>4, <1>1, <1>2 DEF GensFit, Running
<1>6. OneEach'
  BY <1>1 DEF RotationInv, OneEach, Running
<1>7. \A u \in Items : Waiting(u)' \subseteq Waiting(u)
  BY <1>1 DEF Waiting, Pending, Running
<1>8. made' >= made
  BY <1>1, RoomTyped DEF RotationInv
<1>9. Room'
  BY <1>1, <1>2, <1>3, <1>4, <1>7, <1>8, RoomKeeps DEF RotationInv
<1> QED BY <1>4, <1>5, <1>6, <1>9 DEF RotationInv

(* A step of the rotation of d that writes nothing on the server, after    *)
(* which it has no item that it did not have.                              *)
LEMMA InsideKeeps ==
    ASSUME Sizes, RotationInv, NEW d \in Devices, NEW r, rot' = [rot EXCEPT ![d] = r],
           r = NoTask \/ (/\ Running(d) /\ r \in R!Rotation /\ r.gen = rot[d].gen /\ Apart(r)
                          /\ \A u \in Items : PendingIn(r, u) => PendingIn(rot[d], u)),
           UNCHANGED <<srv, minGen, blob, had, mem, sess, save, made>>,
           loc' \in [Devices -> [Items -> R!Row \cup {NoRow}]],
           used' \in [edits : 0..MaxEdits, failures : 0..MaxFailures, crashes : 0..MaxCrashes],
           used'.edits >= used.edits
    PROVE  RotationInv'
<1>0. srv' \in [Items -> R!Row] /\ rot \in [Devices -> R!Rotation \cup {NoTask}]
  BY DEF RotationInv, R!TypeOK
<1>1. R!TypeOK' /\ GensFit' /\ OneEach'
  BY <1>0, RotationKeeps
<1>2. \A u \in Items : Waiting(u)' \subseteq Waiting(u)
  <2> SUFFICES ASSUME NEW u \in Items PROVE Waiting(u)' \subseteq Waiting(u)
    OBVIOUS
  <2>1. /\ Waiting(u)' \ {d} = Waiting(u) \ {d}
        /\ d \in Waiting(u)' <=> r # NoTask /\ PendingIn(r, u)
        /\ d \in Waiting(u) <=> rot[d] # NoTask /\ PendingIn(rot[d], u)
    BY <1>0, WaitingAfter
  <2>2. d \in Waiting(u)' => d \in Waiting(u)
    BY <2>1 DEF Running
  <2> QED BY <2>1, <2>2
<1>3. made' >= made
  BY RoomTyped DEF RotationInv
<1>4. Room'
  BY <1>1, <1>2, <1>3, RoomKeeps DEF RotationInv
<1> QED BY <1>1, <1>4 DEF RotationInv

LEMMA UsedSame ==
    ASSUME Sizes, R!TypeOK, UNCHANGED used
    PROVE  /\ used' \in [edits : 0..MaxEdits, failures : 0..MaxFailures, crashes : 0..MaxCrashes]
           /\ used'.edits >= used.edits
BY RoomTyped DEF R!TypeOK

LEMMA RotateFailKeeps ==
    ASSUME Sizes, RotationInv, NEW d \in Devices, R!RotateFail(d)
    PROVE  RotationInv'
<1>1. /\ rot' = [rot EXCEPT ![d] = NoTask]
      /\ UNCHANGED <<srv, minGen, blob, loc, had, mem, sess, save, made>>
  BY DEF R!RotateFail, R!Fail, R!server, R!local
<1>2. /\ used' \in [edits : 0..MaxEdits, failures : 0..MaxFailures, crashes : 0..MaxCrashes]
      /\ used'.edits >= used.edits
  BY UsedKeeps DEF R!RotateFail, RotationInv
<1>3. loc' \in [Devices -> [Items -> R!Row \cup {NoRow}]]
  BY <1>1 DEF RotationInv, R!TypeOK
<1> QED BY <1>1, <1>2, <1>3, InsideKeeps

(* The entries of RotateList: the local rows that are behind.              *)
Listed(d) ==
    {[u |-> u, row |-> loc[d][u]] : u \in {w \in Items : R!HasLocal(d, w) /\ loc[d][w].gen < rot[d].gen}}

LEMMA RotateListKeeps ==
    ASSUME Sizes, RotationInv, NEW d \in Devices, R!RotateList(d)
    PROVE  RotationInv'
<1> DEFINE r == [rot[d] EXCEPT !.pc = "items", !.todo = Listed(d)]
<1>1. /\ Running(d) /\ rot[d].pc = "list" /\ rot' = [rot EXCEPT ![d] = r]
      /\ UNCHANGED <<srv, minGen, blob, loc, had, mem, sess, save, made, used>>
  BY DEF R!RotateList, R!At, Running, Listed, R!server, R!local
<1>2. /\ rot[d] \in R!Rotation /\ Apart(rot[d]) /\ loc \in [Devices -> [Items -> R!Row \cup {NoRow}]]
      /\ R!TypeOK
  BY <1>1 DEF RotationInv, R!TypeOK, Running, OneEach
<1>3. Listed(d) \subseteq R!Entry
  BY <1>2 DEF Listed, R!HasLocal, R!Entry
<1>4. /\ r \in R!Rotation /\ r.gen = rot[d].gen /\ r.pc = "items" /\ r.todo = Listed(d)
      /\ r.batch = rot[d].batch /\ r.clashes = rot[d].clashes
  BY <1>2, <1>3 DEF R!Rotation
<1>5. \A a, b \in Listed(d) : a.u = b.u => a = b
  BY DEF Listed
<1>6. Apart(r)
  BY <1>1, <1>2, <1>4, <1>5 DEF Apart
<1>7. \A u \in Items : PendingIn(r, u) => PendingIn(rot[d], u)
  BY <1>1 DEF PendingIn
<1>8. loc' \in [Devices -> [Items -> R!Row \cup {NoRow}]]
  BY <1>1, <1>2
<1> HIDE DEF r
<1> QED BY <1>1, <1>2, <1>4, <1>6, <1>7, <1>8, UsedSame, InsideKeeps

LEMMA RotateItemKeeps ==
    ASSUME Sizes, RotationInv, NEW d \in Devices, Running(d), NEW e \in rot[d].todo, R!RotateItem(d, e)
    PROVE  RotationInv'
<1>1. /\ UNCHANGED <<srv, minGen, blob, had, mem, sess, save, made, used>>
      /\ rot[d] \in R!Rotation /\ Apart(rot[d]) /\ loc \in [Devices -> [Items -> R!Row \cup {NoRow}]]
      /\ R!TypeOK
  BY DEF R!RotateItem, R!server, RotationInv, R!TypeOK, Running, OneEach
<1>2. CASE e.row.key # rot[d].old
  <2>1. rot' = [rot EXCEPT ![d] = NoTask] /\ UNCHANGED loc
    BY <1>2 DEF R!RotateItem, R!Fail
  <2> QED BY <1>1, <2>1, UsedSame, InsideKeeps
<1>3. CASE ~(e.row.key # rot[d].old)
  <2> DEFINE r == [rot[d] EXCEPT !.todo = rot[d].todo \ {e}, !.batch = rot[d].batch \cup {e}]
             row == [loc[d][e.u] EXCEPT !.key = rot[d].new, !.gen = rot[d].gen, !.base = e.row.base]
  <2>1. /\ rot' = [rot EXCEPT ![d] = r]
        /\ loc' = IF R!HasLocal(d, e.u)
                  THEN [loc EXCEPT ![d] = [loc[d] EXCEPT ![e.u] = row]] ELSE loc
    BY <1>3 DEF R!RotateItem
  <2>2. e \in R!Entry /\ e.u \in Items /\ e.row \in R!Row
    BY <1>1 DEF R!Rotation, R!Entry
  <2>3. R!HasLocal(d, e.u) => row \in R!Row
    <3>1. R!HasLocal(d, e.u) => loc[d][e.u] \in R!Row
      BY <1>1, <2>2 DEF R!HasLocal
    <3>2. rot[d].new \in R!Keys /\ rot[d].gen \in R!Gens /\ e.row.base \in R!Versions
      BY <1>1, <2>2 DEF R!Rotation, R!Row
    <3> QED BY <3>1, <3>2 DEF R!Row
  <2>4. loc' \in [Devices -> [Items -> R!Row \cup {NoRow}]]
    BY <1>1, <2>1, <2>2, <2>3
  <2>5. /\ r \in R!Rotation /\ r.gen = rot[d].gen /\ r.pc = rot[d].pc /\ r.todo = rot[d].todo \ {e}
        /\ r.batch = rot[d].batch \cup {e} /\ r.clashes = rot[d].clashes
    BY <1>1, <2>2 DEF R!Rotation
  <2>6. rot[d].pc = "items"
    BY DEF R!RotateItem, R!At
  <2>7. r.todo \cup r.batch = rot[d].todo \cup rot[d].batch
    BY <2>5
  <2> HIDE DEF r
  <2>8. Apart(r)
    BY <1>1, <2>5, <2>6, <2>7 DEF Apart
  <2>9. \A u \in Items : PendingIn(r, u) => PendingIn(rot[d], u)
    BY <2>5, <2>7 DEF PendingIn
  <2> QED BY <1>1, <2>1, <2>4, <2>5, <2>8, <2>9, UsedSame, InsideKeeps
<1> QED BY <1>2, <1>3

(* The steps between items and between batches.                            *)
LEMMA RotateTurnsKeep ==
    ASSUME Sizes, RotationInv, NEW d \in Devices, R!RotateBatch(d) \/ R!RotateOutcomes(d)
    PROVE  RotationInv'
<1>1. /\ UNCHANGED <<srv, minGen, blob, loc, had, mem, sess, save, made, used>> /\ Running(d)
      /\ rot[d].pc \in {"items", "push"}
  BY DEF R!RotateBatch, R!RotateOutcomes, R!At, R!server, R!local, Running
<1>2. PICK pc \in {"items", "push", "clashes"} : rot' = [rot EXCEPT ![d] = [rot[d] EXCEPT !.pc = pc]]
  BY DEF R!RotateBatch, R!RotateOutcomes
<1>3. /\ rot[d] \in R!Rotation /\ Apart(rot[d]) /\ R!TypeOK
      /\ loc' \in [Devices -> [Items -> R!Row \cup {NoRow}]]
  BY <1>1 DEF RotationInv, R!TypeOK, Running, OneEach
<1> DEFINE r == [rot[d] EXCEPT !.pc = pc]
<1>4. /\ r \in R!Rotation /\ r.gen = rot[d].gen /\ r.pc = pc /\ r.todo = rot[d].todo
      /\ r.batch = rot[d].batch /\ r.clashes = rot[d].clashes
  BY <1>3 DEF R!Rotation
<1>5. rot' = [rot EXCEPT ![d] = r]
  BY <1>2
<1> HIDE DEF r
<1>6. Apart(r)
  BY <1>3, <1>4 DEF Apart
<1>7. \A u \in Items : PendingIn(r, u) => PendingIn(rot[d], u)
  BY <1>4 DEF PendingIn
<1> QED BY <1>1, <1>3, <1>4, <1>5, <1>6, <1>7, UsedSame, InsideKeeps

(* There is room for the write of a rotation that has the item.            *)
LEMMA PushFits ==
    ASSUME Sizes, RotationInv, NEW d \in Devices, Running(d), NEW u \in Items, PendingIn(rot[d], u)
    PROVE  srv[u].version + 1 \in R!Versions
<1>1. d \in Waiting(u)
  BY DEF Waiting, Pending
<1>2. Cardinality(Waiting(u)) >= 1
  <2>1. {} \subseteq Waiting(u) \ {d} /\ IsFiniteSet(Waiting(u))
    BY RoomTyped DEF RotationInv
  <2>2. Cardinality({}) + 1 <= Cardinality(Waiting(u)) /\ Cardinality(Waiting(u)) \in Nat
    BY <1>1, <2>1, OneLess
  <2> QED BY <2>2, FS_EmptySet
<1>3. srv[u].version + Cardinality(Waiting(u)) <= 1 + used.edits + made
  BY DEF RotationInv, Room
<1>4. /\ srv[u].version \in Nat /\ used.edits \in 0..MaxEdits /\ made \in 0..MaxKeys
      /\ Cardinality(Waiting(u)) \in Nat /\ MaxEdits \in Nat /\ MaxKeys \in Nat
  BY RoomTyped, SizesFacts DEF RotationInv
<1> QED BY <1>2, <1>3, <1>4 DEF R!Versions

(* A rotation that writes an item has it no more.                          *)
LEMMA PushKeeps ==
    ASSUME Sizes, RotationInv, NEW d \in Devices, Running(d), NEW r, rot' = [rot EXCEPT ![d] = r],
           r \in R!Rotation, r.gen = rot[d].gen, Apart(r),
           \A w \in Items : PendingIn(r, w) => PendingIn(rot[d], w),
           NEW u \in Items, PendingIn(rot[d], u), ~PendingIn(r, u),
           NEW base \in R!Versions, R!Write(u, base, rot[d].new, rot[d].gen, TRUE),
           UNCHANGED <<minGen, blob, loc, had, mem, sess, save, made, used>>
    PROVE  RotationInv'
<1>1. srv[u].version + 1 \in R!Versions
  BY PushFits
<1>2. /\ rot[d].new \in R!Keys /\ rot[d].gen \in R!Gens /\ R!TypeOK
      /\ rot \in [Devices -> R!Rotation \cup {NoTask}]
  BY DEF RotationInv, R!TypeOK, Running, R!Rotation
<1>3. /\ srv' \in [Items -> R!Row]
      /\ srv'[u] = [version |-> srv[u].version + 1, base |-> base, key |-> rot[d].new,
                    gen |-> rot[d].gen, live |-> TRUE]
      /\ \A w \in Items \ {u} : srv'[w] = srv[w]
  BY <1>1, <1>2, WriteTyped
<1>4. R!TypeOK' /\ GensFit' /\ OneEach'
  <2>1. loc' \in [Devices -> [Items -> R!Row \cup {NoRow}]]
    BY <1>2 DEF R!TypeOK
  <2> QED BY <1>2, <1>3, <2>1, UsedSame, RotationKeeps
<1>5. Room'
  <2> SUFFICES ASSUME NEW w \in Items
               PROVE  srv'[w].version + Cardinality(Waiting(w)') <= 1 + used'.edits + made'
    BY DEF Room
  <2>1. /\ Waiting(w)' \ {d} = Waiting(w) \ {d}
        /\ d \in Waiting(w)' <=> r # NoTask /\ PendingIn(r, w)
        /\ d \in Waiting(w) <=> rot[d] # NoTask /\ PendingIn(rot[d], w)
    BY <1>2, WaitingAfter
  <2>2. srv[w].version + Cardinality(Waiting(w)) <= 1 + used.edits + made
    BY DEF RotationInv, Room
  <2>3. srv[w].version \in Nat /\ used.edits \in Nat /\ made \in Nat /\ IsFiniteSet(Waiting(w))
    BY RoomTyped DEF RotationInv
  <2>4. CASE w = u
    <3>1. d \in Waiting(w) /\ Waiting(w)' \subseteq Waiting(w) \ {d}
      BY <2>1, <2>4 DEF Running
    <3>2. /\ Cardinality(Waiting(w)') \in Nat /\ Cardinality(Waiting(w)) \in Nat
          /\ Cardinality(Waiting(w)') + 1 <= Cardinality(Waiting(w))
      BY <3>1, <2>3, OneLess
    <3>3. srv'[w].version = srv[w].version + 1
      BY <1>3, <2>4
    <3> QED BY <3>2, <3>3, <2>2, <2>3
  <2>5. CASE w # u
    <3>1. Waiting(w)' \subseteq Waiting(w)
      BY <2>1 DEF Running
    <3>2. /\ Cardinality(Waiting(w)') \in Nat /\ Cardinality(Waiting(w)) \in Nat
          /\ Cardinality(Waiting(w)') <= Cardinality(Waiting(w))
      BY <3>1, <2>3, FewerWait
    <3> QED BY <3>2, <2>2, <2>3, <1>3, <2>5
  <2> QED BY <2>4, <2>5
<1> QED BY <1>4, <1>5 DEF RotationInv

LEMMA RotatePushKeeps ==
    ASSUME Sizes, RotationInv, NEW d \in Devices, Running(d), NEW e \in rot[d].batch, R!RotatePush(d, e)
    PROVE  RotationInv'
<1>1. /\ UNCHANGED <<minGen, blob, loc, had, mem, sess, save, made, used>>
      /\ rot[d] \in R!Rotation /\ Apart(rot[d]) /\ R!TypeOK /\ rot[d].pc = "push"
      /\ loc' \in [Devices -> [Items -> R!Row \cup {NoRow}]]
  BY DEF R!RotatePush, R!local, R!At, RotationInv, R!TypeOK, Running, OneEach
<1>2. e \in R!Entry /\ e.u \in Items /\ e.row \in R!Row /\ e.row.base \in R!Versions
  BY <1>1 DEF R!Rotation, R!Entry, R!Row
<1>3. PendingIn(rot[d], e.u)
  BY DEF PendingIn
<1>4. CASE rot[d].gen < minGen
  <2>1. rot' = [rot EXCEPT ![d] = NoTask] /\ UNCHANGED srv
    BY <1>4 DEF R!RotatePush, R!Fail
  <2> QED BY <1>1, <2>1, UsedSame, InsideKeeps
<1>5. CASE ~(rot[d].gen < minGen) /\ R!Accepts(e.u, e.row.version, rot[d].gen)
  <2> DEFINE r == [rot[d] EXCEPT !.batch = rot[d].batch \ {e}]
  <2>1. rot' = [rot EXCEPT ![d] = r] /\ R!Write(e.u, e.row.base, rot[d].new, rot[d].gen, TRUE)
    BY <1>5 DEF R!RotatePush
  <2>2. /\ r \in R!Rotation /\ r.gen = rot[d].gen /\ r.pc = rot[d].pc /\ r.todo = rot[d].todo
        /\ r.batch = rot[d].batch \ {e} /\ r.clashes = rot[d].clashes
    BY <1>1 DEF R!Rotation
  <2> HIDE DEF r
  <2>3. Apart(r)
    BY <1>1, <2>2 DEF Apart
  <2>4. \A u \in Items : PendingIn(r, u) => PendingIn(rot[d], u)
    BY <2>2 DEF PendingIn
  <2>5. ~PendingIn(r, e.u)
    BY <1>1, <2>2 DEF PendingIn, Apart
  <2> QED BY <1>1, <1>2, <1>3, <2>1, <2>2, <2>3, <2>4, <2>5, PushKeeps
<1>6. CASE ~(rot[d].gen < minGen) /\ ~R!Accepts(e.u, e.row.version, rot[d].gen)
  <2> DEFINE c == [u |-> e.u, row |-> e.row, fetched |-> FALSE, version |-> srv[e.u].version]
             r == [rot[d] EXCEPT !.batch = rot[d].batch \ {e}, !.clashes = rot[d].clashes \cup {c}]
  <2>1. rot' = [rot EXCEPT ![d] = r] /\ UNCHANGED srv
    BY <1>6 DEF R!RotatePush
  <2>2. c \in R!Clash /\ c.u = e.u
    <3>1. srv[e.u].version \in R!Versions
      BY <1>1, <1>2 DEF R!TypeOK, R!Row
    <3> QED BY <3>1, <1>2 DEF R!Clash
  <2> HIDE DEF c
  <2>3. /\ r \in R!Rotation /\ r.gen = rot[d].gen /\ r.pc = rot[d].pc /\ r.todo = rot[d].todo
        /\ r.batch = rot[d].batch \ {e} /\ r.clashes = rot[d].clashes \cup {c}
    BY <1>1, <2>2 DEF R!Rotation
  <2> HIDE DEF r
  <2>4. Apart(r)
    BY <1>1, <2>2, <2>3 DEF Apart
  <2>5. \A u \in Items : PendingIn(r, u) => PendingIn(rot[d], u)
    BY <2>2, <2>3 DEF PendingIn
  <2> QED BY <1>1, <2>1, <2>3, <2>4, <2>5, UsedSame, InsideKeeps
<1> QED BY <1>4, <1>5, <1>6

LEMMA ClashFetchKeeps ==
    ASSUME Sizes, RotationInv, NEW d \in Devices, Running(d), NEW c \in rot[d].clashes, R!ClashFetch(d, c)
    PROVE  RotationInv'
<1>1. /\ UNCHANGED <<srv, minGen, blob, loc, had, mem, sess, save, made, used>>
      /\ rot[d] \in R!Rotation /\ Apart(rot[d]) /\ R!TypeOK /\ rot[d].pc = "clashes"
      /\ loc' \in [Devices -> [Items -> R!Row \cup {NoRow}]]
  BY DEF R!ClashFetch, R!server, R!local, R!At, RotationInv, R!TypeOK, Running, OneEach
<1> DEFINE b == [c EXCEPT !.fetched = TRUE, !.row = srv[c.u]]
           r == [rot[d] EXCEPT !.clashes = (rot[d].clashes \ {c}) \cup {b}]
<1>2. rot' = [rot EXCEPT ![d] = NoTask] \/ rot' = [rot EXCEPT ![d] = r]
  BY DEF R!ClashFetch, R!Fail
<1>3. CASE rot' = [rot EXCEPT ![d] = NoTask]
  BY <1>1, <1>3, UsedSame, InsideKeeps
<1>4. CASE rot' = [rot EXCEPT ![d] = r]
  <2>1. b \in R!Clash /\ b.u = c.u
    <3>1. c \in R!Clash
      BY <1>1 DEF R!Rotation
    <3>2. srv[c.u] \in R!Row
      BY <1>1, <3>1 DEF R!TypeOK, R!Clash
    <3> QED BY <3>1, <3>2 DEF R!Clash
  <2> HIDE DEF b
  <2>2. /\ r \in R!Rotation /\ r.gen = rot[d].gen /\ r.pc = rot[d].pc /\ r.todo = rot[d].todo
        /\ r.batch = rot[d].batch /\ r.clashes = (rot[d].clashes \ {c}) \cup {b}
    BY <1>1, <2>1 DEF R!Rotation
  <2> HIDE DEF r
  <2>3. Apart(r)
    BY <1>1, <2>1, <2>2 DEF Apart
  <2>4. \A u \in Items : PendingIn(r, u) => PendingIn(rot[d], u)
    BY <2>1, <2>2 DEF PendingIn
  <2> QED BY <1>1, <1>4, <2>2, <2>3, <2>4, UsedSame, InsideKeeps
<1> QED BY <1>2, <1>3, <1>4

LEMMA ClashPushKeeps ==
    ASSUME Sizes, RotationInv, NEW d \in Devices, Running(d), NEW c \in rot[d].clashes, R!ClashPush(d, c)
    PROVE  RotationInv'
<1>1. /\ UNCHANGED <<minGen, blob, loc, had, mem, sess, save, made, used>>
      /\ rot[d] \in R!Rotation /\ Apart(rot[d]) /\ R!TypeOK /\ rot[d].pc = "clashes"
      /\ loc' \in [Devices -> [Items -> R!Row \cup {NoRow}]]
  BY DEF R!ClashPush, R!local, R!At, RotationInv, R!TypeOK, Running, OneEach
<1>2. c \in R!Clash /\ c.u \in Items /\ c.row.base \in R!Versions
  BY <1>1 DEF R!Rotation, R!Clash, R!Row
<1>3. PendingIn(rot[d], c.u)
  BY DEF PendingIn
<1>4. CASE ~R!Accepts(c.u, c.version, rot[d].gen)
  <2>1. rot' = [rot EXCEPT ![d] = NoTask] /\ UNCHANGED srv
    BY <1>4 DEF R!ClashPush, R!Fail
  <2> QED BY <1>1, <2>1, UsedSame, InsideKeeps
<1>5. CASE R!Accepts(c.u, c.version, rot[d].gen)
  <2> DEFINE pc == IF rot[d].clashes = {c} THEN "items" ELSE rot[d].pc
             r == [rot[d] EXCEPT !.clashes = rot[d].clashes \ {c}, !.pc = pc]
  <2>1. rot' = [rot EXCEPT ![d] = r] /\ R!Write(c.u, c.row.base, rot[d].new, rot[d].gen, TRUE)
    BY <1>5 DEF R!ClashPush
  <2>2. pc \in {"items", "clashes"}
    BY <1>1
  <2> HIDE DEF pc
  <2>3. /\ r \in R!Rotation /\ r.gen = rot[d].gen /\ r.pc = pc /\ r.todo = rot[d].todo
        /\ r.batch = rot[d].batch /\ r.clashes = rot[d].clashes \ {c}
    BY <1>1, <2>2 DEF R!Rotation
  <2> HIDE DEF r
  <2>4. Apart(r)
    BY <1>1, <2>2, <2>3 DEF Apart
  <2>5. \A u \in Items : PendingIn(r, u) => PendingIn(rot[d], u)
    BY <2>2, <2>3 DEF PendingIn
  <2>6. ~PendingIn(r, c.u)
    BY <1>1, <2>2, <2>3 DEF PendingIn, Apart
  <2> QED BY <1>1, <1>2, <1>3, <2>1, <2>3, <2>4, <2>5, <2>6, PushKeeps
<1> QED BY <1>4, <1>5

LEMMA RotatePromoteKeeps ==
    ASSUME Sizes, RotationInv, NEW d \in Devices, R!RotatePromote(d)
    PROVE  RotationInv'
<1> DEFINE m == [svk |-> rot[d].new, gen |-> rot[d].gen, min |-> rot[d].gen]
<1>1. /\ UNCHANGED <<srv, minGen, blob, loc, had, sess, save, made, used>> /\ Running(d)
      /\ mem' = [mem EXCEPT ![d] = m] /\ rot' = [rot EXCEPT ![d] = NoTask]
  BY DEF R!RotatePromote, R!server, R!local, R!At, Running
<1>2. /\ rot[d] \in R!Rotation /\ mem \in [Devices -> R!Session \cup {NoTask}]
      /\ rot \in [Devices -> R!Rotation \cup {NoTask}]
  BY <1>1 DEF RotationInv, R!TypeOK, Running
<1>3. m \in R!Session /\ m.gen = rot[d].gen /\ rot[d].gen <= minGen
  BY <1>1, <1>2 DEF R!Rotation, R!Session, RotationInv, GensFit
<1> HIDE DEF m
<1>4. mem' \in [Devices -> R!Session \cup {NoTask}] /\ rot' \in [Devices -> R!Rotation \cup {NoTask}]
  BY <1>1, <1>2, <1>3
<1>5. R!TypeOK'
  BY <1>1, <1>4 DEF RotationInv, R!TypeOK
<1>6. \A x \in Devices : /\ mem'[x] = IF x = d THEN m ELSE mem[x]
                         /\ rot'[x] = IF x = d THEN NoTask ELSE rot[x]
  BY <1>1, <1>2
<1>7. GensFit' /\ OneEach'
  BY <1>1, <1>3, <1>6 DEF RotationInv, GensFit, OneEach, Running
<1>8. \A u \in Items : Waiting(u)' \subseteq Waiting(u)
  BY <1>6 DEF Waiting, Pending, Running
<1>9. made' >= made /\ used'.edits >= used.edits
  BY <1>1, RoomTyped DEF RotationInv
<1>10. Room'
  BY <1>1, <1>5, <1>8, <1>9, RoomKeeps DEF RotationInv
<1> QED BY <1>5, <1>7, <1>10 DEF RotationInv

LEMMA RotationStarts ==
    ASSUME Sizes, NEW unsynced, NEW deleted, R!InitOf(unsynced, deleted)
    PROVE  /\ RotationInv
           /\ \A d \in Devices : rot[d] = NoTask /\ save[d] = NoTask /\ mem[d] = [svk |-> 0, gen |-> 1, min |-> 1]
           /\ \A u \in Items : srv[u] = [version |-> 1, base |-> 1, key |-> 0, gen |-> 1,
                                         live |-> u \notin deleted]
           /\ made = 0 /\ minGen = 1 /\ blob = 0
           /\ \A d \in Devices, u \in Items :
                loc[d][u] = IF u \in unsynced \cup deleted THEN NoRow ELSE R!FirstRow
           /\ \A d \in Devices : mem[d] # NoTask
<1>1. /\ MaxKeys \in Nat /\ MaxEdits \in Nat /\ MaxFailures \in Nat /\ MaxCrashes \in Nat
      /\ NoTask \notin R!Session
  BY SizesFacts
<1>2. 0 \in R!Keys /\ 1 \in R!Gens /\ 1 \in R!Versions
  BY <1>1 DEF R!Keys, R!Gens, R!Versions
<1>3. [svk |-> 0, gen |-> 1, min |-> 1] \in R!Session /\ [svk |-> 0, gen |-> 1] \in [svk : R!Keys, gen : R!Gens]
  BY <1>2 DEF R!Session
<1>4. R!FirstRow \in R!Row
  BY <1>2 DEF R!FirstRow, R!Row
<1>5. \A u \in Items : srv[u] = [version |-> 1, base |-> 1, key |-> 0, gen |-> 1, live |-> u \notin deleted]
  BY DEF R!InitOf, R!FirstRow
<1>6. srv \in [Items -> R!Row]
  <2>1. srv = [u \in Items |-> [R!FirstRow EXCEPT !.live = u \notin deleted]]
    BY DEF R!InitOf
  <2>2. \A u \in Items : [R!FirstRow EXCEPT !.live = u \notin deleted] \in R!Row
    BY <1>4 DEF R!Row
  <2> QED BY <2>1, <2>2
<1>7. loc \in [Devices -> [Items -> R!Row \cup {NoRow}]]
  BY <1>4 DEF R!InitOf
<1>8. had \in [Devices -> [Items -> R!Versions \cup {0}]]
  BY <1>2 DEF R!InitOf
<1>9. R!TypeOK
  BY <1>1, <1>2, <1>3, <1>6, <1>7, <1>8 DEF R!InitOf, R!TypeOK
<1>10. \A d \in Devices : rot[d] = NoTask /\ save[d] = NoTask /\ mem[d] = [svk |-> 0, gen |-> 1, min |-> 1]
  BY DEF R!InitOf
<1>11. GensFit /\ OneEach
  BY <1>10 DEF GensFit, OneEach, Running, R!InitOf
<1>12. Room
  <2> SUFFICES ASSUME NEW u \in Items
               PROVE  srv[u].version + Cardinality(Waiting(u)) <= 1 + used.edits + made
    BY DEF Room
  <2>1. Waiting(u) = {}
    BY <1>10 DEF Waiting, Pending, Running
  <2>2. Cardinality(Waiting(u)) = 0
    BY <2>1, FS_EmptySet
  <2>3. srv[u].version = 1 /\ used.edits = 0 /\ made = 0
    BY <1>5 DEF R!InitOf
  <2> QED BY <2>2, <2>3
<1>13. \A d \in Devices : mem[d] # NoTask
  BY <1>1, <1>3, <1>10
<1>14. /\ made = 0 /\ minGen = 1 /\ blob = 0
       /\ \A d \in Devices, u \in Items :
            loc[d][u] = IF u \in unsynced \cup deleted THEN NoRow ELSE R!FirstRow
  BY DEF R!InitOf
<1> QED BY <1>5, <1>9, <1>10, <1>11, <1>12, <1>13, <1>14 DEF RotationInv

(* A behaviour starts from InitOf of some sets of items.                   *)
LEMMA MixStarts ==
    ASSUME MCInit
    PROVE  /\ mix \in Mixes
           /\ mix # "faults" => R!InitOf(Unsynced, {})
           /\ \E unsynced, deleted : R!InitOf(unsynced, deleted)
BY DEF MCInit, R!Init

(* The steps of Next, by kind.                                             *)
LEMMA MixSteps ==
    ASSUME MCNext
    PROVE  /\ mix' = mix /\ InMix'
           /\ \E d \in Devices :
                \/ R!RotateCall(d) \/ R!RotateReplyLost(d) \/ R!RotateList(d)
                \/ Running(d) /\ \E e \in rot[d].todo : R!RotateItem(d, e)
                \/ R!RotateBatch(d) \/ R!RotateOutcomes(d)
                \/ Running(d) /\ \E e \in rot[d].batch : R!RotatePush(d, e)
                \/ Running(d) /\ \E c \in rot[d].clashes : R!ClashFetch(d, c)
                \/ Running(d) /\ \E c \in rot[d].clashes : R!ClashPush(d, c)
                \/ R!RotateFail(d) \/ R!RotatePromote(d)
                \/ \E u \in Items, live \in BOOLEAN : R!Edit(d, u, live)
                \/ mix # "faults" /\ R!Sync(d)
                \/ \E u \in Items : R!SaveCheck(d, u)
                \/ R!SaveCommit(d)
                \/ R!Crash(d)
                \/ R!Unlock(d)
                \/ R!Restore(d)
BY DEF MCNext, R!Rotate, Running

LEMMA RotationInvStep ==
    ASSUME Sizes, RotationInv, MCNext
    PROVE  RotationInv'
<1>1. PICK d \in Devices :
                \/ R!RotateCall(d) \/ R!RotateReplyLost(d) \/ R!RotateList(d)
                \/ Running(d) /\ \E e \in rot[d].todo : R!RotateItem(d, e)
                \/ R!RotateBatch(d) \/ R!RotateOutcomes(d)
                \/ Running(d) /\ \E e \in rot[d].batch : R!RotatePush(d, e)
                \/ Running(d) /\ \E c \in rot[d].clashes : R!ClashFetch(d, c)
                \/ Running(d) /\ \E c \in rot[d].clashes : R!ClashPush(d, c)
                \/ R!RotateFail(d) \/ R!RotatePromote(d)
                \/ \E u \in Items, live \in BOOLEAN : R!Edit(d, u, live)
                \/ R!Sync(d)
                \/ \E u \in Items : R!SaveCheck(d, u)
                \/ R!SaveCommit(d)
                \/ R!Crash(d)
                \/ R!Unlock(d)
                \/ R!Restore(d)
  BY MixSteps
<1>2. CASE R!RotateCall(d)
  BY <1>2, RotateCallKeeps
<1>3. CASE R!RotateReplyLost(d)
  BY <1>3, RotateReplyLostKeeps
<1>4. CASE R!RotateList(d)
  BY <1>4, RotateListKeeps
<1>5. CASE Running(d) /\ \E e \in rot[d].todo : R!RotateItem(d, e)
  BY <1>5, RotateItemKeeps
<1>6. CASE R!RotateBatch(d) \/ R!RotateOutcomes(d)
  BY <1>6, RotateTurnsKeep
<1>7. CASE Running(d) /\ \E e \in rot[d].batch : R!RotatePush(d, e)
  BY <1>7, RotatePushKeeps
<1>8. CASE Running(d) /\ \E c \in rot[d].clashes : R!ClashFetch(d, c)
  BY <1>8, ClashFetchKeeps
<1>9. CASE Running(d) /\ \E c \in rot[d].clashes : R!ClashPush(d, c)
  BY <1>9, ClashPushKeeps
<1>10. CASE R!RotateFail(d)
  BY <1>10, RotateFailKeeps
<1>11. CASE R!RotatePromote(d)
  BY <1>11, RotatePromoteKeeps
<1>12. CASE \E u \in Items, live \in BOOLEAN : R!Edit(d, u, live)
  BY <1>12, EditKeeps
<1>13. CASE R!Sync(d)
  BY <1>13, SyncKeeps
<1>14. CASE \E u \in Items : R!SaveCheck(d, u)
  BY <1>14, SaveCheckKeeps
<1>15. CASE R!SaveCommit(d)
  BY <1>15, SaveCommitKeeps
<1>16. CASE R!Crash(d)
  BY <1>16, CrashKeeps
<1>17. CASE R!Unlock(d) \/ R!Restore(d)
  BY <1>17, UnlockKeeps
<1> QED BY <1>1, <1>2, <1>3, <1>4, <1>5, <1>6, <1>7, <1>8, <1>9, <1>10, <1>11, <1>12, <1>13, <1>14,
           <1>15, <1>16, <1>17

LEMMA RotationInvRests ==
    ASSUME RotationInv, UNCHANGED <<R!vars, mix>>
    PROVE  RotationInv'
<1>1. UNCHANGED <<srv, minGen, blob, loc, had, mem, sess, rot, save, made, used>>
  BY DEF R!vars, R!server, R!local
<1>2. R!TypeOK' /\ GensFit' /\ OneEach'
  BY <1>1 DEF RotationInv, R!TypeOK, GensFit, OneEach, Running
<1>3. Room'
  <2>1. \A u \in Items : Waiting(u)' = Waiting(u)
    BY <1>1 DEF Waiting, Pending, Running
  <2> QED BY <1>1, <2>1 DEF RotationInv, Room
<1> QED BY <1>2, <1>3 DEF RotationInv

LEMMA RotationInvariant ==
    ASSUME Sizes
    PROVE  MCSpec => []RotationInv
<1>1. MCInit => RotationInv
  BY MixStarts, RotationStarts
<1>2. RotationInv /\ [MCNext]_<<R!vars, mix>> => RotationInv'
  BY RotationInvStep, RotationInvRests
<1> QED BY <1>1, <1>2, PTL DEF MCSpec

(* rotate_key on any number of devices: the tables, the devices' rows and  *)
(* keys and the rotations that run keep their types, and an item is        *)
(* written by each edit and by each rotation at most once.                 *)
THEOREM RotationTypeCorrect == MCSpec => []RotationTyped
<1> USE SizesAssumption
<1>1. RotationInv => RotationTyped
  BY DEF RotationInv, RotationTyped
<1> QED BY <1>1, RotationInvariant, PTL

-----------------------------------------------------------------------------
(* One rotation that nothing interrupts. Key and generation go together;   *)
(* an item is under the latest key unless the rotation still has it, and   *)
(* then it is under the first one, where the rotation can decrypt it.      *)
RowsOld(d) == \A u \in Items : R!HasLocal(d, u) /\ loc[d][u].key = 0 /\ loc[d][u].gen = 1
GoesWell(r) ==
    /\ r.old = 0 /\ r.new = 1 /\ r.gen = 2
    /\ \A e \in r.todo \cup r.batch : e.row.key = 0 /\ e.row.gen = 1
    /\ \A c \in r.clashes : c.row.gen = 1 /\ c.version = srv[c.u].version
    /\ r.pc = "items" => r.clashes = {}
Clean ==
    /\ InMix
    /\ minGen = made + 1 /\ blob = made
    /\ \A d \in Devices : /\ mem[d] # NoTask /\ mem[d].gen = mem[d].svk + 1
                          /\ Running(d) => made = 1 /\ GoesWell(rot[d])
                          /\ made = 0 \/ (Running(d) /\ rot[d].pc = "list") => RowsOld(d)
    /\ \A u \in Items : /\ srv[u].gen = srv[u].key + 1
                        /\ srv[u].key = made \/ \E d \in Devices : Pending(d, u)
                        /\ \A d \in Devices : Pending(d, u) => srv[u].key = 0
CleanInv == mix = "clean" => Clean

(* What InMix says of a clean behaviour.                                   *)
LEMMA InMixFacts ==
    ASSUME mix = "clean", InMix
    PROVE  /\ made <= 1 /\ used.failures = 0 /\ used.crashes = 0
           /\ \A d \in Devices : save[d] = NoTask /\ (d # d1 => rot[d] = NoTask)
           /\ \A u \in Items : srv[u].live
BY DEF InMix

(* A step of the one rotation: what it writes is under the new key, and it *)
(* has the item no more.                                                   *)
LEMMA CleanRotation ==
    ASSUME mix = "clean", Clean, InMix', NEW d \in Devices, Running(d), rot[d] \in R!Rotation,
           rot \in [Devices -> R!Rotation \cup {NoTask}],
           NEW r, rot' = [rot EXCEPT ![d] = r], r.pc # "list", GoesWell(r)', r # NoTask,
           UNCHANGED <<minGen, blob, mem, made>>,
           \A u \in Items : \/ srv'[u] = srv[u] /\ (PendingIn(r, u) <=> PendingIn(rot[d], u))
                            \/ srv'[u].key = 1 /\ srv'[u].gen = 2 /\ ~PendingIn(r, u)
    PROVE  Clean'
<1>1. \A x \in Devices : rot'[x] = IF x = d THEN r ELSE rot[x]
  OBVIOUS
<1>2. \A x \in Devices : x # d => rot[x] = NoTask
  BY InMixFacts DEF Clean, Running
<1>3. made = 1
  BY DEF Clean
<1>4. \A x \in Devices : /\ mem'[x] # NoTask /\ mem'[x].gen = mem'[x].svk + 1
                         /\ rot'[x] # NoTask => made' = 1 /\ GoesWell(rot[x])'
                         /\ ~(made' = 0 \/ (rot'[x] # NoTask /\ rot'[x].pc = "list"))
  <2>1. \A x \in Devices : mem'[x] # NoTask /\ mem'[x].gen = mem'[x].svk + 1
    BY DEF Clean
  <2>2. \A x \in Devices : rot'[x] # NoTask => x = d /\ rot'[x] = r
    BY <1>1, <1>2
  <2>3. \A x \in Devices : rot'[x] = r => GoesWell(rot[x])'
    BY DEF GoesWell
  <2> QED BY <2>1, <2>2, <2>3, <1>3
<1>5. \A x \in Devices, u \in Items : Pending(x, u)' <=> x = d /\ PendingIn(r, u)
  BY <1>1, <1>2 DEF Pending, Running, PendingIn
<1>6. \A x \in Devices, u \in Items : Pending(x, u) <=> x = d /\ PendingIn(rot[d], u)
  BY <1>2 DEF Pending, Running
<1>7. \A u \in Items : /\ srv'[u].gen = srv'[u].key + 1
                       /\ srv'[u].key = made' \/ \E x \in Devices : Pending(x, u)'
                       /\ \A x \in Devices : Pending(x, u)' => srv'[u].key = 0
  <2> SUFFICES ASSUME NEW u \in Items
               PROVE  /\ srv'[u].gen = srv'[u].key + 1
                      /\ srv'[u].key = made' \/ \E x \in Devices : Pending(x, u)'
                      /\ \A x \in Devices : Pending(x, u)' => srv'[u].key = 0
    OBVIOUS
  <2>1. /\ srv[u].gen = srv[u].key + 1
        /\ srv[u].key = made \/ \E x \in Devices : Pending(x, u)
        /\ \A x \in Devices : Pending(x, u) => srv[u].key = 0
    BY DEF Clean
  <2>2. CASE srv'[u] = srv[u] /\ (PendingIn(r, u) <=> PendingIn(rot[d], u))
    BY <2>1, <2>2, <1>5, <1>6
  <2>3. CASE srv'[u].key = 1 /\ srv'[u].gen = 2 /\ ~PendingIn(r, u)
    BY <2>3, <1>3, <1>5
  <2> QED BY <2>2, <2>3
<1>8. minGen' = made' + 1 /\ blob' = made'
  BY DEF Clean
<1> QED BY <1>4, <1>7, <1>8 DEF Clean, Running

LEMMA CleanCall ==
    ASSUME Sizes, mix = "clean", Clean, RotationInv, RotationInv', InMix', mix' = mix, NEW d \in Devices,
           R!RotateCall(d)
    PROVE  Clean'
<1> DEFINE r == [pc |-> "list", old |-> mem[d].svk, new |-> made', gen |-> minGen',
                 todo |-> {}, batch |-> {}, clashes |-> {}]
<1>1. /\ R!Unlocked(d) /\ rot[d] = NoTask /\ made' = made + 1
      /\ R!RotateServer(made', mem[d].gen + 1)
      /\ mem' = [mem EXCEPT ![d] = [mem[d] EXCEPT !.min = minGen']]
      /\ rot' = [rot EXCEPT ![d] = r]
      /\ UNCHANGED loc
  BY DEF R!RotateCall, R!local
<1>2. made = 0 /\ made' = 1
  <2>1. made' <= 1 /\ made \in Nat
    BY RoomTyped, InMixFacts DEF RotationInv, InMix
  <2> QED BY <2>1, <1>1
<1>3. /\ mem \in [Devices -> R!Session \cup {NoTask}] /\ rot \in [Devices -> R!Rotation \cup {NoTask}]
      /\ mem[d] \in R!Session /\ mem' \in [Devices -> R!Session \cup {NoTask}]
      /\ mem[d].svk \in Nat
  BY <1>1, SizesFacts DEF RotationInv, R!TypeOK, R!Unlocked, R!Session, R!Keys
<1>4. mem[d].gen <= minGen /\ minGen = 1 /\ blob = 0 /\ mem[d].gen = mem[d].svk + 1
  BY <1>1, <1>2 DEF RotationInv, GensFit, Clean, R!Unlocked
<1>5. mem[d].svk = 0 /\ mem[d].gen = 1
  BY <1>3, <1>4
<1>6. minGen' = 2 /\ blob' = 1 /\ UNCHANGED srv
  BY <1>1, <1>2, <1>4, <1>5 DEF R!RotateServer
<1>7. \A x \in Devices : rot[x] = NoTask
  BY <1>2 DEF Clean, Running
<1>8. \A x \in Devices : rot'[x] = IF x = d THEN r ELSE NoTask
  BY <1>1, <1>3, <1>7
<1>9. \A x \in Devices : mem'[x] # NoTask /\ mem'[x].gen = mem'[x].svk + 1
  <2>1. \A x \in Devices : mem[x] # NoTask /\ mem[x].gen = mem[x].svk + 1
    BY DEF Clean
  <2>2. [mem[d] EXCEPT !.min = minGen'] \in R!Session
    BY <1>3, <1>6 DEF R!Session, RotationInv, R!TypeOK
  <2>3. [mem[d] EXCEPT !.min = minGen'] # NoTask
    BY <2>2, SizesFacts
  <2>4. /\ [mem[d] EXCEPT !.min = minGen'].gen = mem[d].gen
        /\ [mem[d] EXCEPT !.min = minGen'].svk = mem[d].svk
    BY <1>3 DEF R!Session
  <2>5. \A x \in Devices : mem'[x] = IF x = d THEN [mem[d] EXCEPT !.min = minGen'] ELSE mem[x]
    BY <1>1, <1>3
  <2> QED BY <2>1, <2>3, <2>4, <2>5
<1>10. GoesWell(rot[d])'
  <2>1. rot'[d] = [pc |-> "list", old |-> 0, new |-> 1, gen |-> 2, todo |-> {}, batch |-> {}, clashes |-> {}]
    BY <1>2, <1>5, <1>6, <1>8
  <2> QED BY <2>1 DEF GoesWell
<1>11. r # NoTask
  <2>1. rot'[d] = r
    BY <1>8
  <2>2. r \in R!Rotation
    BY <1>3, <1>5, <1>6, <1>2 DEF RotationInv, R!TypeOK, R!Rotation, R!Session
  <2> QED BY <2>2, SizesFacts
<1>12. \A x \in Devices : RowsOld(x)'
  BY <1>1, <1>2 DEF Clean, RowsOld, R!HasLocal
<1>13. \A u \in Items : /\ srv'[u].gen = srv'[u].key + 1 /\ Pending(d, u)' /\ srv'[u].key = 0
  <2>1. \A u \in Items : Pending(d, u)'
    BY <1>8, <1>11 DEF Pending, Running, PendingIn
  <2>2. \A u \in Items : \A x \in Devices : ~Pending(x, u)
    BY <1>7 DEF Pending, Running
  <2> QED BY <2>1, <2>2, <1>2, <1>6 DEF Clean
<1>14. \A x \in Devices : rot'[x] # NoTask => x = d /\ GoesWell(rot[x])'
  BY <1>8, <1>10
<1> QED BY <1>2, <1>6, <1>9, <1>12, <1>13, <1>14 DEF Clean, Running

LEMMA CleanList ==
    ASSUME Sizes, mix = "clean", Clean, RotationInv, InMix', NEW d \in Devices, R!RotateList(d)
    PROVE  Clean'
<1>0. PICK r : r = [rot[d] EXCEPT !.pc = "items", !.todo = Listed(d)]
  OBVIOUS
<1>1. /\ Running(d) /\ rot[d].pc = "list" /\ rot' = [rot EXCEPT ![d] = r]
      /\ UNCHANGED <<srv, minGen, blob, mem, made>>
  BY <1>0 DEF R!RotateList, R!At, Running, Listed, R!server, R!local
<1>2. /\ rot \in [Devices -> R!Rotation \cup {NoTask}] /\ rot[d] \in R!Rotation /\ Apart(rot[d])
      /\ GoesWell(rot[d]) /\ RowsOld(d)
  BY <1>1 DEF RotationInv, R!TypeOK, OneEach, Running, Clean
<1>3. /\ r.pc = "items" /\ r.todo = Listed(d) /\ r.batch = {} /\ r.clashes = {}
      /\ r.old = rot[d].old /\ r.new = rot[d].new /\ r.gen = rot[d].gen
  BY <1>0, <1>1, <1>2 DEF R!Rotation, Apart
<1>4. r # NoTask
  <2>1. Listed(d) \subseteq R!Entry
    BY DEF Listed, R!HasLocal, R!Entry, RotationInv, R!TypeOK
  <2>2. r \in R!Rotation
    BY <1>0, <1>2, <2>1 DEF R!Rotation
  <2> QED BY <2>2, SizesFacts
<1>5. \A e \in Listed(d) : e.row.key = 0 /\ e.row.gen = 1
  BY <1>2 DEF Listed, RowsOld
<1>6. \A u \in Items : \E e \in Listed(d) : e.u = u
  <2> SUFFICES ASSUME NEW u \in Items PROVE \E e \in Listed(d) : e.u = u
    OBVIOUS
  <2>1. R!HasLocal(d, u) /\ loc[d][u].gen < rot[d].gen
    BY <1>2 DEF RowsOld, GoesWell
  <2>2. [u |-> u, row |-> loc[d][u]] \in Listed(d)
    BY <2>1 DEF Listed
  <2> QED BY <2>2
<1>7. GoesWell(r)'
  BY <1>2, <1>3, <1>5 DEF GoesWell
<1>8. \A u \in Items : PendingIn(r, u) <=> PendingIn(rot[d], u)
  BY <1>1, <1>3, <1>6 DEF PendingIn
<1>9. r.pc # "list"
  BY <1>3
<1> QED BY <1>1, <1>2, <1>4, <1>7, <1>8, <1>9, CleanRotation

LEMMA CleanItem ==
    ASSUME Sizes, mix = "clean", Clean, RotationInv, RotationInv', InMix', NEW d \in Devices, Running(d),
           NEW e \in rot[d].todo, R!RotateItem(d, e)
    PROVE  Clean'
<1>0. PICK r : r = [rot[d] EXCEPT !.todo = rot[d].todo \ {e}, !.batch = rot[d].batch \cup {e}]
  OBVIOUS
<1>1. /\ rot \in [Devices -> R!Rotation \cup {NoTask}] /\ rot[d] \in R!Rotation /\ GoesWell(rot[d])
      /\ UNCHANGED <<srv, minGen, blob, mem, made>> /\ rot[d].pc = "items"
  BY DEF RotationInv, R!TypeOK, Running, Clean, R!RotateItem, R!server, R!At
<1>2. rot' = [rot EXCEPT ![d] = r]
  BY <1>0, <1>1 DEF R!RotateItem, GoesWell
<1>3. /\ r.pc = "items" /\ r.todo = rot[d].todo \ {e} /\ r.batch = rot[d].batch \cup {e}
      /\ r.clashes = rot[d].clashes /\ r.old = rot[d].old /\ r.new = rot[d].new /\ r.gen = rot[d].gen
  BY <1>0, <1>1 DEF R!Rotation
<1>4. r # NoTask
  <2>1. r \in R!Rotation
    BY <1>0, <1>1 DEF R!Rotation
  <2> QED BY <2>1, SizesFacts
<1>5. r.todo \cup r.batch = rot[d].todo \cup rot[d].batch
  BY <1>3
<1>6. GoesWell(r)'
  BY <1>1, <1>3, <1>5 DEF GoesWell
<1>7. \A u \in Items : PendingIn(r, u) <=> PendingIn(rot[d], u)
  BY <1>1, <1>3, <1>5 DEF PendingIn
<1>8. r.pc # "list"
  BY <1>3
<1> QED BY <1>1, <1>2, <1>4, <1>6, <1>7, <1>8, CleanRotation

LEMMA CleanTurns ==
    ASSUME Sizes, mix = "clean", Clean, RotationInv, InMix', NEW d \in Devices,
           R!RotateBatch(d) \/ R!RotateOutcomes(d)
    PROVE  Clean'
<1>1. /\ UNCHANGED <<srv, minGen, blob, mem, made>> /\ Running(d) /\ rot[d].pc \in {"items", "push"}
  BY DEF R!RotateBatch, R!RotateOutcomes, R!At, R!server, R!local, Running
<1>2. PICK pc \in {"items", "push", "clashes"} :
        /\ rot' = [rot EXCEPT ![d] = [rot[d] EXCEPT !.pc = pc]]
        /\ pc = "items" => rot[d].clashes = {}
  BY DEF R!RotateBatch, R!RotateOutcomes
<1>3. /\ rot \in [Devices -> R!Rotation \cup {NoTask}] /\ rot[d] \in R!Rotation /\ GoesWell(rot[d])
  BY <1>1 DEF RotationInv, R!TypeOK, Running, Clean
<1>a. PICK r : r = [rot[d] EXCEPT !.pc = pc]
  OBVIOUS
<1>4. /\ r \in R!Rotation /\ r.pc = pc /\ r.todo = rot[d].todo /\ r.batch = rot[d].batch
      /\ r.clashes = rot[d].clashes /\ r.old = rot[d].old /\ r.new = rot[d].new /\ r.gen = rot[d].gen
  BY <1>a, <1>3 DEF R!Rotation
<1>5. rot' = [rot EXCEPT ![d] = r] /\ r # NoTask
  BY <1>a, <1>2, <1>4, SizesFacts
<1>6. GoesWell(r)'
  BY <1>1, <1>2, <1>3, <1>4 DEF GoesWell
<1>7. \A u \in Items : PendingIn(r, u) <=> PendingIn(rot[d], u)
  BY <1>1, <1>2, <1>4 DEF PendingIn
<1>8. r.pc # "list"
  BY <1>4
<1> QED BY <1>1, <1>3, <1>5, <1>6, <1>7, <1>8, CleanRotation

(* The item an entry or a clash is of is the rotation's, and what it       *)
(* writes there is under the new key; no other item changes.               *)
LEMMA CleanWrites ==
    ASSUME Sizes, mix = "clean", Clean, RotationInv, InMix', NEW d \in Devices, Running(d),
           NEW u \in Items, PendingIn(rot[d], u), NEW base \in R!Versions,
           R!Write(u, base, rot[d].new, rot[d].gen, TRUE), UNCHANGED <<minGen, blob, mem, made>>,
           NEW r \in R!Rotation, rot' = [rot EXCEPT ![d] = r], r.pc # "list", ~PendingIn(r, u),
           \A w \in Items : w # u => (PendingIn(r, w) <=> PendingIn(rot[d], w)),
           r.old = rot[d].old, r.new = rot[d].new, r.gen = rot[d].gen,
           r.todo \cup r.batch \subseteq rot[d].todo \cup rot[d].batch, r.clashes \subseteq rot[d].clashes,
           r.pc = "items" => r.clashes = {}
    PROVE  Clean'
<1>1. /\ rot \in [Devices -> R!Rotation \cup {NoTask}] /\ rot[d] \in R!Rotation /\ GoesWell(rot[d])
      /\ R!TypeOK /\ rot[d].new \in R!Keys /\ rot[d].gen \in R!Gens
  BY DEF RotationInv, R!TypeOK, Running, Clean, R!Rotation
<1>2. srv[u].version + 1 \in R!Versions
  BY PushFits
<1>3. /\ srv'[u] = [version |-> srv[u].version + 1, base |-> base, key |-> rot[d].new,
                    gen |-> rot[d].gen, live |-> TRUE]
      /\ \A w \in Items \ {u} : srv'[w] = srv[w]
  BY <1>1, <1>2, WriteTyped
<1>4. srv'[u].key = 1 /\ srv'[u].gen = 2
  BY <1>1, <1>3 DEF GoesWell
<1>5. \A c \in r.clashes : c.u # u /\ c.u \in Items
  BY DEF PendingIn, R!Rotation, R!Clash
<1>6. GoesWell(r)'
  <2>1. \A c \in r.clashes : c.row.gen = 1 /\ c.version = srv'[c.u].version
    BY <1>1, <1>3, <1>5 DEF GoesWell
  <2> QED BY <1>1, <2>1 DEF GoesWell
<1>7. r # NoTask
  BY SizesFacts
<1> QED BY <1>1, <1>3, <1>4, <1>6, <1>7, CleanRotation

LEMMA CleanPush ==
    ASSUME Sizes, mix = "clean", Clean, RotationInv, InMix', NEW d \in Devices, Running(d),
           NEW e \in rot[d].batch, R!RotatePush(d, e)
    PROVE  Clean'
<1>1. /\ rot \in [Devices -> R!Rotation \cup {NoTask}] /\ rot[d] \in R!Rotation /\ GoesWell(rot[d])
      /\ Apart(rot[d]) /\ UNCHANGED <<minGen, blob, mem, made>> /\ rot[d].pc = "push" /\ R!TypeOK
  BY DEF RotationInv, R!TypeOK, Running, Clean, OneEach, R!RotatePush, R!local, R!At
<1>2. e \in R!Entry /\ e.u \in Items /\ e.row \in R!Row /\ e.row.base \in R!Versions
  BY <1>1 DEF R!Rotation, R!Entry, R!Row
<1>3. PendingIn(rot[d], e.u)
  BY DEF PendingIn
<1>4. ~(rot[d].gen < minGen)
  BY <1>1 DEF GoesWell, Clean
<1>5. CASE R!Accepts(e.u, e.row.version, rot[d].gen)
  <2>0. PICK r : r = [rot[d] EXCEPT !.batch = rot[d].batch \ {e}]
    OBVIOUS
  <2>1. rot' = [rot EXCEPT ![d] = r] /\ R!Write(e.u, e.row.base, rot[d].new, rot[d].gen, TRUE)
    BY <2>0, <1>4, <1>5 DEF R!RotatePush
  <2>2. /\ r \in R!Rotation /\ r.gen = rot[d].gen /\ r.pc = "push" /\ r.todo = rot[d].todo
        /\ r.batch = rot[d].batch \ {e} /\ r.clashes = rot[d].clashes
        /\ r.old = rot[d].old /\ r.new = rot[d].new
    BY <2>0, <1>1 DEF R!Rotation
  <2>3. ~PendingIn(r, e.u)
    BY <1>1, <2>2 DEF PendingIn, Apart
  <2>4. \A w \in Items : w # e.u => (PendingIn(r, w) <=> PendingIn(rot[d], w))
    BY <1>1, <2>2 DEF PendingIn
  <2>5. r.pc # "list" /\ (r.pc = "items" => r.clashes = {})
    BY <2>2
  <2>6. r.todo \cup r.batch \subseteq rot[d].todo \cup rot[d].batch
    BY <2>2
  <2>7. r.clashes \subseteq rot[d].clashes
    BY <2>2
  <2>8. PICK u \in Items, base \in R!Versions : u = e.u /\ base = e.row.base
    BY <1>2
  <2>9. /\ R!Write(u, base, rot[d].new, rot[d].gen, TRUE) /\ PendingIn(rot[d], u) /\ ~PendingIn(r, u)
        /\ \A w \in Items : w # u => (PendingIn(r, w) <=> PendingIn(rot[d], w))
    BY <1>3, <2>1, <2>3, <2>4, <2>8
  <2>10. r \in R!Rotation /\ rot' = [rot EXCEPT ![d] = r]
    BY <2>1, <2>2
  <2>11. r.old = rot[d].old /\ r.new = rot[d].new /\ r.gen = rot[d].gen
    BY <2>2
  <2> QED BY <1>1, <2>5, <2>6, <2>7, <2>9, <2>10, <2>11, CleanWrites
<1>6. CASE ~R!Accepts(e.u, e.row.version, rot[d].gen)
  <2> DEFINE c == [u |-> e.u, row |-> e.row, fetched |-> FALSE, version |-> srv[e.u].version]
  <2>0. PICK r : r = [rot[d] EXCEPT !.batch = rot[d].batch \ {e}, !.clashes = rot[d].clashes \cup {c}]
    OBVIOUS
  <2>1. rot' = [rot EXCEPT ![d] = r] /\ UNCHANGED srv
    BY <2>0, <1>4, <1>6 DEF R!RotatePush
  <2>2. c \in R!Clash /\ c.u = e.u /\ c.row = e.row /\ c.version = srv[e.u].version
    <3>1. srv[e.u].version \in R!Versions
      BY <1>1, <1>2 DEF R!TypeOK, R!Row
    <3> QED BY <3>1, <1>2 DEF R!Clash
  <2> HIDE DEF c
  <2>3. /\ r \in R!Rotation /\ r.gen = rot[d].gen /\ r.pc = "push" /\ r.todo = rot[d].todo
        /\ r.batch = rot[d].batch \ {e} /\ r.clashes = rot[d].clashes \cup {c}
        /\ r.old = rot[d].old /\ r.new = rot[d].new
    BY <2>0, <1>1, <2>2 DEF R!Rotation
  <2>4. r # NoTask
    BY <2>3, SizesFacts
  <2>5. GoesWell(r)'
    <3>1. e.row.gen = 1
      BY <1>1 DEF GoesWell
    <3>2. \A b \in r.clashes : b.row.gen = 1 /\ b.version = srv'[b.u].version
      BY <1>1, <2>1, <2>2, <2>3, <3>1 DEF GoesWell
    <3>3. \A a \in r.todo \cup r.batch : a.row.key = 0 /\ a.row.gen = 1
      BY <1>1, <2>3 DEF GoesWell
    <3> QED BY <1>1, <2>3, <3>2, <3>3 DEF GoesWell
  <2>6. \A u \in Items : PendingIn(r, u) <=> PendingIn(rot[d], u)
    BY <1>1, <2>2, <2>3 DEF PendingIn
  <2>7. r.pc # "list"
    BY <2>3
  <2> QED BY <1>1, <2>1, <2>4, <2>5, <2>6, <2>7, CleanRotation
<1> QED BY <1>5, <1>6

LEMMA CleanFetch ==
    ASSUME Sizes, mix = "clean", Clean, RotationInv, InMix', NEW d \in Devices, Running(d),
           NEW c \in rot[d].clashes, R!ClashFetch(d, c)
    PROVE  Clean'
<1>1. /\ rot \in [Devices -> R!Rotation \cup {NoTask}] /\ rot[d] \in R!Rotation /\ GoesWell(rot[d])
      /\ UNCHANGED <<srv, minGen, blob, mem, made>> /\ rot[d].pc = "clashes" /\ R!TypeOK
      /\ c \in R!Clash
  BY DEF RotationInv, R!TypeOK, Running, Clean, R!ClashFetch, R!server, R!local, R!At, R!Rotation
<1>2. /\ c.u \in Items /\ srv[c.u] \in R!Row /\ srv[c.u].live
  BY <1>1, InMixFacts DEF R!TypeOK, R!Clash, Clean
<1>3. srv[c.u].key = 0 /\ srv[c.u].gen = 1
  <2>1. Pending(d, c.u)
    BY DEF Pending, PendingIn
  <2> QED BY <2>1, <1>2 DEF Clean
<1>4. PICK b : b = [c EXCEPT !.fetched = TRUE, !.row = srv[c.u]]
  OBVIOUS
<1>5. PICK r : r = [rot[d] EXCEPT !.clashes = (rot[d].clashes \ {c}) \cup {b}]
  OBVIOUS
<1>6. rot' = [rot EXCEPT ![d] = r]
  <2>1. c.version = srv[c.u].version /\ c.row.gen = 1 /\ rot[d].old = 0
    BY <1>1 DEF GoesWell
  <2> QED BY <1>2, <1>3, <1>4, <1>5, <2>1 DEF R!ClashFetch
<1>7. b \in R!Clash /\ b.u = c.u /\ b.row = srv[c.u] /\ b.version = c.version
  BY <1>1, <1>2, <1>4 DEF R!Clash
<1>8. /\ r \in R!Rotation /\ r.gen = rot[d].gen /\ r.pc = "clashes" /\ r.todo = rot[d].todo
      /\ r.batch = rot[d].batch /\ r.clashes = (rot[d].clashes \ {c}) \cup {b}
      /\ r.old = rot[d].old /\ r.new = rot[d].new
  BY <1>1, <1>5, <1>7 DEF R!Rotation
<1>9. GoesWell(r)'
  <2>1. \A a \in r.clashes : a.row.gen = 1 /\ a.version = srv'[a.u].version
    BY <1>1, <1>3, <1>7, <1>8 DEF GoesWell
  <2> QED BY <1>1, <1>8, <2>1 DEF GoesWell
<1>10. \A u \in Items : PendingIn(r, u) <=> PendingIn(rot[d], u)
  BY <1>1, <1>7, <1>8 DEF PendingIn
<1>11. r # NoTask /\ r.pc # "list"
  BY <1>8, SizesFacts
<1> QED BY <1>1, <1>6, <1>9, <1>10, <1>11, CleanRotation

LEMMA CleanClash ==
    ASSUME Sizes, mix = "clean", Clean, RotationInv, InMix', NEW d \in Devices, Running(d),
           NEW c \in rot[d].clashes, R!ClashPush(d, c)
    PROVE  Clean'
<1>1. /\ rot \in [Devices -> R!Rotation \cup {NoTask}] /\ rot[d] \in R!Rotation /\ GoesWell(rot[d])
      /\ Apart(rot[d]) /\ UNCHANGED <<minGen, blob, mem, made>> /\ rot[d].pc = "clashes" /\ R!TypeOK
      /\ c \in R!Clash
  BY DEF RotationInv, R!TypeOK, Running, Clean, OneEach, R!ClashPush, R!local, R!At, R!Rotation
<1>2. R!Accepts(c.u, c.version, rot[d].gen)
  BY <1>1 DEF R!Accepts, GoesWell, Clean
<1>3. PICK pc \in {"items", "clashes"} :
        /\ pc = IF rot[d].clashes = {c} THEN "items" ELSE rot[d].pc
  BY <1>1
<1>4. PICK r : r = [rot[d] EXCEPT !.clashes = rot[d].clashes \ {c}, !.pc = pc]
  OBVIOUS
<1>5. rot' = [rot EXCEPT ![d] = r] /\ R!Write(c.u, c.row.base, rot[d].new, rot[d].gen, TRUE)
  BY <1>2, <1>3, <1>4 DEF R!ClashPush
<1>6. /\ r \in R!Rotation /\ r.gen = rot[d].gen /\ r.pc = pc /\ r.todo = rot[d].todo
      /\ r.batch = rot[d].batch /\ r.clashes = rot[d].clashes \ {c}
      /\ r.old = rot[d].old /\ r.new = rot[d].new
  BY <1>1, <1>4 DEF R!Rotation
<1>7. PICK u \in Items, base \in R!Versions : u = c.u /\ base = c.row.base
  BY <1>1 DEF R!Clash, R!Row
<1>8. PendingIn(rot[d], u) /\ ~PendingIn(r, u)
  BY <1>1, <1>6, <1>7 DEF PendingIn, Apart
<1>9. \A w \in Items : w # u => (PendingIn(r, w) <=> PendingIn(rot[d], w))
  BY <1>1, <1>6, <1>7 DEF PendingIn
<1>10. r.pc # "list" /\ (r.pc = "items" => r.clashes = {})
  BY <1>1, <1>3, <1>6
<1>11. R!Write(u, base, rot[d].new, rot[d].gen, TRUE)
  BY <1>5, <1>7
<1>12. r.todo \cup r.batch \subseteq rot[d].todo \cup rot[d].batch
  BY <1>6
<1>13. r.clashes \subseteq rot[d].clashes
  BY <1>6
<1>14. r.old = rot[d].old /\ r.new = rot[d].new /\ r.gen = rot[d].gen /\ r \in R!Rotation
  BY <1>6
<1> QED BY <1>1, <1>5, <1>8, <1>9, <1>10, <1>11, <1>12, <1>13, <1>14, CleanWrites

(* The rotation ends: it has no item left, so all are under the new key.   *)
LEMMA CleanPromote ==
    ASSUME Sizes, mix = "clean", Clean, RotationInv, RotationInv', InMix', NEW d \in Devices,
           R!RotatePromote(d)
    PROVE  Clean'
<1>1. /\ UNCHANGED <<srv, minGen, blob, loc, made>> /\ Running(d) /\ rot[d].pc = "items"
      /\ rot[d].todo = {} /\ rot[d].batch = {}
      /\ mem' = [mem EXCEPT ![d] = [svk |-> rot[d].new, gen |-> rot[d].gen, min |-> rot[d].gen]]
      /\ rot' = [rot EXCEPT ![d] = NoTask]
  BY DEF R!RotatePromote, R!server, R!local, R!At, Running
<1>2. /\ GoesWell(rot[d]) /\ made = 1 /\ rot[d].clashes = {}
  BY <1>1 DEF Clean, GoesWell
<1>3. \A x \in Devices : rot'[x] = NoTask
  BY <1>1, InMixFacts DEF Clean, Running, RotationInv, R!TypeOK
<1>4. \A x \in Devices, u \in Items : ~Pending(x, u) /\ ~Pending(x, u)'
  <2>1. \A x \in Devices : x # d => rot[x] = NoTask
    BY <1>1, InMixFacts DEF Clean, Running
  <2>2. \A u \in Items : ~PendingIn(rot[d], u)
    BY <1>1, <1>2 DEF PendingIn
  <2> QED BY <2>1, <2>2, <1>3 DEF Pending, Running
<1>5. \A u \in Items : srv'[u].gen = srv'[u].key + 1 /\ srv'[u].key = made'
  BY <1>1, <1>4 DEF Clean
<1>6. \A x \in Devices : mem'[x] # NoTask /\ mem'[x].gen = mem'[x].svk + 1
  <2>1. mem \in [Devices -> R!Session \cup {NoTask}] /\ rot[d] \in R!Rotation
    BY <1>1 DEF RotationInv, R!TypeOK, Running
  <2>2. [svk |-> rot[d].new, gen |-> rot[d].gen, min |-> rot[d].gen] \in R!Session
    BY <2>1 DEF R!Rotation, R!Session
  <2>3. [svk |-> rot[d].new, gen |-> rot[d].gen, min |-> rot[d].gen] # NoTask
    BY <2>2, SizesFacts
  <2>4. \A x \in Devices : mem[x] # NoTask /\ mem[x].gen = mem[x].svk + 1
    BY DEF Clean
  <2> QED BY <2>1, <2>3, <2>4, <1>1, <1>2 DEF GoesWell
<1>7. minGen' = made' + 1 /\ blob' = made' /\ made' # 0
  BY <1>1, <1>2 DEF Clean
<1> QED BY <1>3, <1>4, <1>5, <1>6, <1>7 DEF Clean, Running

LEMMA CleanEdit ==
    ASSUME Sizes, mix = "clean", Clean, RotationInv, RotationInv', InMix', NEW d \in Devices,
           NEW u \in Items, NEW live \in BOOLEAN, R!Edit(d, u, live), mix' = mix
    PROVE  Clean'
<1>1. /\ UNCHANGED <<minGen, blob, mem, sess, rot, save, made>>
      /\ srv[u].key = mem[d].svk /\ mem[d].gen >= minGen /\ rot[d] = NoTask
      /\ R!Write(u, srv[u].version + 1, mem[d].svk, mem[d].gen, live)
      /\ loc' = [loc EXCEPT ![d] = [loc[d] EXCEPT ![u] = IF live THEN srv'[u] ELSE NoRow]]
  BY DEF R!Edit, R!Accepts
<1>2. /\ srv \in [Items -> R!Row] /\ loc \in [Devices -> [Items -> R!Row \cup {NoRow}]]
      /\ srv' \in [Items -> R!Row] /\ mem[d].svk \in Nat /\ made \in Nat
  <2>1. mem[d] \in R!Session /\ MaxKeys \in Nat
    BY SizesFacts DEF RotationInv, R!TypeOK, Clean
  <2>2. mem[d].svk \in Nat
    BY <2>1 DEF R!Session, R!Keys
  <2> QED BY <2>2, RoomTyped DEF RotationInv, R!TypeOK
<1>3. srv' = [srv EXCEPT ![u] = [version |-> srv[u].version + 1, base |-> srv[u].version + 1,
                                  key |-> mem[d].svk, gen |-> mem[d].gen, live |-> live]]
  BY <1>1 DEF R!Write
<1>4. srv'[u].key = mem[d].svk /\ srv'[u].gen = mem[d].gen /\ srv'[u].live = live
  BY <1>2, <1>3
<1>5. \A w \in Items : w # u => srv'[w] = srv[w]
  BY <1>2, <1>3
<1>6. live = TRUE
  BY <1>4, InMixFacts DEF InMix
<1>7. mem[d].svk = made /\ mem[d].gen = made + 1
  <2>1. mem[d].gen = mem[d].svk + 1 /\ minGen = made + 1
    BY DEF Clean
  <2>2. mem[d].gen <= minGen
    BY DEF RotationInv, GensFit, Clean
  <2> QED BY <2>1, <2>2, <1>1, <1>2
<1>8. \A x \in Devices : ~Pending(x, u)
  <2>1. \A x \in Devices : Pending(x, u) => srv[u].key = 0 /\ made = 1
    BY DEF Clean, Pending
  <2> QED BY <2>1, <1>1, <1>7
<1>9. \A x \in Devices, w \in Items : Pending(x, w)' <=> Pending(x, w)
  BY <1>1 DEF Pending, Running
<1>10. \A w \in Items : /\ srv'[w].gen = srv'[w].key + 1
                        /\ srv'[w].key = made' \/ \E x \in Devices : Pending(x, w)'
                        /\ \A x \in Devices : Pending(x, w)' => srv'[w].key = 0
  BY <1>1, <1>4, <1>5, <1>7, <1>8, <1>9 DEF Clean
<1>11. \A x \in Devices : Running(x) => GoesWell(rot[x])'
  <2> SUFFICES ASSUME NEW x \in Devices, Running(x) PROVE GoesWell(rot[x])'
    OBVIOUS
  <2>1. GoesWell(rot[x]) /\ rot[x] \in R!Rotation
    BY DEF Clean, RotationInv, R!TypeOK, Running
  <2>2. \A c \in rot[x].clashes : c.u # u /\ c.u \in Items
    BY <1>8, <2>1 DEF Pending, PendingIn, R!Rotation, R!Clash
  <2> QED BY <2>1, <2>2, <1>1, <1>5 DEF GoesWell
<1>12. \A x \in Devices : (made = 0 \/ (Running(x) /\ rot[x].pc = "list")) => RowsOld(x)'
  <2> SUFFICES ASSUME NEW x \in Devices, made = 0 \/ (Running(x) /\ rot[x].pc = "list") PROVE RowsOld(x)'
    OBVIOUS
  <2>1. RowsOld(x)
    BY DEF Clean
  <2>2. CASE x # d
    BY <2>1, <2>2, <1>1, <1>2 DEF RowsOld, R!HasLocal
  <2>3. CASE x = d
    <3>1. made = 0
      BY <2>3, <1>1 DEF Running
    <3>2. srv'[u] # NoRow
      BY <1>2, SizesFacts
    <3>3. loc'[x][u] = srv'[u] /\ \A w \in Items : w # u => loc'[x][w] = loc[x][w]
      BY <2>3, <1>1, <1>2, <1>6
    <3> QED BY <2>1, <3>1, <3>2, <3>3, <1>4, <1>7 DEF RowsOld, R!HasLocal
  <2> QED BY <2>2, <2>3
<1>13. \A x \in Devices : /\ mem'[x] # NoTask /\ mem'[x].gen = mem'[x].svk + 1
                          /\ rot'[x] # NoTask => made' = 1
  BY <1>1 DEF Clean, Running
<1> QED BY <1>1, <1>10, <1>11, <1>12, <1>13 DEF Clean, Running

LEMMA CleanSync ==
    ASSUME Sizes, mix = "clean", Clean, RotationInv, RotationInv', InMix', NEW d \in Devices, R!Sync(d)
    PROVE  Clean'
<1>1. /\ UNCHANGED <<srv, minGen, blob, rot, made>>
      /\ mem' = [mem EXCEPT ![d] = [mem[d] EXCEPT !.min = minGen]]
      /\ loc' = [loc EXCEPT ![d] = [u \in Items |->
                  IF had[d][u] = srv[u].version THEN loc[d][u]
                  ELSE IF srv[u].live THEN srv[u] ELSE NoRow]]
  BY DEF R!Sync, R!server
<1>2. /\ mem \in [Devices -> R!Session \cup {NoTask}] /\ mem[d] \in R!Session /\ minGen \in R!Gens
      /\ loc \in [Devices -> [Items -> R!Row \cup {NoRow}]] /\ srv \in [Items -> R!Row]
  BY DEF RotationInv, R!TypeOK, Clean
<1>3. \A x \in Devices : mem'[x] # NoTask /\ mem'[x].gen = mem'[x].svk + 1
  <2>1. \A x \in Devices : mem[x] # NoTask /\ mem[x].gen = mem[x].svk + 1
    BY DEF Clean
  <2>2. [mem[d] EXCEPT !.min = minGen] \in R!Session
    BY <1>2 DEF R!Session
  <2>3. /\ [mem[d] EXCEPT !.min = minGen] # NoTask
        /\ [mem[d] EXCEPT !.min = minGen].gen = mem[d].gen
        /\ [mem[d] EXCEPT !.min = minGen].svk = mem[d].svk
    BY <1>2, <2>2, SizesFacts DEF R!Session
  <2>4. \A x \in Devices : mem'[x] = IF x = d THEN [mem[d] EXCEPT !.min = minGen] ELSE mem[x]
    BY <1>1, <1>2
  <2> QED BY <2>1, <2>3, <2>4
<1>4. \A x \in Devices : (made = 0 \/ (Running(x) /\ rot[x].pc = "list")) => RowsOld(x)'
  <2> SUFFICES ASSUME NEW x \in Devices, made = 0 \/ (Running(x) /\ rot[x].pc = "list") PROVE RowsOld(x)'
    OBVIOUS
  <2>1. RowsOld(x)
    BY DEF Clean
  <2>2. CASE x # d
    BY <2>1, <2>2, <1>1, <1>2 DEF RowsOld, R!HasLocal
  <2>3. CASE x = d
    <3> SUFFICES ASSUME NEW u \in Items
                 PROVE  loc'[x][u] # NoRow /\ loc'[x][u].key = 0 /\ loc'[x][u].gen = 1
      BY DEF RowsOld, R!HasLocal
    <3>1. loc'[x][u] = IF had[d][u] = srv[u].version THEN loc[d][u]
                       ELSE IF srv[u].live THEN srv[u] ELSE NoRow
      BY <2>3, <1>1, <1>2
    <3>2. srv[u].live /\ srv[u] # NoRow
      BY <1>2, SizesFacts, InMixFacts DEF Clean
    <3>3. srv[u].key = 0 /\ srv[u].gen = 1
      <4>1. CASE made = 0
        <5>1. \A y \in Devices : ~Pending(y, u)
          BY <4>1 DEF Clean, Pending
        <5> QED BY <4>1, <5>1 DEF Clean
      <4>2. CASE Running(x) /\ rot[x].pc = "list"
        <5>1. Pending(x, u)
          BY <4>2 DEF Pending, PendingIn
        <5> QED BY <5>1 DEF Clean
      <4> QED BY <4>1, <4>2
    <3> QED BY <2>1, <2>3, <3>1, <3>2, <3>3 DEF RowsOld, R!HasLocal
  <2> QED BY <2>2, <2>3
<1>5. \A x \in Devices : rot'[x] # NoTask => made' = 1 /\ GoesWell(rot[x])'
  BY <1>1 DEF Clean, Running, GoesWell
<1>6. \A x \in Devices, w \in Items : Pending(x, w)' <=> Pending(x, w)
  BY <1>1 DEF Pending, Running
<1>7. \A w \in Items : /\ srv'[w].gen = srv'[w].key + 1
                       /\ srv'[w].key = made' \/ \E x \in Devices : Pending(x, w)'
                       /\ \A x \in Devices : Pending(x, w)' => srv'[w].key = 0
  BY <1>1, <1>6 DEF Clean
<1>8. minGen' = made' + 1 /\ blob' = made'
  BY <1>1 DEF Clean
<1> QED BY <1>1, <1>3, <1>4, <1>5, <1>7, <1>8 DEF Clean, Running

(* What a clean behaviour excludes.                                        *)
LEMMA CleanOnly ==
    ASSUME Sizes, mix = "clean", mix' = mix, Clean, RotationInv, RotationInv', InMix', NEW d \in Devices
    PROVE  /\ ~R!RotateReplyLost(d) /\ ~R!RotateFail(d) /\ ~R!Crash(d) /\ ~R!SaveCommit(d)
           /\ ~R!Unlock(d) /\ ~R!Restore(d) /\ \A u \in Items : ~R!SaveCheck(d, u)
<1>1. /\ used.failures = 0 /\ used'.failures = 0 /\ used.crashes = 0 /\ used'.crashes = 0
      /\ save[d] = NoTask /\ save'[d] = NoTask /\ mem[d] # NoTask
  BY DEF Clean, InMix
<1>2. /\ used \in [edits : 0..MaxEdits, failures : 0..MaxFailures, crashes : 0..MaxCrashes]
      /\ save' \in [Devices -> R!Saving \cup {NoTask}] /\ save \in [Devices -> R!Saving \cup {NoTask}]
      /\ loc \in [Devices -> [Items -> R!Row \cup {NoRow}]] /\ mem \in [Devices -> R!Session \cup {NoTask}]
  BY DEF RotationInv, R!TypeOK
<1>3. ~R!Use("failures") /\ ~R!Use("crashes")
  BY <1>1, <1>2 DEF R!Use
<1>4. ASSUME NEW u \in Items, R!SaveCheck(d, u) PROVE FALSE
  <2>1. mem[d] \in R!Session /\ loc[d][u] \in R!Row
    BY <1>4, <1>1, <1>2 DEF R!SaveCheck, R!HasLocal
  <2>2. [u |-> u, base |-> loc[d][u].base, key |-> mem[d].svk, gen |-> mem[d].gen] \in R!Saving
    BY <2>1 DEF R!Saving, R!Session, R!Row
  <2>3. save'[d] = [u |-> u, base |-> loc[d][u].base, key |-> mem[d].svk, gen |-> mem[d].gen]
    BY <1>4, <1>2 DEF R!SaveCheck
  <2> QED BY <1>1, <2>2, <2>3, SizesFacts
<1> QED BY <1>1, <1>3, <1>4 DEF R!RotateReplyLost, R!RotateFail, R!Crash, R!SaveCommit, R!Unlock, R!Restore,
                                R!Unlocked

LEMMA CleanStep ==
    ASSUME Sizes, RotationInv, RotationInv', CleanInv, MCNext
    PROVE  CleanInv'
<1> SUFFICES ASSUME mix = "clean" PROVE Clean'
  BY MixSteps DEF CleanInv
<1>0. Clean /\ InMix' /\ mix' = mix
  BY MixSteps DEF CleanInv
<1>1. PICK d \in Devices :
                \/ R!RotateCall(d) \/ R!RotateList(d)
                \/ Running(d) /\ \E e \in rot[d].todo : R!RotateItem(d, e)
                \/ R!RotateBatch(d) \/ R!RotateOutcomes(d)
                \/ Running(d) /\ \E e \in rot[d].batch : R!RotatePush(d, e)
                \/ Running(d) /\ \E c \in rot[d].clashes : R!ClashFetch(d, c)
                \/ Running(d) /\ \E c \in rot[d].clashes : R!ClashPush(d, c)
                \/ R!RotatePromote(d)
                \/ \E u \in Items, live \in BOOLEAN : R!Edit(d, u, live)
                \/ R!Sync(d)
  <2>1. PICK d \in Devices :
                \/ R!RotateCall(d) \/ R!RotateReplyLost(d) \/ R!RotateList(d)
                \/ Running(d) /\ \E e \in rot[d].todo : R!RotateItem(d, e)
                \/ R!RotateBatch(d) \/ R!RotateOutcomes(d)
                \/ Running(d) /\ \E e \in rot[d].batch : R!RotatePush(d, e)
                \/ Running(d) /\ \E c \in rot[d].clashes : R!ClashFetch(d, c)
                \/ Running(d) /\ \E c \in rot[d].clashes : R!ClashPush(d, c)
                \/ R!RotateFail(d) \/ R!RotatePromote(d)
                \/ \E u \in Items, live \in BOOLEAN : R!Edit(d, u, live)
                \/ R!Sync(d)
                \/ \E u \in Items : R!SaveCheck(d, u)
                \/ R!SaveCommit(d)
                \/ R!Crash(d)
                \/ R!Unlock(d)
                \/ R!Restore(d)
    BY MixSteps
  <2>2. /\ ~R!RotateReplyLost(d) /\ ~R!RotateFail(d) /\ ~R!Crash(d) /\ ~R!SaveCommit(d)
        /\ ~R!Unlock(d) /\ ~R!Restore(d) /\ \A u \in Items : ~R!SaveCheck(d, u)
    BY <1>0, CleanOnly
  <2> QED BY <2>1, <2>2
<1>2. CASE R!RotateCall(d)
  BY <1>0, <1>2, CleanCall
<1>3. CASE R!RotateList(d)
  BY <1>0, <1>3, CleanList
<1>4. CASE Running(d) /\ \E e \in rot[d].todo : R!RotateItem(d, e)
  BY <1>0, <1>4, CleanItem
<1>5. CASE R!RotateBatch(d) \/ R!RotateOutcomes(d)
  BY <1>0, <1>5, CleanTurns
<1>6. CASE Running(d) /\ \E e \in rot[d].batch : R!RotatePush(d, e)
  BY <1>0, <1>6, CleanPush
<1>7. CASE Running(d) /\ \E c \in rot[d].clashes : R!ClashFetch(d, c)
  BY <1>0, <1>7, CleanFetch
<1>8. CASE Running(d) /\ \E c \in rot[d].clashes : R!ClashPush(d, c)
  BY <1>0, <1>8, CleanClash
<1>9. CASE R!RotatePromote(d)
  BY <1>0, <1>9, CleanPromote
<1>10. CASE \E u \in Items, live \in BOOLEAN : R!Edit(d, u, live)
  BY <1>0, <1>10, CleanEdit
<1>11. CASE R!Sync(d)
  BY <1>0, <1>11, CleanSync
<1> QED BY <1>1, <1>2, <1>3, <1>4, <1>5, <1>6, <1>7, <1>8, <1>9, <1>10, <1>11

LEMMA CleanStarts ==
    ASSUME Sizes, Unsynced = {}, MCInit
    PROVE  CleanInv
<1> SUFFICES ASSUME mix = "clean" PROVE Clean
  BY DEF CleanInv
<1>1. R!InitOf(Unsynced, {})
  BY MixStarts
<1>2. /\ RotationInv
      /\ \A d \in Devices : rot[d] = NoTask /\ save[d] = NoTask /\ mem[d] = [svk |-> 0, gen |-> 1, min |-> 1]
      /\ \A u \in Items : srv[u] = [version |-> 1, base |-> 1, key |-> 0, gen |-> 1, live |-> u \notin {}]
      /\ made = 0 /\ minGen = 1 /\ blob = 0
      /\ \A d \in Devices, u \in Items : loc[d][u] = IF u \in Unsynced \cup {} THEN NoRow ELSE R!FirstRow
      /\ \A d \in Devices : mem[d] # NoTask
  BY <1>1, RotationStarts
<1>3. R!FirstRow # NoRow
  <2>1. 0 \in R!Keys /\ 1 \in R!Gens /\ 1 \in R!Versions
    BY SizesFacts DEF R!Keys, R!Gens, R!Versions
  <2>2. R!FirstRow \in R!Row
    BY <2>1 DEF R!FirstRow, R!Row
  <2> QED BY <2>2, SizesFacts
<1>4. InMix
  <2>1. used.failures = 0 /\ used.crashes = 0
    BY <1>1 DEF R!InitOf
  <2>2. \A u \in Items : srv[u].live
    <3> SUFFICES ASSUME NEW u \in Items PROVE srv[u].live
      OBVIOUS
    <3>1. srv[u] = [version |-> 1, base |-> 1, key |-> 0, gen |-> 1, live |-> TRUE]
      <4>1. (u \notin {}) = TRUE
        OBVIOUS
      <4> QED BY <1>2, <4>1, Zenon
    <3> QED BY <3>1
  <2>3. made <= 1
    BY <1>2
  <2> QED BY <1>2, <2>1, <2>2, <2>3 DEF InMix
<1>5. \A d \in Devices : RowsOld(d)
  BY <1>2, <1>3 DEF RowsOld, R!HasLocal, R!FirstRow
<1>6. \A d \in Devices : mem[d].gen = mem[d].svk + 1
  BY <1>2
<1>7. \A u \in Items : srv[u].gen = srv[u].key + 1 /\ srv[u].key = made
  BY <1>2
<1>8. \A d \in Devices, u \in Items : ~Pending(d, u)
  BY <1>2 DEF Pending, Running
<1> QED BY <1>2, <1>4, <1>5, <1>6, <1>7, <1>8 DEF Clean, Running

LEMMA CleanRests ==
    ASSUME CleanInv, UNCHANGED <<R!vars, mix>>
    PROVE  CleanInv'
<1>1. UNCHANGED <<srv, minGen, blob, loc, had, mem, sess, rot, save, made, used, mix>>
  BY DEF R!vars, R!server, R!local
<1> QED BY <1>1 DEF CleanInv, Clean, InMix, RowsOld, R!HasLocal, GoesWell, Running, Pending, PendingIn

(* When every item has been downloaded, one rotate_key that nothing        *)
(* interrupts leaves every item under the key that a login gets, whatever  *)
(* the other devices edit and sync meanwhile.                              *)
THEOREM CleanRotationReadable ==
    ASSUME Unsynced = {}
    PROVE  MCSpec => []CleanReadable
<1> USE SizesAssumption
<1>1. MCInit => CleanInv
  BY CleanStarts
<1>2. RotationInv /\ RotationInv' /\ CleanInv /\ [MCNext]_<<R!vars, mix>> => CleanInv'
  BY CleanStep, CleanRests
<1>3. CleanInv => CleanReadable
  <2> SUFFICES ASSUME Clean, \A d \in Devices : rot[d] = NoTask, NEW u \in Items
               PROVE  srv[u].key = blob /\ srv[u].gen = minGen
    BY DEF CleanInv, CleanReadable, R!Readable
  <2>1. \A d \in Devices : ~Pending(d, u)
    BY DEF Pending, Running
  <2> QED BY <2>1 DEF Clean
<1> QED BY <1>1, <1>2, <1>3, RotationInvariant, PTL DEF MCSpec

-----------------------------------------------------------------------------
(* A re-encryption is of the latest content. A version and the content it  *)
(* comes with are fresh for a row of the server that is past that version, *)
(* or at it and with no newer content.                                     *)
Fresh(v, b, row) == v <= row.version /\ (v = row.version => b >= row.base)

(* What a rotation will push is fresh, and a device's rows are as long as  *)
(* a rotation may still list them: in a clean behaviour until the one      *)
(* rotation has listed them, and always where no device syncs. Without     *)
(* sync the rows, the rotation and a save agree on the content.            *)
FreshIn(r, s) ==
    /\ \A e \in r.todo \cup r.batch : Fresh(e.row.version, e.row.base, s[e.u])
    /\ \A c \in r.clashes : c.fetched => Fresh(c.version, c.row.base, s[c.u])
FreshRows(l, s) == \A u \in Items : l[u] # NoRow => Fresh(l[u].version, l[u].base, s[u])
Matches(r, l) == \A e \in r.todo : l[e.u] # NoRow /\ l[e.u].base = e.row.base
Listable(d) == mix = "faults" \/ made = 0 \/ (Running(d) /\ rot[d].pc = "list")
EditsInv ==
    /\ mix \in {"clean", "faults"} /\ InMix
    /\ \A d \in Devices : /\ Running(d) => made >= 1 /\ FreshIn(rot[d], srv)
                          /\ Listable(d) => FreshRows(loc[d], srv)
    /\ mix = "faults" => \A d \in Devices :
         /\ Running(d) => Matches(rot[d], loc[d])
         /\ save[d] # NoTask => loc[d][save[d].u] # NoRow /\ loc[d][save[d].u].base = save[d].base

(* The server's rows only move on.                                         *)
Grows == \A u \in Items : srv'[u] = srv[u] \/ srv'[u].version = srv[u].version + 1

LEMMA FreshGrows ==
    ASSUME R!TypeOK, Grows, NEW v \in R!Versions, NEW b, NEW u \in Items, Fresh(v, b, srv[u])
    PROVE  Fresh(v, b, srv'[u])
<1>1. srv[u].version \in Int /\ v \in Int
  BY DEF R!TypeOK, R!Row, R!Versions
<1> QED BY <1>1 DEF Fresh, Grows

LEMMA FreshInGrows ==
    ASSUME R!TypeOK, Grows, NEW r \in R!Rotation, FreshIn(r, srv)
    PROVE  FreshIn(r, srv')
<1>1. ASSUME NEW e \in r.todo \cup r.batch PROVE Fresh(e.row.version, e.row.base, srv'[e.u])
  <2>1. e \in R!Entry
    BY DEF R!Rotation
  <2>2. e.u \in Items /\ e.row.version \in R!Versions
    BY <2>1 DEF R!Entry, R!Row
  <2> QED BY <2>2, FreshGrows DEF FreshIn
<1>2. ASSUME NEW c \in r.clashes, c.fetched PROVE Fresh(c.version, c.row.base, srv'[c.u])
  <2>1. c \in R!Clash
    BY DEF R!Rotation
  <2>2. c.u \in Items /\ c.version \in R!Versions
    BY <2>1 DEF R!Clash
  <2> QED BY <2>2, <1>2, FreshGrows DEF FreshIn
<1> QED BY <1>1, <1>2 DEF FreshIn

LEMMA FreshRowsGrows ==
    ASSUME R!TypeOK, Grows, NEW d \in Devices, FreshRows(loc[d], srv)
    PROVE  FreshRows(loc[d], srv')
<1> SUFFICES ASSUME NEW u \in Items, loc[d][u] # NoRow
             PROVE  Fresh(loc[d][u].version, loc[d][u].base, srv'[u])
  BY DEF FreshRows
<1>1. loc[d][u].version \in R!Versions
  BY DEF R!TypeOK, R!Row
<1> QED BY <1>1, FreshGrows DEF FreshRows

(* A step of the rotation of d that leaves the rows of the devices alone.  *)
LEMMA EditsRotation ==
    ASSUME RotationInv, EditsInv, InMix', mix' = mix, Grows, UNCHANGED <<loc, save, made>>,
           NEW d \in Devices, NEW r, rot' = [rot EXCEPT ![d] = r],
           r = NoTask \/ (/\ Running(d) /\ r.pc # "list" /\ FreshIn(r, srv')
                          /\ mix = "faults" => Matches(r, loc[d]))
    PROVE  EditsInv'
<1>0. R!TypeOK /\ rot \in [Devices -> R!Rotation \cup {NoTask}]
  BY DEF RotationInv, R!TypeOK
<1>1. \A x \in Devices : rot'[x] = IF x = d THEN r ELSE rot[x]
  BY <1>0
<1>2. \A x \in Devices : Listable(x)' => Listable(x)
  BY <1>1 DEF Listable, Running
<1>3. \A x \in Devices : Listable(x)' => FreshRows(loc'[x], srv')
  BY <1>0, <1>2, FreshRowsGrows DEF EditsInv
<1>4. \A x \in Devices : rot'[x] # NoTask => made' >= 1 /\ FreshIn(rot'[x], srv')
  <2> SUFFICES ASSUME NEW x \in Devices, rot'[x] # NoTask PROVE made' >= 1 /\ FreshIn(rot'[x], srv')
    OBVIOUS
  <2>1. CASE x = d
    BY <2>1, <1>1 DEF EditsInv, Running
  <2>2. CASE x # d
    BY <2>2, <1>0, <1>1, FreshInGrows DEF EditsInv, Running
  <2> QED BY <2>1, <2>2
<1>5. mix = "faults" => \A x \in Devices :
         /\ rot'[x] # NoTask => Matches(rot'[x], loc'[x])
         /\ save'[x] # NoTask => loc'[x][save'[x].u] # NoRow /\ loc'[x][save'[x].u].base = save'[x].base
  BY <1>1 DEF EditsInv, Running
<1> QED BY <1>3, <1>4, <1>5 DEF EditsInv, Running

(* A step that leaves the rotations alone and changes no other device's    *)
(* rows than those of d, where they may be listed to fresh ones.           *)
LEMMA EditsOutside ==
    ASSUME RotationInv, EditsInv, InMix', mix' = mix, Grows, UNCHANGED rot, made' >= made, made' \in Nat,
           made \in Nat,
           NEW d \in Devices, \A x \in Devices : x # d => loc'[x] = loc[x] /\ save'[x] = save[x],
           Listable(d) => FreshRows(loc'[d], srv'),
           mix = "faults" => /\ Running(d) => Matches(rot[d], loc'[d])
                             /\ save'[d] # NoTask => /\ loc'[d][save'[d].u] # NoRow
                                                     /\ loc'[d][save'[d].u].base = save'[d].base
    PROVE  EditsInv'
<1>0. R!TypeOK /\ rot \in [Devices -> R!Rotation \cup {NoTask}]
  BY DEF RotationInv, R!TypeOK
<1>1. \A x \in Devices : Listable(x)' => Listable(x)
  BY DEF Listable, Running
<1>2. \A x \in Devices : Listable(x)' => FreshRows(loc'[x], srv')
  <2> SUFFICES ASSUME NEW x \in Devices, Listable(x) PROVE FreshRows(loc'[x], srv')
    BY <1>1
  <2>1. CASE x = d
    BY <2>1
  <2>2. CASE x # d
    BY <2>2, <1>0, FreshRowsGrows DEF EditsInv
  <2> QED BY <2>1, <2>2
<1>3. \A x \in Devices : rot'[x] # NoTask => made' >= 1 /\ FreshIn(rot'[x], srv')
  BY <1>0, FreshInGrows DEF EditsInv, Running
<1>4. mix = "faults" => \A x \in Devices :
         /\ rot'[x] # NoTask => Matches(rot'[x], loc'[x])
         /\ save'[x] # NoTask => loc'[x][save'[x].u] # NoRow /\ loc'[x][save'[x].u].base = save'[x].base
  BY DEF EditsInv, Running
<1> QED BY <1>2, <1>3, <1>4 DEF EditsInv, Running

LEMMA Still ==
    ASSUME UNCHANGED srv
    PROVE  Grows
BY DEF Grows

LEMMA WriteGrows ==
    ASSUME R!TypeOK, NEW u \in Items, NEW base, NEW key, NEW gen, NEW live, R!Write(u, base, key, gen, live)
    PROVE  /\ Grows /\ srv'[u].base = base /\ srv'[u].version = srv[u].version + 1
           /\ \A w \in Items : w # u => srv'[w] = srv[w]
<1>1. srv \in [Items -> R!Row]
  BY DEF R!TypeOK
<1>2. srv'[u] = [version |-> srv[u].version + 1, base |-> base, key |-> key, gen |-> gen, live |-> live]
  BY <1>1 DEF R!Write
<1>3. \A w \in Items : w # u => srv'[w] = srv[w]
  BY <1>1 DEF R!Write
<1> QED BY <1>2, <1>3 DEF Grows

LEMMA EditsCall ==
    ASSUME Sizes, RotationInv, RotationInv', EditsInv, InMix', mix' = mix, NEW d \in Devices,
           R!RotateCall(d)
    PROVE  EditsInv'
<1>1. /\ made' = made + 1 /\ rot[d] = NoTask /\ UNCHANGED <<loc, save, srv>>
      /\ rot' = [rot EXCEPT ![d] = [pc |-> "list", old |-> mem[d].svk, new |-> made', gen |-> minGen',
                                    todo |-> {}, batch |-> {}, clashes |-> {}]]
  BY DEF R!RotateCall, R!local, R!RotateServer, R!server
<1>2. made \in Nat /\ rot \in [Devices -> R!Rotation \cup {NoTask}]
  BY RoomTyped DEF RotationInv, R!TypeOK
<1>3. \A x \in Devices : x # d => rot'[x] = rot[x]
  BY <1>1, <1>2
<1>4. rot'[d].todo = {} /\ rot'[d].batch = {} /\ rot'[d].clashes = {}
  BY <1>1, <1>2
<1>5. mix = "clean" => made = 0
  BY <1>1, <1>2 DEF InMix
<1>6. \A x \in Devices : FreshRows(loc'[x], srv')
  BY <1>1, <1>5 DEF EditsInv, Listable
<1>7. \A x \in Devices : rot'[x] # NoTask => made' >= 1 /\ FreshIn(rot'[x], srv')
  <2> SUFFICES ASSUME NEW x \in Devices, rot'[x] # NoTask PROVE made' >= 1 /\ FreshIn(rot'[x], srv')
    OBVIOUS
  <2>1. made' >= 1
    BY <1>1, <1>2
  <2>2. CASE x = d
    BY <2>1, <2>2, <1>4 DEF FreshIn
  <2>3. CASE x # d
    BY <2>1, <2>3, <1>1, <1>3 DEF EditsInv, Running
  <2> QED BY <2>2, <2>3
<1>8. mix = "faults" => \A x \in Devices :
         /\ rot'[x] # NoTask => Matches(rot'[x], loc'[x])
         /\ save'[x] # NoTask => loc'[x][save'[x].u] # NoRow /\ loc'[x][save'[x].u].base = save'[x].base
  <2>1. Matches(rot'[d], loc'[d])
    BY <1>4 DEF Matches
  <2> QED BY <2>1, <1>1, <1>3 DEF EditsInv, Running
<1> QED BY <1>6, <1>7, <1>8 DEF EditsInv, Running

LEMMA EditsList ==
    ASSUME Sizes, RotationInv, EditsInv, InMix', mix' = mix, NEW d \in Devices, R!RotateList(d)
    PROVE  EditsInv'
<1>1. PICK r : r = [rot[d] EXCEPT !.pc = "items", !.todo = Listed(d)]
  OBVIOUS
<1>2. /\ Running(d) /\ rot[d].pc = "list" /\ rot' = [rot EXCEPT ![d] = r]
      /\ UNCHANGED <<srv, loc, save, made>>
  BY <1>1 DEF R!RotateList, R!At, Running, Listed, R!server, R!local
<1>3. rot[d] \in R!Rotation /\ Apart(rot[d]) /\ FreshRows(loc[d], srv)
  BY <1>2 DEF RotationInv, R!TypeOK, OneEach, Running, EditsInv, Listable
<1>4. r.pc = "items" /\ r.todo = Listed(d) /\ r.batch = {} /\ r.clashes = {}
  BY <1>1, <1>2, <1>3 DEF R!Rotation, Apart
<1>5. \A e \in Listed(d) : e.u \in Items /\ loc[d][e.u] # NoRow /\ e.row = loc[d][e.u]
  BY DEF Listed, R!HasLocal
<1>6. FreshIn(r, srv') /\ Matches(r, loc[d])
  BY <1>2, <1>3, <1>4, <1>5 DEF FreshIn, FreshRows, Matches
<1>7. r.pc # "list"
  BY <1>4
<1> QED BY <1>2, <1>6, <1>7, Still, EditsRotation

(* A row that is rewritten with its version and the content it has.        *)
LEMMA SameContent ==
    ASSUME NEW l \in [Items -> R!Row \cup {NoRow}], NEW s, FreshRows(l, s), NEW u \in Items, l[u] # NoRow,
           NEW row \in R!Row, row.version = l[u].version, row.base = l[u].base, NoRow \notin R!Row,
           NEW k, k = [l EXCEPT ![u] = row]
    PROVE  /\ FreshRows(k, s)
           /\ \A w \in Items : (k[w] # NoRow <=> l[w] # NoRow) /\ (l[w] # NoRow => k[w].base = l[w].base)
<1>1. \A w \in Items : k[w] = IF w = u THEN row ELSE l[w]
  OBVIOUS
<1>2. row # NoRow
  OBVIOUS
<1> QED BY <1>1, <1>2 DEF FreshRows

LEMMA EditsItem ==
    ASSUME Sizes, RotationInv, EditsInv, InMix', mix' = mix, NEW d \in Devices, Running(d),
           NEW e \in rot[d].todo, R!RotateItem(d, e)
    PROVE  EditsInv'
<1>1. /\ UNCHANGED <<srv, save, made>> /\ rot[d].pc = "items" /\ made >= 1 /\ made \in Nat
      /\ rot[d] \in R!Rotation /\ FreshIn(rot[d], srv) /\ loc \in [Devices -> [Items -> R!Row \cup {NoRow}]]
      /\ rot \in [Devices -> R!Rotation \cup {NoTask}]
  BY RoomTyped DEF R!RotateItem, R!server, R!At, RotationInv, R!TypeOK, Running, EditsInv
<1>2. CASE e.row.key # rot[d].old
  <2>1. rot' = [rot EXCEPT ![d] = NoTask] /\ UNCHANGED loc
    BY <1>2 DEF R!RotateItem, R!Fail
  <2> QED BY <1>1, <2>1, Still, EditsRotation
<1>3. CASE ~(e.row.key # rot[d].old)
  <2>1. PICK r : r = [rot[d] EXCEPT !.todo = rot[d].todo \ {e}, !.batch = rot[d].batch \cup {e}]
    OBVIOUS
  <2>2. PICK row : row = [loc[d][e.u] EXCEPT !.key = rot[d].new, !.gen = rot[d].gen, !.base = e.row.base]
    OBVIOUS
  <2>3. /\ rot' = [rot EXCEPT ![d] = r]
        /\ loc' = IF R!HasLocal(d, e.u)
                  THEN [loc EXCEPT ![d] = [loc[d] EXCEPT ![e.u] = row]] ELSE loc
    BY <2>1, <2>2, <1>3 DEF R!RotateItem
  <2>4. /\ r.pc = "items" /\ r.todo = rot[d].todo \ {e} /\ r.batch = rot[d].batch \cup {e}
        /\ r.clashes = rot[d].clashes
    BY <2>1, <1>1 DEF R!Rotation
  <2>5. r.todo \cup r.batch = rot[d].todo \cup rot[d].batch
    BY <2>4
  <2>6. FreshIn(r, srv')
    BY <1>1, <2>4, <2>5 DEF FreshIn
  <2>7. \A x \in Devices : rot'[x] = IF x = d THEN r ELSE rot[x]
    BY <1>1, <2>3
  <2>8. \A x \in Devices : x # d => loc'[x] = loc[x]
    BY <1>1, <2>3
  <2>9. \A x \in Devices : rot'[x] # NoTask => made' >= 1 /\ FreshIn(rot'[x], srv')
    BY <1>1, <2>6, <2>7 DEF EditsInv, Running
  <2>10. CASE mix = "clean"
    <3>1. \A x \in Devices : Listable(x)' => x # d /\ Listable(x)
      BY <2>10, <1>1, <2>4, <2>7 DEF Listable, Running
    <3>2. \A x \in Devices : Listable(x)' => FreshRows(loc'[x], srv')
      BY <3>1, <2>8, <1>1 DEF EditsInv
    <3> QED BY <2>9, <2>10, <3>2 DEF EditsInv, Running
  <2>11. CASE mix = "faults"
    <3>1. e \in R!Entry
      BY <1>1 DEF R!Rotation
    <3>2. e.u \in Items /\ e.row \in R!Row /\ loc[d][e.u] # NoRow /\ loc[d][e.u].base = e.row.base
      BY <3>1, <2>11 DEF R!Entry, EditsInv, Matches
    <3>3. loc[d][e.u] \in R!Row
      BY <3>2, <1>1
    <3>4. row \in R!Row /\ row.version = loc[d][e.u].version /\ row.base = loc[d][e.u].base
      <4>1. rot[d].new \in R!Keys /\ rot[d].gen \in R!Gens
        BY <1>1 DEF R!Rotation
      <4> QED BY <2>2, <3>2, <3>3, <4>1 DEF R!Row
    <3>5. loc'[d] = [loc[d] EXCEPT ![e.u] = row] /\ FreshRows(loc[d], srv)
      BY <1>1, <2>3, <2>11, <3>2 DEF R!HasLocal, EditsInv, Listable
    <3>6. /\ FreshRows(loc'[d], srv)
          /\ \A w \in Items : /\ loc'[d][w] # NoRow <=> loc[d][w] # NoRow
                              /\ loc[d][w] # NoRow => loc'[d][w].base = loc[d][w].base
      <4>1. PICK l \in [Items -> R!Row \cup {NoRow}] : l = loc[d]
        BY <1>1
      <4>2. PICK u \in Items : u = e.u
        BY <3>2
      <4>3. PICK k : k = [l EXCEPT ![u] = row]
        OBVIOUS
      <4>4. PICK s : s = srv
        OBVIOUS
      <4>5. /\ FreshRows(k, s)
            /\ \A w \in Items : (k[w] # NoRow <=> l[w] # NoRow) /\ (l[w] # NoRow => k[w].base = l[w].base)
        BY <3>2, <3>4, <3>5, <4>1, <4>2, <4>3, <4>4, SizesFacts, SameContent
      <4> QED BY <4>1, <4>2, <4>3, <4>4, <4>5, <3>5
    <3>7. Matches(r, loc'[d])
      <4>1. \A a \in rot[d].todo : a.u \in Items
        BY <1>1 DEF R!Rotation, R!Entry
      <4>2. Matches(rot[d], loc[d])
        BY <2>11 DEF EditsInv
      <4> QED BY <4>1, <4>2, <3>6, <2>4 DEF Matches
    <3>8. \A x \in Devices : FreshRows(loc'[x], srv')
      BY <2>8, <2>11, <3>6, <1>1 DEF EditsInv, Listable
    <3>9. \A x \in Devices : rot'[x] # NoTask => Matches(rot'[x], loc'[x])
      BY <2>7, <2>8, <2>11, <3>7 DEF EditsInv, Running
    <3>10. \A x \in Devices :
             save'[x] # NoTask => loc'[x][save'[x].u] # NoRow /\ loc'[x][save'[x].u].base = save'[x].base
      <4> SUFFICES ASSUME NEW x \in Devices, save[x] # NoTask
                   PROVE  loc'[x][save[x].u] # NoRow /\ loc'[x][save[x].u].base = save[x].base
        BY <1>1
      <4>1. save[x].u \in Items
        BY DEF RotationInv, R!TypeOK, R!Saving
      <4>2. loc[x][save[x].u] # NoRow /\ loc[x][save[x].u].base = save[x].base
        BY <2>11 DEF EditsInv
      <4> QED BY <4>1, <4>2, <2>8, <3>6
    <3> QED BY <2>9, <2>11, <3>8, <3>9, <3>10 DEF EditsInv, Running
  <2> QED BY <2>10, <2>11 DEF EditsInv
<1> QED BY <1>2, <1>3

LEMMA EditsTurns ==
    ASSUME RotationInv, EditsInv, InMix', mix' = mix, NEW d \in Devices,
           R!RotateBatch(d) \/ R!RotateOutcomes(d)
    PROVE  EditsInv'
<1>1. UNCHANGED <<srv, loc, save, made>> /\ Running(d)
  BY DEF R!RotateBatch, R!RotateOutcomes, R!At, R!server, R!local, Running
<1>2. PICK pc \in {"items", "push", "clashes"} : rot' = [rot EXCEPT ![d] = [rot[d] EXCEPT !.pc = pc]]
  BY DEF R!RotateBatch, R!RotateOutcomes
<1>3. PICK r : r = [rot[d] EXCEPT !.pc = pc]
  OBVIOUS
<1>4. rot[d] \in R!Rotation /\ FreshIn(rot[d], srv) /\ (mix = "faults" => Matches(rot[d], loc[d]))
  BY <1>1 DEF RotationInv, R!TypeOK, Running, EditsInv
<1>5. r.pc = pc /\ r.todo = rot[d].todo /\ r.batch = rot[d].batch /\ r.clashes = rot[d].clashes
  BY <1>3, <1>4 DEF R!Rotation
<1>6. r.pc # "list" /\ FreshIn(r, srv') /\ (mix = "faults" => Matches(r, loc[d]))
  BY <1>1, <1>4, <1>5 DEF FreshIn, Matches
<1>7. rot' = [rot EXCEPT ![d] = r]
  BY <1>2, <1>3
<1> QED BY <1>1, <1>6, <1>7, Still, EditsRotation

(* The rotation ends, with or without its key.                             *)
LEMMA EditsEnd ==
    ASSUME RotationInv, EditsInv, InMix', mix' = mix, NEW d \in Devices,
           R!RotateFail(d) \/ R!RotatePromote(d)
    PROVE  EditsInv'
<1>1. UNCHANGED <<srv, loc, save, made>> /\ rot' = [rot EXCEPT ![d] = NoTask]
  BY DEF R!RotateFail, R!RotatePromote, R!Fail, R!server, R!local
<1> QED BY <1>1, Still, EditsRotation

LEMMA EditsPush ==
    ASSUME Sizes, RotationInv, EditsInv, InMix', mix' = mix, NEW d \in Devices, Running(d),
           NEW e \in rot[d].batch, R!RotatePush(d, e)
    PROVE  /\ EditsInv'
           /\ \A u \in Items : srv'[u] # srv[u] => srv'[u].base >= srv[u].base
<1>1. /\ UNCHANGED <<loc, save, made>> /\ rot[d].pc = "push" /\ R!TypeOK
      /\ rot[d] \in R!Rotation /\ FreshIn(rot[d], srv) /\ (mix = "faults" => Matches(rot[d], loc[d]))
  BY DEF R!RotatePush, R!local, R!At, RotationInv, R!TypeOK, Running, EditsInv
<1>2. e \in R!Entry /\ e.u \in Items /\ e.row \in R!Row
  BY <1>1 DEF R!Rotation, R!Entry
<1>3. CASE rot[d].gen < minGen
  <2>1. rot' = [rot EXCEPT ![d] = NoTask] /\ UNCHANGED srv
    BY <1>3 DEF R!RotatePush, R!Fail
  <2> QED BY <1>1, <2>1, Still, EditsRotation
<1>4. CASE ~(rot[d].gen < minGen) /\ R!Accepts(e.u, e.row.version, rot[d].gen)
  <2>1. PICK r : r = [rot[d] EXCEPT !.batch = rot[d].batch \ {e}]
    OBVIOUS
  <2>2. rot' = [rot EXCEPT ![d] = r] /\ R!Write(e.u, e.row.base, rot[d].new, rot[d].gen, TRUE)
    BY <1>4, <2>1 DEF R!RotatePush
  <2>3. /\ r \in R!Rotation /\ r.pc = "push" /\ r.todo = rot[d].todo /\ r.batch = rot[d].batch \ {e}
        /\ r.clashes = rot[d].clashes
    BY <1>1, <2>1 DEF R!Rotation
  <2>4. /\ Grows /\ srv'[e.u].base = e.row.base
        /\ \A w \in Items : w # e.u => srv'[w] = srv[w]
    BY <1>1, <1>2, <2>2, WriteGrows
  <2>5. FreshIn(r, srv)
    BY <1>1, <2>3 DEF FreshIn
  <2>6. FreshIn(r, srv') /\ r.pc # "list" /\ (mix = "faults" => Matches(r, loc[d]))
    BY <1>1, <2>3, <2>4, <2>5, FreshInGrows DEF Matches
  <2>7. EditsInv'
    BY <1>1, <2>2, <2>4, <2>6, EditsRotation
  <2>8. e.row.base >= srv[e.u].base
    BY <1>1, <1>4 DEF FreshIn, Fresh, R!Accepts
  <2> QED BY <2>4, <2>7, <2>8
<1>5. CASE ~(rot[d].gen < minGen) /\ ~R!Accepts(e.u, e.row.version, rot[d].gen)
  <2>1. PICK c : c = [u |-> e.u, row |-> e.row, fetched |-> FALSE, version |-> srv[e.u].version]
    OBVIOUS
  <2>2. PICK r : r = [rot[d] EXCEPT !.batch = rot[d].batch \ {e}, !.clashes = rot[d].clashes \cup {c}]
    OBVIOUS
  <2>3. rot' = [rot EXCEPT ![d] = r] /\ UNCHANGED srv
    BY <1>5, <2>1, <2>2 DEF R!RotatePush
  <2>4. /\ r.pc = "push" /\ r.todo = rot[d].todo /\ r.batch = rot[d].batch \ {e}
        /\ r.clashes = rot[d].clashes \cup {c} /\ ~c.fetched
    BY <1>1, <2>1, <2>2 DEF R!Rotation
  <2>5. FreshIn(r, srv') /\ r.pc # "list" /\ (mix = "faults" => Matches(r, loc[d]))
    BY <1>1, <2>3, <2>4 DEF FreshIn, Matches
  <2> QED BY <1>1, <2>3, <2>5, Still, EditsRotation
<1> QED BY <1>3, <1>4, <1>5

LEMMA EditsFetch ==
    ASSUME Sizes, RotationInv, EditsInv, InMix', mix' = mix, NEW d \in Devices, Running(d),
           NEW c \in rot[d].clashes, R!ClashFetch(d, c)
    PROVE  EditsInv'
<1>1. /\ UNCHANGED <<srv, loc, save, made>> /\ rot[d].pc = "clashes" /\ R!TypeOK /\ c \in R!Clash
      /\ rot[d] \in R!Rotation /\ FreshIn(rot[d], srv) /\ (mix = "faults" => Matches(rot[d], loc[d]))
  BY DEF R!ClashFetch, R!server, R!local, R!At, RotationInv, R!TypeOK, Running, EditsInv, R!Rotation
<1>2. PICK b : b = [c EXCEPT !.fetched = TRUE, !.row = srv[c.u]]
  OBVIOUS
<1>3. PICK r : r = [rot[d] EXCEPT !.clashes = (rot[d].clashes \ {c}) \cup {b}]
  OBVIOUS
<1>4. \/ rot' = [rot EXCEPT ![d] = NoTask]
      \/ rot' = [rot EXCEPT ![d] = r] /\ srv[c.u].version = c.version
  BY <1>2, <1>3 DEF R!ClashFetch, R!Fail
<1>5. CASE rot' = [rot EXCEPT ![d] = NoTask]
  BY <1>1, <1>5, Still, EditsRotation
<1>6. CASE rot' = [rot EXCEPT ![d] = r] /\ srv[c.u].version = c.version
  <2>1. b.u = c.u /\ b.row = srv[c.u] /\ b.version = c.version
    BY <1>1, <1>2 DEF R!Clash
  <2>2. /\ r.pc = "clashes" /\ r.todo = rot[d].todo /\ r.batch = rot[d].batch
        /\ r.clashes = (rot[d].clashes \ {c}) \cup {b}
    BY <1>1, <1>3 DEF R!Rotation
  <2>3. Fresh(b.version, b.row.base, srv[b.u])
    <3>1. srv[c.u].version \in Int /\ srv[c.u].base \in Int
      BY <1>1 DEF R!TypeOK, R!Clash, R!Row, R!Versions
    <3> QED BY <1>6, <2>1, <3>1 DEF Fresh
  <2>4. FreshIn(r, srv') /\ r.pc # "list" /\ (mix = "faults" => Matches(r, loc[d]))
    BY <1>1, <2>2, <2>3 DEF FreshIn, Matches
  <2> QED BY <1>1, <1>6, <2>4, Still, EditsRotation
<1> QED BY <1>4, <1>5, <1>6

LEMMA EditsClash ==
    ASSUME Sizes, RotationInv, EditsInv, InMix', mix' = mix, NEW d \in Devices, Running(d),
           NEW c \in rot[d].clashes, R!ClashPush(d, c)
    PROVE  /\ EditsInv'
           /\ \A u \in Items : srv'[u] # srv[u] => srv'[u].base >= srv[u].base
<1>1. /\ UNCHANGED <<loc, save, made>> /\ rot[d].pc = "clashes" /\ R!TypeOK /\ c \in R!Clash
      /\ rot[d] \in R!Rotation /\ FreshIn(rot[d], srv) /\ (mix = "faults" => Matches(rot[d], loc[d]))
      /\ c.fetched
  BY DEF R!ClashPush, R!local, R!At, RotationInv, R!TypeOK, Running, EditsInv, R!Rotation
<1>2. c.u \in Items
  BY <1>1 DEF R!Clash
<1>3. CASE ~R!Accepts(c.u, c.version, rot[d].gen)
  <2>1. rot' = [rot EXCEPT ![d] = NoTask] /\ UNCHANGED srv
    BY <1>3 DEF R!ClashPush, R!Fail
  <2> QED BY <1>1, <2>1, Still, EditsRotation
<1>4. CASE R!Accepts(c.u, c.version, rot[d].gen)
  <2>1. PICK pc \in {"items", "clashes"} : pc = IF rot[d].clashes = {c} THEN "items" ELSE rot[d].pc
    BY <1>1
  <2>2. PICK r : r = [rot[d] EXCEPT !.clashes = rot[d].clashes \ {c}, !.pc = pc]
    OBVIOUS
  <2>3. rot' = [rot EXCEPT ![d] = r] /\ R!Write(c.u, c.row.base, rot[d].new, rot[d].gen, TRUE)
    BY <1>4, <2>1, <2>2 DEF R!ClashPush
  <2>4. /\ r \in R!Rotation /\ r.pc = pc /\ r.todo = rot[d].todo /\ r.batch = rot[d].batch
        /\ r.clashes = rot[d].clashes \ {c}
    BY <1>1, <2>2 DEF R!Rotation
  <2>5. /\ Grows /\ srv'[c.u].base = c.row.base
        /\ \A w \in Items : w # c.u => srv'[w] = srv[w]
    BY <1>1, <1>2, <2>3, WriteGrows
  <2>6. FreshIn(r, srv)
    BY <1>1, <2>4 DEF FreshIn
  <2>7. FreshIn(r, srv') /\ r.pc # "list" /\ (mix = "faults" => Matches(r, loc[d]))
    BY <1>1, <2>4, <2>5, <2>6, FreshInGrows DEF Matches
  <2>8. EditsInv'
    BY <1>1, <2>3, <2>5, <2>7, EditsRotation
  <2>9. c.row.base >= srv[c.u].base
    BY <1>1, <1>4 DEF FreshIn, Fresh, R!Accepts
  <2> QED BY <2>5, <2>8, <2>9
<1> QED BY <1>3, <1>4

LEMMA EditsCrash ==
    ASSUME RotationInv, EditsInv, InMix', mix' = mix, NEW d \in Devices, R!Crash(d)
    PROVE  EditsInv'
<1>1. UNCHANGED <<srv, loc, made>>
  BY DEF R!Crash, R!server, R!local
<1>2. \A x \in Devices : (rot'[x] # NoTask => rot'[x] = rot[x]) /\ (save'[x] # NoTask => save'[x] = save[x])
  BY DEF R!Crash, RotationInv, R!TypeOK
<1>3. \A x \in Devices : Listable(x)' => Listable(x)
  BY <1>1, <1>2 DEF Listable, Running
<1> QED BY <1>1, <1>2, <1>3 DEF EditsInv, Running

(* The reply is lost, a login, a session restored: nothing that the        *)
(* contents depend on.                                                     *)
LEMMA EditsElsewhere ==
    ASSUME Sizes, RotationInv, RotationInv', EditsInv, InMix', mix' = mix, NEW d \in Devices,
           R!RotateReplyLost(d) \/ R!Unlock(d) \/ R!Restore(d)
    PROVE  EditsInv'
<1>1. /\ UNCHANGED <<srv, loc, rot, save>> /\ made \in Nat /\ made' \in Nat /\ made' >= made
  BY RoomTyped DEF R!RotateReplyLost, R!RotateServer, R!Unlock, R!Restore, R!server, R!local, RotationInv
<1>2. \A x \in Devices : Listable(x)' => Listable(x)
  BY <1>1 DEF Listable, Running
<1> QED BY <1>1, <1>2 DEF EditsInv, Running

LEMMA EditsEdit ==
    ASSUME Sizes, RotationInv, RotationInv', EditsInv, InMix', mix' = mix, NEW d \in Devices,
           NEW u \in Items, NEW live \in BOOLEAN, R!Edit(d, u, live)
    PROVE  EditsInv'
<1>1. /\ UNCHANGED <<rot, save, made>> /\ rot[d] = NoTask /\ save[d] = NoTask
      /\ R!Write(u, srv[u].version + 1, mem[d].svk, mem[d].gen, live)
      /\ loc' = [loc EXCEPT ![d] = [loc[d] EXCEPT ![u] = IF live THEN srv'[u] ELSE NoRow]]
  BY DEF R!Edit
<1>2. /\ R!TypeOK /\ loc \in [Devices -> [Items -> R!Row \cup {NoRow}]] /\ srv' \in [Items -> R!Row]
      /\ made \in Nat
  BY RoomTyped DEF RotationInv, R!TypeOK
<1>3. Grows
  BY <1>1, <1>2, WriteGrows
<1>4. \A x \in Devices : x # d => loc'[x] = loc[x] /\ save'[x] = save[x]
  BY <1>1, <1>2
<1>5. Listable(d) => FreshRows(loc'[d], srv')
  <2> SUFFICES ASSUME Listable(d), NEW w \in Items, loc'[d][w] # NoRow
               PROVE  Fresh(loc'[d][w].version, loc'[d][w].base, srv'[w])
    BY DEF FreshRows
  <2>1. FreshRows(loc[d], srv')
    BY <1>2, <1>3, FreshRowsGrows DEF EditsInv
  <2>2. loc'[d][w] = IF w = u THEN (IF live THEN srv'[u] ELSE NoRow) ELSE loc[d][w]
    BY <1>1, <1>2
  <2>3. CASE w # u
    BY <2>1, <2>2, <2>3 DEF FreshRows
  <2>4. CASE w = u
    <3>1. srv'[u].version \in Int /\ srv'[u].base \in Int
      BY <1>2 DEF R!Row, R!Versions
    <3> QED BY <2>2, <2>4, <3>1 DEF Fresh
  <2> QED BY <2>3, <2>4
<1>6. /\ ~Running(d) /\ save'[d] = NoTask /\ made' >= made /\ made' \in Nat /\ UNCHANGED rot
  BY <1>1, <1>2 DEF Running
<1> QED BY <1>2, <1>3, <1>4, <1>5, <1>6, EditsOutside

LEMMA EditsSync ==
    ASSUME Sizes, RotationInv, RotationInv', EditsInv, InMix', mix' = mix, mix # "faults",
           NEW d \in Devices, R!Sync(d)
    PROVE  EditsInv'
<1>1. /\ UNCHANGED <<srv, rot, save, made>>
      /\ loc' = [loc EXCEPT ![d] = [u \in Items |->
                  IF had[d][u] = srv[u].version THEN loc[d][u]
                  ELSE IF srv[u].live THEN srv[u] ELSE NoRow]]
  BY DEF R!Sync, R!server
<1>2. /\ loc \in [Devices -> [Items -> R!Row \cup {NoRow}]] /\ srv \in [Items -> R!Row] /\ made \in Nat
  BY RoomTyped DEF RotationInv, R!TypeOK
<1>3. \A x \in Devices : x # d => loc'[x] = loc[x] /\ save'[x] = save[x]
  BY <1>1, <1>2
<1>4. Listable(d) => FreshRows(loc'[d], srv')
  <2> SUFFICES ASSUME Listable(d), NEW w \in Items, loc'[d][w] # NoRow
               PROVE  Fresh(loc'[d][w].version, loc'[d][w].base, srv[w])
    BY <1>1 DEF FreshRows
  <2>1. FreshRows(loc[d], srv)
    BY DEF EditsInv
  <2>2. loc'[d][w] = IF had[d][w] = srv[w].version THEN loc[d][w]
                     ELSE IF srv[w].live THEN srv[w] ELSE NoRow
    BY <1>1, <1>2
  <2>3. srv[w].version \in Int /\ srv[w].base \in Int
    BY <1>2 DEF R!Row, R!Versions
  <2> QED BY <2>1, <2>2, <2>3 DEF FreshRows, Fresh
<1> QED BY <1>1, <1>2, <1>3, <1>4, Still, EditsOutside

LEMMA EditsSave ==
    ASSUME Sizes, RotationInv, RotationInv', EditsInv, InMix', mix' = mix, NEW d \in Devices,
           NEW u \in Items, R!SaveCheck(d, u)
    PROVE  EditsInv'
<1>1. /\ UNCHANGED <<srv, loc, rot, made>> /\ R!HasLocal(d, u)
      /\ save' = [save EXCEPT ![d] = [u |-> u, base |-> loc[d][u].base, key |-> mem[d].svk, gen |-> mem[d].gen]]
  BY DEF R!SaveCheck, R!server, R!local
<1>2. save \in [Devices -> R!Saving \cup {NoTask}] /\ made \in Nat
  BY RoomTyped DEF RotationInv, R!TypeOK
<1>3. \A x \in Devices : x # d => loc'[x] = loc[x] /\ save'[x] = save[x]
  BY <1>1, <1>2
<1>4. save'[d].u = u /\ save'[d].base = loc[d][u].base
  BY <1>1, <1>2
<1>5. Listable(d) => FreshRows(loc'[d], srv')
  BY <1>1 DEF EditsInv
<1>6. mix = "faults" => /\ Running(d) => Matches(rot[d], loc'[d])
                        /\ loc'[d][save'[d].u] # NoRow /\ loc'[d][save'[d].u].base = save'[d].base
  BY <1>1, <1>4 DEF EditsInv, R!HasLocal
<1> QED BY <1>1, <1>2, <1>3, <1>5, <1>6, Still, EditsOutside

LEMMA EditsCommit ==
    ASSUME Sizes, RotationInv, RotationInv', EditsInv, InMix', mix' = mix, NEW d \in Devices,
           R!SaveCommit(d)
    PROVE  EditsInv'
<1>1. mix = "faults"
  BY DEF R!SaveCommit, EditsInv, InMix
<1>2. /\ save[d] \in R!Saving /\ loc \in [Devices -> [Items -> R!Row \cup {NoRow}]] /\ made \in Nat
      /\ save \in [Devices -> R!Saving \cup {NoTask}]
  BY RoomTyped DEF R!SaveCommit, RotationInv, R!TypeOK
<1>3. PICK u \in Items : u = save[d].u
  BY <1>2 DEF R!Saving
<1>4. loc[d][u] # NoRow /\ loc[d][u].base = save[d].base /\ loc[d][u] \in R!Row
  BY <1>1, <1>2, <1>3 DEF EditsInv, R!SaveCommit
<1>5. PICK row : row = [version |-> loc[d][u].version, base |-> save[d].base, key |-> save[d].key,
                        gen |-> save[d].gen, live |-> TRUE]
  OBVIOUS
<1>6. /\ UNCHANGED <<srv, rot, made>> /\ save' = [save EXCEPT ![d] = NoTask]
      /\ loc' = [loc EXCEPT ![d] = [loc[d] EXCEPT ![u] = row]]
  BY <1>3, <1>4, <1>5 DEF R!SaveCommit, R!server, R!HasLocal
<1>7. row \in R!Row /\ row.version = loc[d][u].version /\ row.base = loc[d][u].base
  BY <1>2, <1>4, <1>5 DEF R!Row, R!Saving
<1>8. \A x \in Devices : x # d => loc'[x] = loc[x] /\ save'[x] = save[x]
  BY <1>2, <1>6
<1>9. FreshRows(loc[d], srv) /\ (Running(d) => Matches(rot[d], loc[d]))
  BY <1>1 DEF EditsInv, Listable
<1>10. /\ FreshRows(loc'[d], srv)
       /\ \A w \in Items : /\ loc'[d][w] # NoRow <=> loc[d][w] # NoRow
                           /\ loc[d][w] # NoRow => loc'[d][w].base = loc[d][w].base
  <2>1. PICK l \in [Items -> R!Row \cup {NoRow}] : l = loc[d]
    BY <1>2
  <2>2. PICK k : k = [l EXCEPT ![u] = row]
    OBVIOUS
  <2>3. PICK s : s = srv
    OBVIOUS
  <2>4. loc'[d] = k
    BY <1>2, <1>6, <2>1, <2>2
  <2>5. /\ FreshRows(k, s)
        /\ \A w \in Items : (k[w] # NoRow <=> l[w] # NoRow) /\ (l[w] # NoRow => k[w].base = l[w].base)
    BY <1>4, <1>7, <1>9, <2>1, <2>2, <2>3, SizesFacts, SameContent
  <2> QED BY <2>1, <2>3, <2>4, <2>5
<1>11. Running(d) => Matches(rot[d], loc'[d])
  <2>1. Running(d) => \A a \in rot[d].todo : a.u \in Items
    BY DEF RotationInv, R!TypeOK, Running, R!Rotation, R!Entry
  <2> QED BY <2>1, <1>9, <1>10 DEF Matches
<1>12. save'[d] = NoTask
  BY <1>2, <1>6
<1>13. /\ Grows /\ made' >= made /\ made' \in Nat /\ UNCHANGED rot /\ FreshRows(loc'[d], srv')
  BY <1>2, <1>6, <1>10, Still
<1> QED BY <1>2, <1>8, <1>11, <1>12, <1>13, EditsOutside

LEMMA EditsStart ==
    ASSUME Sizes, Mixes \subseteq {"clean", "faults"}, MCInit
    PROVE  EditsInv
<1>1. mix \in {"clean", "faults"}
  BY MixStarts
<1>2. PICK unsynced, deleted : R!InitOf(unsynced, deleted) /\ (mix = "clean" => deleted = {})
  BY <1>1 DEF MCInit, R!Init
<1>3. /\ RotationInv
      /\ \A d \in Devices : rot[d] = NoTask /\ save[d] = NoTask
      /\ \A u \in Items : srv[u] = [version |-> 1, base |-> 1, key |-> 0, gen |-> 1, live |-> u \notin deleted]
      /\ made = 0
      /\ \A d \in Devices, u \in Items : loc[d][u] = IF u \in unsynced \cup deleted THEN NoRow ELSE R!FirstRow
  BY <1>2, RotationStarts
<1>4. InMix
  <2>1. used.failures = 0 /\ used.crashes = 0
    BY <1>2 DEF R!InitOf
  <2>2. mix = "clean" => \A u \in Items : srv[u].live
    <3> SUFFICES ASSUME mix = "clean", NEW u \in Items PROVE srv[u].live
      OBVIOUS
    <3>1. (u \notin deleted) = TRUE
      BY <1>2
    <3>2. srv[u] = [version |-> 1, base |-> 1, key |-> 0, gen |-> 1, live |-> u \notin deleted]
      BY <1>3
    <3>3. srv[u] = [version |-> 1, base |-> 1, key |-> 0, gen |-> 1, live |-> TRUE]
      BY <3>1, <3>2, Zenon
    <3> QED BY <3>3
  <2>3. made <= 1
    BY <1>3
  <2> QED BY <1>3, <2>1, <2>2, <2>3 DEF InMix
<1>5. \A d \in Devices : FreshRows(loc[d], srv)
  <2>1. \A u \in Items : srv[u].version = 1 /\ srv[u].base = 1
    BY <1>2 DEF R!InitOf, R!FirstRow
  <2> QED BY <2>1, <1>3 DEF FreshRows, Fresh, R!FirstRow
<1> QED BY <1>1, <1>3, <1>4, <1>5 DEF EditsInv, Running

(* A step keeps the invariant, and if it changes a rotation and an item,   *)
(* the item's content is not older than before.                            *)
LEMMA EditsStep ==
    ASSUME Sizes, RotationInv, RotationInv', EditsInv, MCNext
    PROVE  /\ EditsInv'
           /\ \A u \in Items :
                srv'[u] # srv[u] /\ (\E d \in Devices : rot[d] # NoTask /\ rot'[d] # rot[d])
                  => srv'[u].base >= srv[u].base
<1>0. InMix' /\ mix' = mix
  BY MixSteps
<1>1. PICK d \in Devices :
                \/ R!RotateCall(d) \/ R!RotateReplyLost(d) \/ R!RotateList(d)
                \/ Running(d) /\ \E e \in rot[d].todo : R!RotateItem(d, e)
                \/ R!RotateBatch(d) \/ R!RotateOutcomes(d)
                \/ Running(d) /\ \E e \in rot[d].batch : R!RotatePush(d, e)
                \/ Running(d) /\ \E c \in rot[d].clashes : R!ClashFetch(d, c)
                \/ Running(d) /\ \E c \in rot[d].clashes : R!ClashPush(d, c)
                \/ R!RotateFail(d) \/ R!RotatePromote(d)
                \/ \E u \in Items, live \in BOOLEAN : R!Edit(d, u, live)
                \/ mix # "faults" /\ R!Sync(d)
                \/ \E u \in Items : R!SaveCheck(d, u)
                \/ R!SaveCommit(d)
                \/ R!Crash(d)
                \/ R!Unlock(d)
                \/ R!Restore(d)
  BY MixSteps
<1>2. CASE R!RotateCall(d)
  <2>1. UNCHANGED srv
    BY <1>2 DEF R!RotateCall, R!RotateServer, R!server
  <2> QED BY <1>0, <1>2, <2>1, EditsCall
<1>3. CASE R!RotateReplyLost(d) \/ R!Unlock(d) \/ R!Restore(d)
  <2>1. UNCHANGED srv
    BY <1>3 DEF R!RotateReplyLost, R!RotateServer, R!Unlock, R!Restore, R!server
  <2> QED BY <1>0, <1>3, <2>1, EditsElsewhere
<1>4. CASE R!RotateList(d)
  <2>1. UNCHANGED srv
    BY <1>4 DEF R!RotateList, R!server
  <2> QED BY <1>0, <1>4, <2>1, EditsList
<1>5. CASE Running(d) /\ \E e \in rot[d].todo : R!RotateItem(d, e)
  <2>1. UNCHANGED srv
    BY <1>5 DEF R!RotateItem, R!server
  <2> QED BY <1>0, <1>5, <2>1, EditsItem
<1>6. CASE R!RotateBatch(d) \/ R!RotateOutcomes(d)
  <2>1. UNCHANGED srv
    BY <1>6 DEF R!RotateBatch, R!RotateOutcomes, R!server
  <2> QED BY <1>0, <1>6, <2>1, EditsTurns
<1>7. CASE Running(d) /\ \E e \in rot[d].batch : R!RotatePush(d, e)
  BY <1>0, <1>7, EditsPush
<1>8. CASE Running(d) /\ \E c \in rot[d].clashes : R!ClashFetch(d, c)
  <2>1. UNCHANGED srv
    BY <1>8 DEF R!ClashFetch, R!server
  <2> QED BY <1>0, <1>8, <2>1, EditsFetch
<1>9. CASE Running(d) /\ \E c \in rot[d].clashes : R!ClashPush(d, c)
  BY <1>0, <1>9, EditsClash
<1>10. CASE R!RotateFail(d) \/ R!RotatePromote(d)
  <2>1. UNCHANGED srv
    BY <1>10 DEF R!RotateFail, R!RotatePromote, R!server
  <2> QED BY <1>0, <1>10, <2>1, EditsEnd
<1>11. CASE \E u \in Items, live \in BOOLEAN : R!Edit(d, u, live)
  <2>1. UNCHANGED rot
    BY <1>11 DEF R!Edit
  <2> QED BY <1>0, <1>11, <2>1, EditsEdit
<1>12. CASE mix # "faults" /\ R!Sync(d)
  <2>1. UNCHANGED srv
    BY <1>12 DEF R!Sync, R!server
  <2> QED BY <1>0, <1>12, <2>1, EditsSync
<1>13. CASE \E u \in Items : R!SaveCheck(d, u)
  <2>1. UNCHANGED srv
    BY <1>13 DEF R!SaveCheck, R!server
  <2> QED BY <1>0, <1>13, <2>1, EditsSave
<1>14. CASE R!SaveCommit(d)
  <2>1. UNCHANGED srv
    BY <1>14 DEF R!SaveCommit, R!server
  <2> QED BY <1>0, <1>14, <2>1, EditsCommit
<1>15. CASE R!Crash(d)
  <2>1. UNCHANGED srv
    BY <1>15 DEF R!Crash, R!server
  <2> QED BY <1>0, <1>15, <2>1, EditsCrash
<1> QED BY <1>1, <1>2, <1>3, <1>4, <1>5, <1>6, <1>7, <1>8, <1>9, <1>10, <1>11, <1>12, <1>13, <1>14, <1>15

LEMMA EditsRest ==
    ASSUME EditsInv, UNCHANGED <<R!vars, mix>>
    PROVE  EditsInv' /\ UNCHANGED srv
<1>1. UNCHANGED <<srv, minGen, blob, loc, had, mem, sess, rot, save, made, used, mix>>
  BY DEF R!vars, R!server, R!local
<1> QED BY <1>1 DEF EditsInv, InMix, Running, Listable

(* No push of a rotation puts older content over another device's edit: in *)
(* one rotation without failures while the devices sync, and in any number *)
(* of rotations that fail, crash and are repeated between syncs. With both *)
(* the code does not keep this.                                            *)
THEOREM RotationsKeepEdits ==
    ASSUME Mixes \subseteq {"clean", "faults"}
    PROVE  MCSpec => RotationKeepsEdits
<1> USE SizesAssumption
<1>1. MCInit => EditsInv
  BY EditsStart
<1>2. RotationInv /\ RotationInv' /\ EditsInv /\ [MCNext]_<<R!vars, mix>> => EditsInv'
  BY EditsStep, EditsRest
<1>3. RotationInv /\ RotationInv' /\ EditsInv /\ [MCNext]_<<R!vars, mix>>
        => [R!KeepsEdits]_srv
  BY EditsStep, EditsRest DEF R!KeepsEdits
<1> QED BY <1>1, <1>2, <1>3, RotationInvariant, PTL DEF MCSpec, RotationKeepsEdits

-----------------------------------------------------------------------------
(* The desktop application's view, DesktopApp, which holds the core client, *)
(* the data key and the session token side by side.                         *)
(* The inductive invariant: a view has the three fields, and they agree.    *)
Kept(v) == /\ {"client", "dek", "token"} \subseteq DOMAIN v
           /\ v.client = v.dek /\ v.dek = v.token
AllKept(S) == \A v \in S : Kept(v)

(* What a handler does to the view is built from these updates, none of    *)
(* which writes the client, the data key or the session token.             *)
LEMMA KeptSetItems == ASSUME NEW v, NEW l, Kept(v) PROVE Kept(App!set_items(v, l))
  BY SMT DEF Kept, App!set_items
LEMMA KeptSetProjects == ASSUME NEW v, NEW l, Kept(v) PROVE Kept(App!set_projects(v, l))
  BY SMT DEF Kept, App!set_projects
LEMMA KeptClear == ASSUME NEW v, NEW fs, Kept(v) PROVE Kept(App!Clear(v, fs))
  BY SMT DEF Kept, App!Clear
LEMMA KeptSecrets == ASSUME NEW v, NEW o, Kept(v) PROVE Kept(App!set_secrets(v, o))
  BY SMT DEF Kept, App!set_secrets
LEMMA KeptSpawn == ASSUME NEW v, NEW do, NEW who, NEW arg, Kept(v) PROVE Kept(App!Spawn(v, do, who, arg))
  BY SMT DEF Kept, App!Spawn
LEMMA KeptWith ==
    ASSUME NEW v, NEW do, NEW arg, Kept(v)
    PROVE  Kept(App!WithToken(v, do, arg)) /\ Kept(App!WithClient(v, do, arg))
  BY KeptSpawn, Zenon DEF App!WithToken, App!WithClient
LEMMA KeptBusy == ASSUME NEW v, NEW flag, Kept(v) PROVE Kept(App!Busy(v, flag)) /\ Kept(App!Idle(v, flag))
  BY SMT DEF Kept, App!Busy, App!Idle

(* One field other than the three, whatever its new value.                 *)
LEMMA KeptField ==
    ASSUME NEW v, NEW e, Kept(v)
    PROVE  /\ Kept([v EXCEPT !.on = e]) /\ Kept([v EXCEPT !.data = e])
           /\ Kept([v EXCEPT !.pending = e]) /\ Kept([v EXCEPT !.form = e])
           /\ Kept([v EXCEPT !.handle = e]) /\ Kept([v EXCEPT !.tasks = e])
           /\ Kept([v EXCEPT !.idle = e]) /\ Kept([v EXCEPT !.onboarding = e])
           /\ Kept([v EXCEPT !.tour = e]) /\ Kept([v EXCEPT !.section = e])
           /\ Kept([v EXCEPT !.copies = e]) /\ Kept([v EXCEPT !.conflicts = e])
           /\ Kept([v EXCEPT !.target = e]) /\ Kept([v EXCEPT !.tab = e])
           /\ Kept([v EXCEPT !.group = e]) /\ Kept([v EXCEPT !.keyGen = e])
  BY SMT DEF Kept

(* A sign-in refused or sent.                                              *)
LEMMA KeptRefuse == ASSUME NEW v, Kept(v) PROVE Kept(App!Refuse(v))
  BY KeptField, Zenon DEF App!Refuse
LEMMA KeptSubmit == ASSUME NEW v, NEW do, NEW who, NEW arg, Kept(v) PROVE Kept(App!Submit(v, do, who, arg))
  BY KeptField, KeptSpawn, Zenon DEF App!Submit

(* Only three operators write the fields of Kept, all three of them at     *)
(* once: Opened, which a login and a restore end with, do_lock and new.    *)
LEMMA KeptOpened == ASSUME NEW v, NEW who, NEW l, Kept(v) PROVE Kept(App!Opened(v, who, l))
  BY KeptSetItems, SMT DEF Kept, App!Opened
LEMMA KeptNew == ASSUME NEW w PROVE Kept(App!new(w))
  BY SMT DEF Kept, App!new

LEMMA KeptLock == ASSUME NEW v, Kept(v) PROVE Kept(App!do_lock(v))
<1> DEFINE u == IF v.client = NoAccount THEN v ELSE App!Clear([v EXCEPT !.handle = NoAccount], {"revealed"})
           d == App!clear_detail(App!vault_lock(u))
<1>1. Kept(u)
  BY KeptField, KeptClear, Zenon
<1>2. Kept(App!vault_lock(u))
  <2> HIDE DEF u
  <2> QED BY <1>1, SMT DEF Kept, App!vault_lock
<1>3. Kept(d)
  BY <1>2, KeptClear, Zenon DEF App!clear_detail
<1> DEFINE k == [d EXCEPT !.client = NoAccount, !.dek = NoAccount, !.token = NoAccount]
<1>4. App!do_lock(v) =
        [k EXCEPT !.mfa = NoAccount, !.projects = <<>>, !.project = 0, !.tab = "Members",
                  !.busy = d.busy \ {"projects"}, !.section = "Vault", !.target = NoAccount]
  BY DEF App!do_lock
<1>5. Kept(k)
  <2> HIDE DEF d
  <2> QED BY <1>3, SMT DEF Kept
<1> HIDE DEF k
<1> QED BY <1>4, <1>5, SMT DEF Kept

(* Sign-in: its handlers, and the answers of the server to them.           *)
LEMMA KeptSignIn ==
    ASSUME NEW v, NEW w, NEW who, Kept(v)
    PROVE  /\ AllKept(App!do_register(v, who)) /\ AllKept(App!do_login(v, w, who))
           /\ AllKept(App!do_complete_login_mfa(v, w, who)) /\ AllKept(App!do_restore(v, w))
  BY KeptRefuse, KeptSubmit, Zenon
     DEF AllKept, App!do_register, App!do_login, App!do_complete_login_mfa, App!do_restore

LEMMA KeptRegistered == ASSUME NEW v, NEW w, NEW t, Kept(v), NEW p \in App!registered(v, w, t) PROVE Kept(p[1])
  BY KeptRefuse, KeptSpawn, SMT DEF App!registered
LEMMA KeptLoggedIn ==
    ASSUME NEW v, NEW t, Kept(v) PROVE AllKept(App!logged_in(v, t)) /\ AllKept(App!login_mfa_done(v, t))
<1> DEFINE m == [v EXCEPT !.mfa = t.who, !.form = "Idle"]
           r == [v EXCEPT !.data["recovery_mnemonic"] = IF t.arg = "registered" THEN App!Origin(t) ELSE @]
<1>1. Kept(m)
  BY SMT DEF Kept
<1>2. Kept(r)
  BY SMT DEF Kept
<1>3. App!logged_in(v, t) = {App!Refuse(v), m, App!Spawn(r, "apply", t.who, NoAccount)}
  BY DEF App!logged_in
<1>4. App!login_mfa_done(v, t) \subseteq {App!Refuse(v), m, App!Spawn(v, "apply", t.who, NoAccount)}
  BY DEF App!login_mfa_done
<1> HIDE DEF m, r
<1> QED BY <1>1, <1>2, <1>3, <1>4, KeptRefuse, KeptSpawn, Zenon DEF AllKept

LEMMA KeptApply ==
    ASSUME NEW v, NEW w, NEW t, Kept(v), NEW p \in App!apply_login(v, w, t) PROVE Kept(p[1])
<1> DEFINE s(l) == App!Spawn(App!Opened(v, t.who, l), "check_for_updates", t.who, NoAccount)
<1>1. ASSUME NEW l PROVE Kept(s(l))
  BY KeptOpened, KeptSpawn, Zenon
<1>2. ASSUME NEW x, Kept(x)
      PROVE  Kept([x EXCEPT !.data["recovery_mnemonic"] = App!Origin(t), !.mfa = NoAccount, !.subscribed = @ \cup {t.who}])
  BY <1>2, SMT DEF Kept
<1>3. CASE p = <<App!Refuse(v), w>>
  BY <1>3, KeptRefuse, SMT
<1>4. CASE \E l \in ItemLists : p =
              <<[s(l) EXCEPT !.data["recovery_mnemonic"] = App!Origin(t), !.mfa = NoAccount,
                             !.subscribed = @ \cup {t.who}],
                [w EXCEPT !.session = [who |-> t.who, gen |-> w.gen[t.who]]]>>
  <2> PICK l \in ItemLists : p =
              <<[s(l) EXCEPT !.data["recovery_mnemonic"] = App!Origin(t), !.mfa = NoAccount,
                             !.subscribed = @ \cup {t.who}],
                [w EXCEPT !.session = [who |-> t.who, gen |-> w.gen[t.who]]]>>
    BY <1>4
  <2> HIDE DEF s
  <2>1. p[1] = [s(l) EXCEPT !.data["recovery_mnemonic"] = App!Origin(t), !.mfa = NoAccount,
                             !.subscribed = @ \cup {t.who}]
    OBVIOUS
  <2> QED BY <2>1, <1>1, <1>2, Zenon
<1> QED BY <1>3, <1>4, Zenon DEF App!apply_login

LEMMA KeptRestored == ASSUME NEW v, NEW w, NEW t, Kept(v) PROVE AllKept(App!restored(v, w, t))
<1>1. ASSUME NEW l PROVE Kept([App!Opened(v, t.who, l) EXCEPT !.restore = NoAccount, !.keyGen = t.arg])
  <2>1. Kept(App!Opened(v, t.who, l))
    BY KeptOpened, Zenon
  <2> QED BY <2>1, SMT DEF Kept
<1> QED BY <1>1, KeptRefuse, Zenon DEF AllKept, App!restored

(* The vault: handlers, then what the answers to their tasks leave.        *)
LEMMA KeptVault ==
    ASSUME NEW v, NEW i, Kept(v)
    PROVE  /\ Kept(App!select_item(v, i)) /\ Kept(App!do_reveal(v)) /\ Kept(App!trigger_refresh(v))
           /\ Kept(App!request_delete(v)) /\ Kept(App!do_delete(v)) /\ Kept(App!do_sync(v))
           /\ Kept(App!do_add_vault_item(v)) /\ Kept(App!do_rotate_key(v))
           /\ Kept(App!install_pending_update(v)) /\ Kept(App!postpone_update(v))
<1>1. Kept([v EXCEPT !.handle = NoAccount])
  BY SMT DEF Kept
<1>2. Kept([v EXCEPT !.item = i, !.handle = NoAccount])
  BY SMT DEF Kept
<1>3. ASSUME NEW x PROVE Kept([v EXCEPT !.pending["delete"] = x])
  BY SMT DEF Kept
<1>4. Kept([v EXCEPT !.on = @ \ {"update"}])
  BY SMT DEF Kept
<1>5. Kept(App!select_item(v, i))
  <2> DEFINE c == [v EXCEPT !.item = i, !.handle = NoAccount]
  <2>1. App!select_item(v, i) = v \/ App!select_item(v, i) = App!Clear(c, {"revealed"})
    BY DEF App!select_item
  <2> HIDE DEF c
  <2>2. Kept(c)
    BY <1>2 DEF c
  <2> QED BY <2>1, <2>2, KeptClear, Zenon
<1>6. Kept(App!do_reveal(v))
  BY <1>1, KeptClear, KeptSpawn, Zenon DEF App!do_reveal
<1>7. Kept(App!trigger_refresh(v)) /\ Kept(App!do_sync(v)) /\ Kept(App!do_rotate_key(v)) /\ Kept(App!do_add_vault_item(v))
  BY KeptWith, Zenon DEF App!trigger_refresh, App!do_sync, App!do_rotate_key, App!do_add_vault_item
<1>8. Kept(App!request_delete(v))
  BY SMT DEF Kept, App!request_delete
<1>9. Kept(App!do_delete(v))
  <2> DEFINE c == [v EXCEPT !.pending["delete"] = NoAccount]
  <2>1. App!do_delete(v) = App!WithClient(c, "do_delete", v.pending["delete"])
    BY DEF App!do_delete
  <2>2. Kept(c)
    BY <1>3
  <2> HIDE DEF c
  <2> QED BY <2>1, <2>2, KeptWith, Zenon
<1>10. Kept(App!install_pending_update(v)) /\ Kept(App!postpone_update(v))
  BY <1>4, KeptSpawn, Zenon DEF App!install_pending_update, App!postpone_update
<1> QED BY <1>5, <1>6, <1>7, <1>8, <1>9, <1>10

LEMMA KeptVaultAnswers ==
    ASSUME NEW v, NEW t, Kept(v)
    PROVE  /\ AllKept(App!revealed(v, t)) /\ AllKept(App!searched(v)) /\ AllKept(App!deleted(v))
           /\ AllKept(App!synced(v)) /\ AllKept(App!added(v)) /\ AllKept(App!check_for_updates(v))
<1>1. AllKept(App!revealed(v, t))
  <2> DEFINE c == [v EXCEPT !.handle = App!Origin(t), !.data["revealed"] = App!Origin(t)]
  <2>1. App!revealed(v, t) = {v, c}
    BY DEF App!revealed
  <2>2. Kept(c)
    BY SMT DEF Kept
  <2> HIDE DEF c
  <2> QED BY <2>1, <2>2, Zenon DEF AllKept
<1>2. AllKept(App!searched(v))
  BY KeptSetItems, Zenon DEF AllKept, App!searched
<1>3. AllKept(App!deleted(v))
  <2> DEFINE c == [v EXCEPT !.pending["delete"] = NoAccount]
  <2>1. App!deleted(v) = {v, App!trigger_refresh(c)}
    BY DEF App!deleted
  <2>2. Kept(c)
    BY SMT DEF Kept
  <2> HIDE DEF c
  <2> QED BY <2>1, <2>2, KeptVault, Zenon DEF AllKept
<1>4. AllKept(App!synced(v))
  BY KeptVault, Zenon DEF AllKept, App!synced
<1>5. AllKept(App!added(v)) /\ AllKept(App!check_for_updates(v))
  <2> DEFINE c == [v EXCEPT !.on = @ \ {"vault_adding"}]
             d == [v EXCEPT !.on = @ \cup {"update"}]
  <2>1. App!added(v) = {v, App!trigger_refresh(c)} /\ App!check_for_updates(v) = {v, d}
    BY DEF App!added, App!check_for_updates
  <2>2. Kept(c) /\ Kept(d)
    BY KeptField, Zenon
  <2> HIDE DEF c, d
  <2> QED BY <2>1, <2>2, KeptVault, Zenon DEF AllKept
<1> QED BY <1>1, <1>2, <1>3, <1>4, <1>5

(* Events of the core client, and sharing.                                 *)
LEMMA KeptEvents ==
    ASSUME NEW v, NEW who, NEW x, Kept(v)
    PROVE  Kept(App!subscribe_quarantine_events(v, who)) /\ Kept(App!subscribe_conflict_events(v, who, x))
  BY KeptField, KeptVault, Zenon DEF App!subscribe_quarantine_events, App!subscribe_conflict_events

LEMMA KeptSharing ==
    ASSUME NEW v, Kept(v)
    PROVE  /\ Kept(App!resolve_conflict_head(v)) /\ Kept(App!request_share(v)) /\ Kept(App!do_share(v))
           /\ Kept(App!do_create_group(v)) /\ Kept(App!do_add_group_member(v)) /\ Kept(App!do_share_to_group(v))
<1>1. Kept(App!resolve_conflict_head(v))
  BY KeptField, KeptWith, Zenon DEF App!resolve_conflict_head
<1>2. Kept(App!request_share(v))
  BY SMT DEF Kept, App!request_share
<1>3. /\ Kept(App!do_share(v)) /\ Kept(App!do_create_group(v))
      /\ Kept(App!do_add_group_member(v)) /\ Kept(App!do_share_to_group(v))
  BY KeptWith, Zenon DEF App!do_share, App!do_create_group, App!do_add_group_member, App!do_share_to_group
<1> QED BY <1>1, <1>2, <1>3

LEMMA KeptSharingAnswers ==
    ASSUME NEW v, NEW t, Kept(v) PROVE AllKept(App!shared(v)) /\ AllKept(App!group_created(v, t))
<1> DEFINE c == [v EXCEPT !.pending["share"] = NoAccount]
           g == [v EXCEPT !.group = t.who]
<1>1. App!shared(v) = {v, c} /\ App!group_created(v, t) = {v, g}
  BY DEF App!shared, App!group_created
<1>2. Kept(c) /\ Kept(g)
  BY SMT DEF Kept
<1> HIDE DEF c, g
<1> QED BY <1>1, <1>2, Zenon DEF AllKept

LEMMA KeptRotated ==
    ASSUME NEW v, NEW w, NEW t, Kept(v), NEW p \in App!rotated(v, w, t) PROVE Kept(p[1])
<1>1. Kept([v EXCEPT !.keyGen = t.gen + 1])
  BY KeptField, Zenon
<1> DEFINE c == [v EXCEPT !.keyGen = t.gen + 1]
<1>2. p[1] \in {v, c}
  BY DEF App!rotated
<1> QED BY <1>1, <1>2, Zenon

(* Projects, their members and secrets.                                    *)
LEMMA KeptDetail ==
    ASSUME NEW v, NEW i, NEW l, Kept(v)
    PROVE  /\ Kept(App!load_project_detail(v)) /\ Kept(App!clear_detail(v))
           /\ Kept(App!do_refresh_projects(v)) /\ Kept(App!do_refresh_projects_impl(v))
           /\ Kept(App!do_select_project(v, i)) /\ Kept(App!do_create_project(v))
<1>1. ASSUME NEW x, Kept(x) PROVE Kept(App!load_project_detail(x)) /\ Kept(App!clear_detail(x))
  BY <1>1, KeptBusy, KeptWith, KeptClear, Zenon DEF App!load_project_detail, App!clear_detail
<1>2. Kept(App!do_refresh_projects(v)) /\ Kept(App!do_refresh_projects_impl(v)) /\ Kept(App!do_create_project(v))
  BY KeptBusy, KeptWith, Zenon DEF App!do_refresh_projects, App!do_refresh_projects_impl, App!do_create_project
<1>3. Kept(App!do_select_project(v, i))
  <2> DEFINE c == [v EXCEPT !.project = i, !.target = NoAccount]
  <2>1. App!do_select_project(v, i) \in {v, App!load_project_detail(App!clear_detail(c))}
    BY DEF App!do_select_project
  <2>2. Kept(c)
    BY SMT DEF Kept
  <2> HIDE DEF c
  <2> QED BY <2>1, <2>2, <1>1, Zenon
<1> QED BY <1>1, <1>2, <1>3, Zenon

LEMMA KeptDetailAnswers ==
    ASSUME NEW v, NEW t, Kept(v)
    PROVE  AllKept(App!detail_loaded(v, t)) /\ AllKept(App!projects_listed(v)) /\ AllKept(App!project_created(v))
<1>1. AllKept(App!detail_loaded(v, t))
  <2> DEFINE u == App!Idle(v, "projects")
             m == [u EXCEPT !.data["members"] = App!Origin(t)]
  <2>1. App!detail_loaded(v, t) = {u, m, App!set_secrets(u, App!Origin(t)), App!set_secrets(m, App!Origin(t))}
    BY DEF App!detail_loaded
  <2>2. Kept(u)
    BY KeptBusy, Zenon
  <2> HIDE DEF u
  <2>3. Kept(m)
    BY <2>2, SMT DEF Kept
  <2> HIDE DEF m
  <2> QED BY <2>1, <2>2, <2>3, KeptSecrets, Zenon DEF AllKept
<1>2. AllKept(App!projects_listed(v)) /\ AllKept(App!project_created(v))
  BY KeptDetail, KeptSetProjects, Zenon DEF AllKept, App!projects_listed, App!project_created
<1> QED BY <1>1, <1>2

LEMMA KeptRows ==
    ASSUME NEW v, NEW who, Kept(v)
    PROVE  /\ Kept(App!reload_members(v)) /\ Kept(App!reload_secrets(v)) /\ Kept(App!do_add_member(v))
           /\ Kept(App!do_update_member_permission(v)) /\ Kept(App!do_remove_member(v))
           /\ Kept(App!do_add_secret(v)) /\ Kept(App!do_reveal_secret(v)) /\ Kept(App!request_delete_secret(v))
           /\ Kept(App!do_delete_secret(v)) /\ Kept(App!request_offboard(v, who)) /\ Kept(App!do_offboard(v))
<1>1. ASSUME NEW do PROVE Kept(App!OfSelected(v, do))
  BY KeptWith, Zenon DEF App!OfSelected
<1>2. /\ Kept(App!reload_members(v)) /\ Kept(App!reload_secrets(v)) /\ Kept(App!do_add_member(v))
      /\ Kept(App!do_update_member_permission(v)) /\ Kept(App!do_remove_member(v)) /\ Kept(App!do_add_secret(v))
  BY <1>1, Zenon DEF App!reload_members, App!reload_secrets, App!do_add_member, App!do_update_member_permission,
                     App!do_remove_member, App!do_add_secret
<1>3. Kept(App!do_reveal_secret(v))
  BY KeptField, KeptWith, Zenon DEF App!do_reveal_secret
<1> DEFINE s == [v EXCEPT !.pending["delete_secret"] = NoAccount]
           o == [v EXCEPT !.pending["offboard"] = NoAccount]
<1>4. Kept(App!request_delete_secret(v)) /\ Kept(App!request_offboard(v, who)) /\ Kept(s) /\ Kept(o)
  BY SMT DEF Kept, App!request_delete_secret, App!request_offboard
<1>5. /\ App!do_delete_secret(v) = App!WithToken(s, "do_delete_secret", v.pending["delete_secret"])
      /\ App!do_offboard(v) = App!WithToken(o, "do_offboard", v.pending["offboard"])
  BY DEF App!do_delete_secret, App!do_offboard
<1> HIDE DEF s, o
<1>6. Kept(App!do_delete_secret(v)) /\ Kept(App!do_offboard(v))
  BY <1>4, <1>5, KeptWith, Zenon
<1> QED BY <1>2, <1>3, <1>4, <1>6

LEMMA KeptRowsAnswers ==
    ASSUME NEW v, NEW t, Kept(v)
    PROVE  /\ AllKept(App!member_changed(v)) /\ AllKept(App!secret_added(v)) /\ AllKept(App!secret_revealed(v, t))
           /\ AllKept(App!secret_deleted(v)) /\ AllKept(App!offboarded(v))
<1> DEFINE r == [v EXCEPT !.data["project_revealed"] = App!Origin(t)]
           s == [v EXCEPT !.pending["delete_secret"] = NoAccount]
           o == [v EXCEPT !.pending["offboard"] = NoAccount]
<1>1. Kept(r) /\ Kept(s) /\ Kept(o)
  BY SMT DEF Kept
<1>2. /\ App!secret_revealed(v, t) \subseteq {v, r}
      /\ App!secret_deleted(v) = {v, App!reload_secrets(s)} /\ App!offboarded(v) = {v, o}
  BY DEF App!secret_revealed, App!secret_deleted, App!offboarded
<1> HIDE DEF r, s, o
<1> QED BY <1>1, <1>2, KeptRows, Zenon DEF AllKept, App!member_changed, App!secret_added

(* The sections that list what the server holds.                           *)
LEMMA KeptFetched == ASSUME NEW v, NEW t, NEW fs, Kept(v) PROVE AllKept(App!Fetched(v, t, fs))
<1>1. ASSUME NEW ok PROVE Kept([v EXCEPT !.data = [f \in App!Fields |-> IF f \in ok THEN App!Origin(t) ELSE @[f]]])
  BY SMT DEF Kept
<1> QED BY <1>1, Zenon DEF AllKept, App!Fetched

LEMMA KeptAdministration ==
    ASSUME NEW v, Kept(v)
    PROVE  /\ Kept(App!do_refresh_settings(v)) /\ Kept(App!do_refresh_settings_to(v)) /\ Kept(App!do_create_machine(v))
           /\ Kept(App!do_toggle_machine(v)) /\ Kept(App!do_delete_machine(v)) /\ Kept(App!do_revoke_token(v))
           /\ Kept(App!do_create_token(v)) /\ Kept(App!do_refresh_dashboard(v)) /\ Kept(App!do_refresh_secrets(v))
           /\ Kept(App!do_reveal_overview_secret(v)) /\ Kept(App!do_refresh_mfa(v)) /\ Kept(App!do_enroll_totp(v))
           /\ Kept(App!do_verify_totp(v))
<1>1. /\ Kept(App!do_refresh_settings(v)) /\ Kept(App!do_refresh_settings_to(v)) /\ Kept(App!do_create_machine(v))
      /\ Kept(App!do_toggle_machine(v)) /\ Kept(App!do_delete_machine(v)) /\ Kept(App!do_revoke_token(v))
      /\ Kept(App!do_create_token(v)) /\ Kept(App!do_refresh_mfa(v)) /\ Kept(App!do_enroll_totp(v))
      /\ Kept(App!do_verify_totp(v))
  BY KeptWith, Zenon
     DEF App!do_refresh_settings, App!do_refresh_settings_to, App!do_create_machine, App!do_toggle_machine,
         App!do_delete_machine, App!do_revoke_token, App!do_create_token, App!do_refresh_mfa, App!do_enroll_totp,
         App!do_verify_totp
<1>2. Kept(App!do_refresh_dashboard(v)) /\ Kept(App!do_refresh_secrets(v))
  BY KeptBusy, KeptWith, Zenon DEF App!do_refresh_dashboard, App!do_refresh_secrets
<1>3. Kept(App!do_reveal_overview_secret(v))
  BY KeptClear, KeptWith, Zenon DEF App!do_reveal_overview_secret
<1> QED BY <1>1, <1>2, <1>3

LEMMA KeptAdministrationAnswers ==
    ASSUME NEW v, NEW t, Kept(v)
    PROVE  /\ AllKept(App!machine_changed(v)) /\ AllKept(App!token_created(v, t)) /\ AllKept(App!dashboard_loaded(v, t))
           /\ AllKept(App!secrets_listed(v, t)) /\ AllKept(App!overview_revealed(v, t)) /\ AllKept(App!totp_verified(v, t))
<1> DEFINE i == [v EXCEPT !.data["issued_token"] = App!Origin(t)]
           o == [v EXCEPT !.data["secrets_revealed"] = App!Origin(t)]
           m == [v EXCEPT !.data["mfa_recovery_codes"] = App!Origin(t)]
           b == App!Idle(v, "secrets")
           s == [b EXCEPT !.data["secrets_rows"] = App!Origin(t)]
<1>1. Kept(i) /\ Kept(o) /\ Kept(m)
  BY SMT DEF Kept
<1>2. Kept(b)
  BY KeptBusy, Zenon
<1>3. Kept(s)
  <2> HIDE DEF b
  <2> QED BY <1>2, SMT DEF Kept
<1>4. /\ App!token_created(v, t) = {v, App!do_refresh_settings_to(i)}
      /\ App!overview_revealed(v, t) \subseteq {v, o}
      /\ App!secrets_listed(v, t) = {b, App!Clear(s, {"secrets_revealed"})}
  BY DEF App!token_created, App!overview_revealed, App!secrets_listed
<1>5. App!totp_verified(v, t) = {v, App!WithToken(App!Clear(m, {"mfa_enrolled", "mfa_status"}), "do_refresh_mfa", NoAccount)}
  BY DEF App!totp_verified
<1>6. AllKept(App!dashboard_loaded(v, t))
  <2> DEFINE got == App!Fetched(App!Idle(v, "dashboard"), t, {"machines", "tokens", "mfa_status", "backup"})
  <2>1. AllKept(got)
    BY KeptBusy, KeptFetched, Zenon
  <2>2. ASSUME NEW x \in App!dashboard_loaded(v, t)
        PROVE  x \in got \/ \E u \in got, l \in ProjectLists : x = App!set_projects(u, l)
    <3> HIDE DEF got
    <3>1. App!dashboard_loaded(v, t) = got \cup {App!set_projects(u, l) : u \in got, l \in ProjectLists}
      BY DEF App!dashboard_loaded, got
    <3>2. x \in got \/ x \in {App!set_projects(u, l) : u \in got, l \in ProjectLists}
      BY <3>1, SMT
    <3> QED BY <3>2, SMT
  <2> HIDE DEF got
  <2>3. ASSUME NEW u \in got, NEW l PROVE Kept(u) /\ Kept(App!set_projects(u, l))
    BY <2>1, KeptSetProjects, Zenon DEF AllKept
  <2> SUFFICES ASSUME NEW x \in App!dashboard_loaded(v, t) PROVE Kept(x)
    BY Zenon DEF AllKept
  <2> QED BY <2>2, <2>3, Zenon
<1> HIDE DEF i, o, m, b, s
<1>7. AllKept(App!token_created(v, t)) /\ AllKept(App!overview_revealed(v, t)) /\ AllKept(App!secrets_listed(v, t))
  <2>1. AllKept(App!token_created(v, t))
    BY <1>1, <1>4, KeptAdministration, Zenon DEF AllKept
  <2>2. AllKept(App!overview_revealed(v, t))
    BY <1>1, <1>4, Zenon DEF AllKept
  <2>3. AllKept(App!secrets_listed(v, t))
    <3>1. Kept(App!Clear(s, {"secrets_revealed"}))
      BY <1>3, KeptClear, Zenon
    <3> QED BY <1>2, <1>4, <3>1, Zenon DEF AllKept
  <2> QED BY <2>1, <2>2, <2>3
<1>8. AllKept(App!totp_verified(v, t)) /\ AllKept(App!machine_changed(v))
  BY <1>1, <1>5, KeptClear, KeptWith, KeptAdministration, Zenon DEF AllKept, App!machine_changed
<1> QED BY <1>6, <1>7, <1>8

LEMMA KeptReports ==
    ASSUME NEW v, Kept(v)
    PROVE  /\ Kept(App!do_refresh_shares(v)) /\ Kept(App!load_audit(v)) /\ Kept(App!do_refresh_backup(v))
           /\ Kept(App!do_export_backup(v)) /\ Kept(App!do_export_vault(v)) /\ Kept(App!do_export_audit(v))
           /\ Kept(App!do_restore_backup(v))
<1>1. Kept(App!load_audit(v))
  BY KeptField, KeptBusy, KeptWith, Zenon DEF App!load_audit
<1> QED BY <1>1, KeptBusy, KeptWith, Zenon
        DEF App!do_refresh_shares, App!do_refresh_backup, App!do_export_backup, App!do_export_vault,
            App!do_export_audit, App!do_restore_backup

LEMMA KeptReportsAnswers ==
    ASSUME NEW v, NEW t, Kept(v)
    PROVE  /\ AllKept(App!shares_loaded(v, t)) /\ AllKept(App!audit_loaded(v, t))
           /\ AllKept(App!backup_exported(v)) /\ AllKept(App!written(v))
<1> DEFINE u == App!Idle(v, "audit")
           r == [u EXCEPT !.data["audit_rows"] = App!Origin(t)]
           x == [u EXCEPT !.on = @ \cup {"audit_text"}]
<1>1. App!audit_loaded(v, t) = {r, App!Clear(u, {"audit_rows"}), x}
  BY DEF App!audit_loaded
<1>2. Kept(u)
  BY KeptBusy, Zenon
<1> HIDE DEF u
<1>3. Kept(r) /\ Kept(x)
  BY <1>2, SMT DEF Kept
<1> HIDE DEF r, x
<1>4. AllKept(App!audit_loaded(v, t))
  BY <1>1, <1>2, <1>3, KeptClear, Zenon DEF AllKept
<1> QED BY <1>4, KeptBusy, KeptFetched, KeptReports, Zenon DEF AllKept, App!shares_loaded, App!backup_exported, App!written

(* Sections, onboarding, the tour, the clipboard.                          *)
LEMMA KeptSection == ASSUME NEW v, NEW sec, Kept(v) PROVE Kept(App!activate_section(v, sec))
<1>1. Kept([v EXCEPT !.section = sec])
  BY KeptField, Zenon
<1> QED BY <1>1, KeptDetail, KeptAdministration, KeptReports, Zenon DEF App!activate_section

LEMMA KeptGuides ==
    ASSUME NEW v, Kept(v)
    PROVE  /\ Kept(App!onboarding_next(v)) /\ Kept(App!onboarding_back(v)) /\ Kept(App!onboarding_skip(v))
           /\ Kept(App!trigger_replay_onboarding(v)) /\ Kept(App!trigger_replay_tour(v)) /\ Kept(App!tour_next(v))
           /\ Kept(App!tour_back(v)) /\ Kept(App!tour_close(v)) /\ Kept(App!copy_with_timed_clear(v))
           /\ Kept(App!do_copy_generator(v))
<1>1. Kept(App!onboarding_next(v))
  BY KeptField, KeptDetail, Zenon DEF App!onboarding_next, App!do_onboarding_create_vault
<1>2. Kept(App!onboarding_back(v)) /\ Kept(App!onboarding_skip(v)) /\ Kept(App!trigger_replay_onboarding(v))
  BY KeptField, Zenon DEF App!onboarding_back, App!onboarding_skip, App!trigger_replay_onboarding
<1>3. Kept(App!trigger_replay_tour(v)) /\ Kept(App!tour_next(v)) /\ Kept(App!tour_back(v)) /\ Kept(App!tour_close(v))
  BY KeptField, KeptSection, Zenon DEF App!trigger_replay_tour, App!tour_next, App!tour_back, App!tour_close
<1>4. Kept(App!copy_with_timed_clear(v)) /\ Kept(App!do_copy_generator(v))
  BY KeptField, KeptSpawn, Zenon DEF App!copy_with_timed_clear, App!do_copy_generator
<1> QED BY <1>1, <1>2, <1>3, <1>4

(* The answer to a task, applied to whatever the view has become.          *)
LEMMA KeptOutcome == ASSUME NEW v, NEW t, Kept(v) PROVE AllKept(App!Outcome(v, t))
<1>1. /\ AllKept(App!logged_in(v, t)) /\ AllKept(App!login_mfa_done(v, t)) /\ AllKept(App!restored(v, world, t))
  BY KeptLoggedIn, KeptRestored, Zenon
<1>2. /\ AllKept(App!projects_listed(v)) /\ AllKept(App!projects_listed(App!Idle(v, "projects")))
      /\ AllKept(App!detail_loaded(v, t)) /\ AllKept(App!project_created(v))
  BY KeptBusy, KeptDetailAnswers, Zenon
<1>3. /\ AllKept(App!Fetched(v, t, {"members"})) /\ AllKept(App!Fetched(v, t, {"machines", "tokens"}))
      /\ AllKept(App!Fetched(v, t, {"mfa_status"})) /\ AllKept(App!Fetched(v, t, {"mfa_enrolled"}))
      /\ AllKept(App!Fetched(v, t, {"backup"}))
  BY KeptFetched, Zenon
<1>4. AllKept({v, App!set_secrets(v, App!Origin(t))}) /\ AllKept({v})
  BY KeptSecrets, Zenon DEF AllKept
<1> QED
  BY <1>1, <1>2, <1>3, <1>4, KeptVaultAnswers, KeptSharingAnswers, KeptRowsAnswers,
     KeptAdministrationAnswers, KeptReportsAnswers, Zenon DEF App!Outcome

LEMMA ReplyKeeps == ASSUME NEW slots, Kept(view), App!Reply(slots) PROVE Kept(view')
<1>1. PICK i \in slots \cap DOMAIN view.tasks :
        \E after \in CASE view.tasks[i].do = "register" -> App!registered(App!Without(i), world, view.tasks[i])
                       [] view.tasks[i].do = "apply" -> App!apply_login(App!Without(i), world, view.tasks[i])
                       [] view.tasks[i].do = "do_rotate_key" -> App!rotated(App!Without(i), world, view.tasks[i])
                       [] view.tasks[i].do = "clear_clipboard" ->
                            {<<App!Without(i), App!timed_clear(App!Without(i), world, view.tasks[i])>>}
                       [] OTHER -> App!Outcome(App!Without(i), view.tasks[i]) \X {world} :
            view' = after[1]
  BY Zenon DEF App!Reply
<1> DEFINE t == view.tasks[i]
           v == App!Without(i)
<1>2. Kept(v)
  BY KeptField, Zenon DEF App!Without
<1> HIDE DEF t, v
<1>3. PICK after \in CASE t.do = "register" -> App!registered(v, world, t)
                       [] t.do = "apply" -> App!apply_login(v, world, t)
                       [] t.do = "do_rotate_key" -> App!rotated(v, world, t)
                       [] t.do = "clear_clipboard" -> {<<v, App!timed_clear(v, world, t)>>}
                       [] OTHER -> App!Outcome(v, t) \X {world} :
            view' = after[1]
  BY <1>1, Zenon DEF t, v
<1>4. \/ after \in App!registered(v, world, t) \/ after \in App!apply_login(v, world, t)
      \/ after \in App!rotated(v, world, t) \/ after \in {<<v, App!timed_clear(v, world, t)>>}
      \/ after \in App!Outcome(v, t) \X {world}
  BY <1>3, Zenon
<1>5. CASE after \in App!registered(v, world, t)
  BY <1>2, <1>3, <1>5, KeptRegistered, Zenon
<1>6. CASE after \in App!apply_login(v, world, t)
  BY <1>2, <1>3, <1>6, KeptApply, Zenon
<1>7. CASE after \in App!rotated(v, world, t)
  BY <1>2, <1>3, <1>7, KeptRotated, Zenon
<1>8. CASE after \in {<<v, App!timed_clear(v, world, t)>>}
  <2>1. after[1] = v
    BY <1>8
  <2> QED BY <2>1, <1>2, <1>3, Zenon
<1>9. CASE after \in App!Outcome(v, t) \X {world}
  <2>1. after[1] \in App!Outcome(v, t)
    BY <1>9
  <2> QED BY <2>1, <1>2, <1>3, KeptOutcome, Zenon DEF AllKept
<1> QED BY <1>4, <1>5, <1>6, <1>7, <1>8, <1>9

(* The actions.                                                            *)
LEMMA PressKeeps == ASSUME NEW h, NEW vs, AllKept(vs), App!Do(h, vs) PROVE Kept(view')
  BY Zenon DEF AllKept, App!Do
LEMMA SetKeeps == ASSUME NEW h, NEW v, Kept(v), App!Set(h, v) PROVE Kept(view')
  BY Zenon DEF App!Do, App!Set
LEMMA DismissKeeps == ASSUME NEW h, NEW m, Kept(view), App!Dismiss(h, m) PROVE Kept(view')
<1>1. Kept([view EXCEPT !.pending[m] = NoAccount])
  BY SMT DEF Kept
<1> QED BY <1>1, SetKeeps, Zenon DEF App!Dismiss
LEMMA ToggleKeeps == ASSUME NEW h, Kept(view), App!Toggle(h) PROVE Kept(view')
  BY KeptField, SetKeeps, Zenon DEF App!Toggle

LEMMA SignInKeeps == ASSUME Kept(view), App!SignIn PROVE Kept(view')
<1>1. CASE App!Set("switch_mode", [view EXCEPT !.mode = IF @ = "Login" THEN "Register" ELSE "Login", !.form = "Idle"])
  <2>1. Kept([view EXCEPT !.mode = IF @ = "Login" THEN "Register" ELSE "Login", !.form = "Idle"])
    BY SMT DEF Kept
  <2> QED BY <1>1, <2>1, SetKeeps, Zenon
<1>2. CASE App!Do("do_restore", App!do_restore(view, world))
  BY <1>2, KeptSignIn, PressKeeps, Zenon
<1>3. CASE \E a \in Accounts :
              \/ App!Do("do_register", App!do_register(view, a)) \/ App!Do("do_login", App!do_login(view, world, a))
              \/ App!Do("do_complete_login_mfa", App!do_complete_login_mfa(view, world, a))
  BY <1>3, KeptSignIn, PressKeeps, Zenon
<1> QED BY <1>1, <1>2, <1>3, Zenon DEF App!SignIn

LEMMA VaultKeeps == ASSUME Kept(view), App!Vault PROVE Kept(view')
  BY KeptVault, SetKeeps, DismissKeeps, ToggleKeeps, Zenon DEF App!Vault
LEMMA EventsKeep == ASSUME Kept(view), App!Events PROVE Kept(view')
  BY KeptEvents, Zenon DEF App!Events
LEMMA SharingKeeps == ASSUME Kept(view), App!Sharing PROVE Kept(view')
  BY KeptSharing, SetKeeps, DismissKeeps, Zenon DEF App!Sharing
LEMMA PagesKeep == ASSUME Kept(view), App!ProjectPages PROVE Kept(view')
<1>1. Kept([view EXCEPT !.on = @ \ {"create_project"}])
  BY KeptField, Zenon
<1>2. Kept([view EXCEPT !.tab = IF @ = "Members" THEN "Secrets" ELSE "Members"])
  BY KeptField, Zenon
<1> QED BY <1>1, <1>2, KeptDetail, SetKeeps, ToggleKeeps, Zenon DEF App!ProjectPages
LEMMA RowsKeep == ASSUME Kept(view), App!ProjectRows PROVE Kept(view')
  BY KeptRows, SetKeeps, DismissKeeps, Zenon DEF App!ProjectRows
LEMMA AdministrationKeeps == ASSUME Kept(view), App!Administration PROVE Kept(view')
  BY KeptAdministration, KeptClear, SetKeeps, Zenon DEF App!Administration
LEMMA ReportsKeep == ASSUME Kept(view), App!Reports PROVE Kept(view')
  BY KeptReports, SetKeeps, Zenon DEF App!Reports, App!RenderAudit
LEMMA GuidesKeep == ASSUME Kept(view), App!Guides PROVE Kept(view')
  BY KeptGuides, KeptSection, SetKeeps, ToggleKeeps, Zenon DEF App!Guides
LEMMA EscapeKeeps == ASSUME Kept(view), App!Escape PROVE Kept(view')
<1> DEFINE e == [view EXCEPT !.on = @ \ {"vault_adding", "create_project"}, !.idle = FALSE,
                            !.pending = [m \in App!Modals |-> IF m = "share" THEN @[m] ELSE NoAccount]]
<1>1. view' = e
  BY DEF App!Escape
<1>2. Kept(e)
  BY SMT DEF Kept
<1> HIDE DEF e
<1> QED BY <1>1, <1>2, Zenon
LEMMA OthersKeep ==
    ASSUME Kept(view),
           App!Lock \/ App!AutoLock \/ App!GoIdle \/ App!KeyPress \/ App!Copy \/ App!Relaunch
    PROVE  Kept(view')
<1>1. CASE App!Lock \/ App!AutoLock
  BY <1>1, KeptLock, Zenon DEF App!Lock, App!AutoLock
<1>2. CASE App!GoIdle \/ App!KeyPress
  <2>1. Kept([view EXCEPT !.idle = TRUE]) /\ Kept([view EXCEPT !.idle = FALSE])
    BY SMT DEF Kept
  <2> QED BY <1>2, <2>1, Zenon DEF App!GoIdle, App!KeyPress
<1>3. CASE App!Copy
  BY <1>3, KeptGuides, Zenon DEF App!Copy
<1>4. CASE App!Relaunch
  BY <1>4, KeptNew, Zenon DEF App!Relaunch
<1> QED BY <1>1, <1>2, <1>3, <1>4

LEMMA AppStep == ASSUME Kept(view), [App!Next]_App!vars PROVE Kept(view')
<1>1. CASE UNCHANGED App!vars
  BY <1>1, Zenon DEF App!vars
<1>2. CASE App!Next
  BY <1>2, SignInKeeps, VaultKeeps, EventsKeep, SharingKeeps, PagesKeep, RowsKeep, AdministrationKeeps,
     ReportsKeep, GuidesKeep, EscapeKeeps, OthersKeep, ReplyKeeps, Zenon DEF App!Next
<1> QED BY <1>1, <1>2

(* KeysTogether of DesktopApp: a login, a restore, a lock or a launch      *)
(* writes the core client, the data key and the session token together,    *)
(* and no answer of a task, however late it comes, writes one of them      *)
(* alone; so the view never holds a key or a token without its client, for *)
(* any accounts, lists, scenes and number of tasks in flight.              *)
THEOREM KeysStayTogether == App!Spec => []KeysTogether
<1>1. App!Init => Kept(view)
  BY KeptNew, Zenon DEF App!Init
<1>2. Kept(view) /\ [App!Next]_App!vars => Kept(view)'
  BY AppStep, Zenon
<1>3. Kept(view) => KeysTogether
  BY Zenon DEF Kept, KeysTogether, App!KeysTogether
<1> QED BY <1>1, <1>2, <1>3, PTL DEF App!Spec
=============================================================================
