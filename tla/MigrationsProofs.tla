-------------------------- MODULE MigrationsProofs --------------------------
(***************************************************************************)
(* Proofs about Migrations: types, the truth of the ledger, and what a     *)
(* plugin may rely on.  Whoever works on the migrations, or has a COMMIT   *)
(* under way, holds the lock; what it read of the ledger is still so but   *)
(* for what it has done itself; so what it begins is new.                  *)
(***************************************************************************)
EXTENDS Migrations, TLAPS

Critical == {"locked", "next", "running", "committing", "leaving", "failing"}
Busy(p) == pc[p] \in {"running", "committing"} \/ p \in commit

\* Migrations of p that the ledger has rows for, by number.
Dealt(p) == IF pc[p] = "committing" /\ p \notin commit THEN at[p] + 1 ELSE at[p]

LockHeld ==
  /\ \A p \in Procs : pc[p] \in Critical \/ p \in commit => lock = p
  /\ \A p \in commit : pc[p] = "committing" \/ p \in gone
  /\ \A p \in gone : pc[p] \in {"failed", "crashed"}

LedgerAsRead ==
  \A p \in Procs : pc[p] = "next" \/ Busy(p) =>
    \A n \in Names : ledger[n] = loaded[p][n] \/ \E i \in 1..Dealt(p) : Shipped[p][i] = n

WorkIsNew ==
  \A p \in Procs :
    /\ at[p] <= Len(Shipped[p])
    /\ Busy(p) => at[p] < Len(Shipped[p]) /\ Existing(p).status = "none"
    /\ pc[p] \in {"leaving", "done"} => at[p] = Len(Shipped[p])
    /\ ready[p] # {} => pc[p] = "done"

DealtWith ==
  \A p \in Procs : \A i \in 1..Dealt(p) :
    LET row == ledger[Shipped[p][i]] IN
    row.status \in {"finished", "rolledback"} /\ row.sum = File[p][Shipped[p][i]]

IInv == TypeOK /\ LockHeld /\ LedgerAsRead /\ WorkIsNew /\ DealtWith /\ LedgerIsTrue

-----------------------------------------------------------------------------
LEMMA RowsType ==
  ASSUME NEW p \in Procs, TypeOK, at[p] < Len(Shipped[p])
  PROVE  /\ Current(p) \in Names
         /\ File[p][Current(p)] \in Sums \cup {NoSum}
         /\ [status |-> "finished", sum |-> File[p][Current(p)]] \in Rows
<1>1. Len(Shipped[p]) \in Nat /\ at[p] + 1 \in 1..Len(Shipped[p])
  BY ShippedAssumption DEF TypeOK
<1>2. Current(p) \in Names
  BY <1>1, ShippedAssumption DEF Current
<1>3. File[p][Current(p)] \in Sums \cup {NoSum}
  BY <1>2, FileAssumption
<1> QED BY <1>2, <1>3 DEF Rows

LEMMA TypeInit == Init => TypeOK
<1> SUFFICES ASSUME Init PROVE TypeOK
  OBVIOUS
<1>1. NoRow \in Rows
  BY DEF NoRow, Rows
<1>2. ledger \in [Names -> Rows] /\ effects \in [Names -> Nat]
  BY DEF Init
<1> QED BY <1>1, <1>2 DEF Init, TypeOK

LEMMA TypeStep == TypeOK /\ WorkIsNew /\ LockHeld /\ [Next]_vars => TypeOK'
<1> SUFFICES ASSUME TypeOK, WorkIsNew, LockHeld, [Next]_vars PROVE TypeOK'
  OBVIOUS
<1>1. CASE UNCHANGED vars
  BY <1>1 DEF TypeOK, vars
<1>2. ASSUME NEW p \in Procs, NEW x \in Plugins, Call(p, x) \/ Resolve(p, x) PROVE TypeOK'
  <2>1. CASE Call(p, x)
    <3>1. pc' \in [Procs -> {"off", "waiting", "locked", "next", "running", "committing",
                           "leaving", "failing", "done", "failed", "crashed"}]
      BY <2>1 DEF TypeOK, Call
    <3>2. calls' \in [Procs -> SUBSET Plugins]
      BY <2>1 DEF TypeOK, Call
    <3> QED BY <2>1, <3>1, <3>2 DEF TypeOK, Call
  <2>2. CASE Resolve(p, x)
    <3>1. calls' \in [Procs -> SUBSET Plugins] /\ ready' \in [Procs -> SUBSET Plugins]
      BY <2>2 DEF TypeOK, Resolve
    <3> QED BY <2>2, <3>1 DEF TypeOK, Resolve
  <2> QED BY <1>2, <2>1, <2>2
<1>3. ASSUME NEW p \in Procs, Acquire(p) PROVE TypeOK'
  BY <1>3 DEF TypeOK, Acquire
<1>4. ASSUME NEW p \in Procs, Load(p) PROVE TypeOK'
  BY <1>4 DEF TypeOK, Load
<1>5. ASSUME NEW p \in Procs, Refuse(p) PROVE TypeOK'
  BY <1>5 DEF TypeOK, Refuse
<1>6. ASSUME NEW p \in Procs, Begin(p) PROVE TypeOK'
  BY <1>6 DEF TypeOK, Begin
<1>7. ASSUME NEW p \in Procs, RollBack(p) PROVE TypeOK'
  BY <1>7 DEF TypeOK, RollBack
<1>8. ASSUME NEW p \in Procs, Skip(p) PROVE TypeOK'
  BY <1>8 DEF TypeOK, Skip
<1>9. ASSUME NEW p \in Procs, SendCommit(p) PROVE TypeOK'
  BY <1>9 DEF TypeOK, SendCommit
<1>10. ASSUME NEW p \in Procs, Committed(p) PROVE TypeOK'
  BY <1>10 DEF TypeOK, Committed
<1>11. ASSUME NEW p \in Procs, Finish(p) PROVE TypeOK'
  BY <1>11 DEF TypeOK, Finish
<1>12. ASSUME NEW p \in Procs, Release(p) PROVE TypeOK'
  BY <1>12 DEF TypeOK, Release
<1>13. ASSUME NEW p \in Procs, Breaks(p) PROVE TypeOK'
  BY <1>13 DEF TypeOK, Breaks
<1>14. ASSUME NEW p \in Procs, Crash(p) PROVE TypeOK'
  BY <1>14 DEF TypeOK, Crash
<1>15. ASSUME NEW p \in Procs, ServerNotices(p) PROVE TypeOK'
  BY <1>15 DEF TypeOK, ServerNotices
<1>16. ASSUME NEW p \in Procs, Execute(p) PROVE TypeOK'
  <2>1. Current(p) \in Names /\ [status |-> "finished", sum |-> File[p][Current(p)]] \in Rows
    BY <1>16, RowsType DEF Execute, WorkIsNew, Busy
  <2>2. ledger' \in [Names -> Rows] /\ effects' \in [Names -> Nat]
    BY <1>16, <2>1 DEF Execute, TypeOK
  <2> QED BY <1>16, <2>2 DEF Execute, TypeOK
<1> QED BY <1>1, <1>2, <1>3, <1>4, <1>5, <1>6, <1>7, <1>8, <1>9, <1>10, <1>11, <1>12, <1>13,
           <1>14, <1>15, <1>16 DEF Next, Apply

LEMMA LockStep == TypeOK /\ LockHeld /\ [Next]_vars => LockHeld'
<1> SUFFICES ASSUME TypeOK, LockHeld, [Next]_vars PROVE LockHeld'
  OBVIOUS
<1>1. CASE UNCHANGED vars
  BY <1>1 DEF TypeOK, LockHeld, Critical, More, vars
<1>2. ASSUME NEW p \in Procs, NEW x \in Plugins, Call(p, x) PROVE LockHeld'
  BY <1>2 DEF TypeOK, LockHeld, Critical, More, Call
<1>3. ASSUME NEW p \in Procs, NEW x \in Plugins, Resolve(p, x) PROVE LockHeld'
  BY <1>3 DEF TypeOK, LockHeld, Critical, More, Resolve
<1>4. ASSUME NEW p \in Procs, Acquire(p) PROVE LockHeld'
  BY <1>4, NobodyAssumption DEF TypeOK, LockHeld, Critical, Acquire
<1>5. ASSUME NEW p \in Procs, Load(p) PROVE LockHeld'
  BY <1>5 DEF TypeOK, LockHeld, Critical, More, Load
<1>6. ASSUME NEW p \in Procs, Skip(p) PROVE LockHeld'
  BY <1>6 DEF TypeOK, LockHeld, Critical, More, Skip
<1>7. ASSUME NEW p \in Procs, Refuse(p) PROVE LockHeld'
  BY <1>7 DEF TypeOK, LockHeld, Critical, More, Refuse
<1>8. ASSUME NEW p \in Procs, Begin(p) PROVE LockHeld'
  BY <1>8 DEF TypeOK, LockHeld, Critical, More, Begin
<1>9. ASSUME NEW p \in Procs, RollBack(p) PROVE LockHeld'
  BY <1>9 DEF TypeOK, LockHeld, Critical, More, RollBack
<1>10. ASSUME NEW p \in Procs, SendCommit(p) PROVE LockHeld'
  BY <1>10 DEF TypeOK, LockHeld, Critical, More, SendCommit
<1>11. ASSUME NEW p \in Procs, Committed(p) PROVE LockHeld'
  BY <1>11 DEF TypeOK, LockHeld, Critical, More, Committed
<1>12. ASSUME NEW p \in Procs, Finish(p) PROVE LockHeld'
  BY <1>12 DEF TypeOK, LockHeld, Critical, More, Finish
<1>13. ASSUME NEW p \in Procs, Release(p) PROVE LockHeld'
  BY <1>13 DEF TypeOK, LockHeld, Critical, More, Release
<1>14. ASSUME NEW p \in Procs, Execute(p) PROVE LockHeld'
  BY <1>14 DEF TypeOK, LockHeld, Critical, More, Execute
<1>15. ASSUME NEW p \in Procs, Breaks(p) PROVE LockHeld'
  BY <1>15 DEF TypeOK, LockHeld, Critical, More, Breaks
<1>16. ASSUME NEW p \in Procs, Crash(p) PROVE LockHeld'
  BY <1>16 DEF TypeOK, LockHeld, Critical, More, Crash
<1>17. ASSUME NEW p \in Procs, ServerNotices(p) PROVE LockHeld'
  BY <1>17 DEF TypeOK, LockHeld, Critical, More, ServerNotices
<1> QED BY <1>1, <1>2, <1>3, <1>4, <1>5, <1>6, <1>7, <1>8, <1>9, <1>10, <1>11, <1>12, <1>13,
           <1>14, <1>15, <1>16, <1>17 DEF Next, Apply

\* What was read stays good for a process whose own steps are counted.
LEMMA Carry ==
  ASSUME NEW q \in Procs, NEW n \in Names, TypeOK, LedgerAsRead,
         pc[q] = "next" \/ Busy(q), loaded'[q] = loaded[q], ledger' = ledger,
         Dealt(q) \in Nat, Dealt(q)' \in Nat, Dealt(q) <= Dealt(q)'
  PROVE  ledger'[n] = loaded'[q][n] \/ \E i \in 1..Dealt(q)' : Shipped[q][i] = n
<1>1. 1..Dealt(q) \subseteq 1..Dealt(q)'
  OBVIOUS
<1>2. ledger[n] = loaded[q][n] \/ \E i \in 1..Dealt(q) : Shipped[q][i] = n
  BY DEF LedgerAsRead
<1> QED BY <1>1, <1>2

LEMMA LedgerAsReadStep ==
  TypeOK /\ TypeOK' /\ LockHeld /\ LedgerAsRead /\ [Next]_vars => LedgerAsRead'
<1> SUFFICES ASSUME TypeOK, TypeOK', LockHeld, LedgerAsRead, [Next]_vars,
                    NEW q \in Procs, (pc[q] = "next" \/ Busy(q))', NEW n \in Names
             PROVE  ledger'[n] = loaded'[q][n] \/ \E i \in 1..Dealt(q)' : Shipped[q][i] = n
  BY DEF LedgerAsRead
<1> DEFINE Goal == ledger'[n] = loaded'[q][n] \/ \E i \in 1..Dealt(q)' : Shipped[q][i] = n
<1>0. Dealt(q) \in Nat /\ Dealt(q)' \in Nat
  BY DEF Dealt, TypeOK
<1>1. CASE UNCHANGED vars
  BY <1>1, <1>0, Carry DEF Busy, Dealt, vars
<1>2. ASSUME NEW p \in Procs, NEW x \in Plugins, Call(p, x) PROVE Goal
  <2>1. pc[q] = "next" \/ Busy(q)
    BY <1>2 DEF TypeOK, LockHeld, Busy, More, Call
  <2>2. Dealt(q) <= Dealt(q)'
    BY <1>2, <1>0 DEF TypeOK, Dealt, Busy, More, Call
  <2> QED BY <1>2, <1>0, <2>1, <2>2, Carry DEF Call
<1>3. ASSUME NEW p \in Procs, NEW x \in Plugins, Resolve(p, x) PROVE Goal
  <2>1. pc[q] = "next" \/ Busy(q)
    BY <1>3 DEF TypeOK, LockHeld, Busy, More, Resolve
  <2>2. Dealt(q) <= Dealt(q)'
    BY <1>3, <1>0 DEF TypeOK, Dealt, Busy, More, Resolve
  <2> QED BY <1>3, <1>0, <2>1, <2>2, Carry DEF Resolve
<1>4. ASSUME NEW p \in Procs, Acquire(p) PROVE Goal
  <2>1. pc[q] = "next" \/ Busy(q)
    BY <1>4 DEF TypeOK, LockHeld, Busy, More, Acquire
  <2>2. Dealt(q) <= Dealt(q)'
    BY <1>4, <1>0 DEF TypeOK, Dealt, Busy, More, Acquire
  <2> QED BY <1>4, <1>0, <2>1, <2>2, Carry DEF Acquire
<1>5. ASSUME NEW p \in Procs, Load(p) PROVE Goal
  <2>1. CASE q = p
    BY <1>5, <2>1 DEF TypeOK, Load
  <2>2. CASE q # p
    <3>1. (pc[q] = "next" \/ Busy(q)) /\ Dealt(q) <= Dealt(q)' /\ loaded'[q] = loaded[q]
      BY <1>5, <2>2, <1>0 DEF TypeOK, Busy, Dealt, Load
    <3> QED BY <1>5, <3>1, <1>0, Carry DEF Load
  <2> QED BY <2>1, <2>2
<1>6. ASSUME NEW p \in Procs, Skip(p) PROVE Goal
  <2>1. pc[q] = "next" \/ Busy(q)
    BY <1>6 DEF TypeOK, LockHeld, Busy, More, Skip
  <2>2. Dealt(q) <= Dealt(q)'
    BY <1>6, <1>0 DEF TypeOK, Dealt, Busy, More, Skip
  <2> QED BY <1>6, <1>0, <2>1, <2>2, Carry DEF Skip
<1>7. ASSUME NEW p \in Procs, Refuse(p) PROVE Goal
  <2>1. pc[q] = "next" \/ Busy(q)
    BY <1>7 DEF TypeOK, LockHeld, Busy, More, Refuse
  <2>2. Dealt(q) <= Dealt(q)'
    BY <1>7, <1>0 DEF TypeOK, Dealt, Busy, More, Refuse
  <2> QED BY <1>7, <1>0, <2>1, <2>2, Carry DEF Refuse
<1>8. ASSUME NEW p \in Procs, Begin(p) PROVE Goal
  <2>1. pc[q] = "next" \/ Busy(q)
    BY <1>8 DEF TypeOK, LockHeld, Busy, More, Begin
  <2>2. Dealt(q) <= Dealt(q)'
    BY <1>8, <1>0 DEF TypeOK, Dealt, Busy, More, Begin
  <2> QED BY <1>8, <1>0, <2>1, <2>2, Carry DEF Begin
<1>9. ASSUME NEW p \in Procs, RollBack(p) PROVE Goal
  <2>1. pc[q] = "next" \/ Busy(q)
    BY <1>9 DEF TypeOK, LockHeld, Busy, More, RollBack
  <2>2. Dealt(q) <= Dealt(q)'
    BY <1>9, <1>0 DEF TypeOK, Dealt, Busy, More, RollBack
  <2> QED BY <1>9, <1>0, <2>1, <2>2, Carry DEF RollBack
<1>10. ASSUME NEW p \in Procs, SendCommit(p) PROVE Goal
  <2>1. pc[q] = "next" \/ Busy(q)
    BY <1>10 DEF TypeOK, LockHeld, Busy, More, SendCommit
  <2>2. Dealt(q) <= Dealt(q)'
    BY <1>10, <1>0 DEF TypeOK, Dealt, Busy, More, SendCommit
  <2> QED BY <1>10, <1>0, <2>1, <2>2, Carry DEF SendCommit
<1>11. ASSUME NEW p \in Procs, Committed(p) PROVE Goal
  <2>1. pc[q] = "next" \/ Busy(q)
    BY <1>11 DEF TypeOK, LockHeld, Busy, More, Committed
  <2>2. Dealt(q) <= Dealt(q)'
    BY <1>11, <1>0 DEF TypeOK, Dealt, Busy, More, Committed
  <2> QED BY <1>11, <1>0, <2>1, <2>2, Carry DEF Committed
<1>12. ASSUME NEW p \in Procs, Finish(p) PROVE Goal
  <2>1. pc[q] = "next" \/ Busy(q)
    BY <1>12 DEF TypeOK, LockHeld, Busy, More, Finish
  <2>2. Dealt(q) <= Dealt(q)'
    BY <1>12, <1>0 DEF TypeOK, Dealt, Busy, More, Finish
  <2> QED BY <1>12, <1>0, <2>1, <2>2, Carry DEF Finish
<1>13. ASSUME NEW p \in Procs, Release(p) PROVE Goal
  <2>1. pc[q] = "next" \/ Busy(q)
    BY <1>13 DEF TypeOK, LockHeld, Busy, More, Release
  <2>2. Dealt(q) <= Dealt(q)'
    BY <1>13, <1>0 DEF TypeOK, Dealt, Busy, More, Release
  <2> QED BY <1>13, <1>0, <2>1, <2>2, Carry DEF Release
<1>14. ASSUME NEW p \in Procs, Execute(p) PROVE Goal
  <2>1. pc[q] = "next" \/ Busy(q)
    BY <1>14 DEF Busy, Execute
  <2>2. q = p
    BY <1>14, <2>1 DEF Busy, Execute, LockHeld, Critical
  <2>3. pc[p] = "committing" /\ p \notin commit'
    BY <1>14, <2>2 DEF Busy, Execute, LockHeld
  <2>4. Dealt(p)' = at[p] + 1 /\ Dealt(p) = at[p] /\ at[p] \in Nat
    BY <1>14, <2>3 DEF Dealt, Execute, TypeOK
  <2>5. CASE n = Current(p)
    BY <2>2, <2>4, <2>5 DEF Current
  <2>6. CASE n # Current(p)
    <3>1. ledger'[n] = ledger[n] /\ loaded' = loaded
      BY <1>14, <2>6 DEF Execute, TypeOK
    <3>2. ledger[n] = loaded[q][n] \/ \E i \in 1..Dealt(q) : Shipped[q][i] = n
      BY <2>1 DEF LedgerAsRead
    <3>3. 1..Dealt(q) \subseteq 1..Dealt(q)'
      BY <2>2, <2>4
    <3> QED BY <3>1, <3>2, <3>3
  <2> QED BY <2>5, <2>6
<1>15. ASSUME NEW p \in Procs, Breaks(p) PROVE Goal
  <2>1. pc[q] = "next" \/ Busy(q)
    BY <1>15 DEF TypeOK, LockHeld, Busy, More, Breaks
  <2>2. Dealt(q) <= Dealt(q)'
    BY <1>15, <1>0 DEF TypeOK, Dealt, Busy, More, Breaks
  <2> QED BY <1>15, <1>0, <2>1, <2>2, Carry DEF Breaks
<1>16. ASSUME NEW p \in Procs, Crash(p) PROVE Goal
  <2>1. pc[q] = "next" \/ Busy(q)
    BY <1>16 DEF TypeOK, LockHeld, Busy, More, Crash
  <2>2. Dealt(q) <= Dealt(q)'
    BY <1>16, <1>0 DEF TypeOK, Dealt, Busy, More, Crash
  <2> QED BY <1>16, <1>0, <2>1, <2>2, Carry DEF Crash
<1>17. ASSUME NEW p \in Procs, ServerNotices(p) PROVE Goal
  <2>1. pc[q] = "next" \/ Busy(q)
    BY <1>17 DEF TypeOK, LockHeld, Busy, More, ServerNotices
  <2>2. Dealt(q) <= Dealt(q)'
    BY <1>17, <1>0 DEF TypeOK, Dealt, Busy, More, ServerNotices
  <2> QED BY <1>17, <1>0, <2>1, <2>2, Carry DEF ServerNotices
<1> QED BY <1>1, <1>2, <1>3, <1>4, <1>5, <1>6, <1>7, <1>8, <1>9, <1>10, <1>11, <1>12, <1>13,
           <1>14, <1>15, <1>16, <1>17 DEF Next, Apply

LEMMA WorkIsNewStep == TypeOK /\ LockHeld /\ WorkIsNew /\ [Next]_vars => WorkIsNew'
<1> SUFFICES ASSUME TypeOK, LockHeld, WorkIsNew, [Next]_vars PROVE WorkIsNew'
  OBVIOUS
<1>1. CASE UNCHANGED vars
  BY <1>1 DEF TypeOK, LockHeld, Critical, WorkIsNew, Busy, More, Existing, Current, Working,
     vars
<1>2. ASSUME NEW p \in Procs, NEW x \in Plugins, Call(p, x) PROVE WorkIsNew'
  BY <1>2 DEF TypeOK, LockHeld, Critical, WorkIsNew, Busy, More, Existing, Current, Working,
     Call
<1>3. ASSUME NEW p \in Procs, NEW x \in Plugins, Resolve(p, x) PROVE WorkIsNew'
  BY <1>3 DEF TypeOK, LockHeld, Critical, WorkIsNew, Busy, More, Existing, Current, Working,
     Resolve
<1>4. ASSUME NEW p \in Procs, Acquire(p) PROVE WorkIsNew'
  BY <1>4 DEF TypeOK, LockHeld, Critical, WorkIsNew, Busy, More, Existing, Current, Working,
     Acquire
<1>5. ASSUME NEW p \in Procs, Load(p) PROVE WorkIsNew'
  BY <1>5 DEF TypeOK, LockHeld, Critical, WorkIsNew, Busy, More, Existing, Current, Working,
     Load
<1>6. ASSUME NEW p \in Procs, Skip(p) PROVE WorkIsNew'
  BY <1>6 DEF TypeOK, LockHeld, Critical, WorkIsNew, Busy, More, Existing, Current, Working,
     Skip
<1>7. ASSUME NEW p \in Procs, Refuse(p) PROVE WorkIsNew'
  BY <1>7 DEF TypeOK, LockHeld, Critical, WorkIsNew, Busy, More, Existing, Current, Working,
     Refuse
<1>8. ASSUME NEW p \in Procs, Begin(p) PROVE WorkIsNew'
  BY <1>8 DEF TypeOK, LockHeld, Critical, WorkIsNew, Busy, More, Existing, Current, Working,
     Begin
<1>9. ASSUME NEW p \in Procs, RollBack(p) PROVE WorkIsNew'
  BY <1>9 DEF TypeOK, LockHeld, Critical, WorkIsNew, Busy, More, Existing, Current, Working,
     RollBack
<1>10. ASSUME NEW p \in Procs, SendCommit(p) PROVE WorkIsNew'
  BY <1>10 DEF TypeOK, LockHeld, Critical, WorkIsNew, Busy, More, Existing, Current,
     Working, SendCommit
<1>11. ASSUME NEW p \in Procs, Committed(p) PROVE WorkIsNew'
  BY <1>11 DEF TypeOK, LockHeld, Critical, WorkIsNew, Busy, More, Existing, Current,
     Working, Committed
<1>12. ASSUME NEW p \in Procs, Finish(p) PROVE WorkIsNew'
  BY <1>12 DEF TypeOK, LockHeld, Critical, WorkIsNew, Busy, More, Existing, Current,
     Working, Finish
<1>13. ASSUME NEW p \in Procs, Release(p) PROVE WorkIsNew'
  BY <1>13 DEF TypeOK, LockHeld, Critical, WorkIsNew, Busy, More, Existing, Current,
     Working, Release
<1>14. ASSUME NEW p \in Procs, Execute(p) PROVE WorkIsNew'
  BY <1>14 DEF TypeOK, LockHeld, Critical, WorkIsNew, Busy, More, Existing, Current,
     Working, Execute
<1>15. ASSUME NEW p \in Procs, Breaks(p) PROVE WorkIsNew'
  BY <1>15 DEF TypeOK, LockHeld, Critical, WorkIsNew, Busy, More, Existing, Current,
     Working, Breaks
<1>16. ASSUME NEW p \in Procs, Crash(p) PROVE WorkIsNew'
  BY <1>16 DEF TypeOK, LockHeld, Critical, WorkIsNew, Busy, More, Existing, Current,
     Working, Crash
<1>17. ASSUME NEW p \in Procs, ServerNotices(p) PROVE WorkIsNew'
  BY <1>17 DEF TypeOK, LockHeld, Critical, WorkIsNew, Busy, More, Existing, Current,
     Working, ServerNotices
<1> QED BY <1>1, <1>2, <1>3, <1>4, <1>5, <1>6, <1>7, <1>8, <1>9, <1>10, <1>11, <1>12, <1>13,
           <1>14, <1>15, <1>16, <1>17 DEF Next, Apply

\* A commit that is under way is of a migration that has no row.
LEMMA CurrentIsNew ==
  ASSUME NEW p \in Procs, TypeOK, LedgerAsRead, WorkIsNew, p \in commit \/ pc[p] = "next",
         at[p] < Len(Shipped[p])
  PROVE  ledger[Current(p)] = Existing(p)
<1>1. Current(p) \in Names
  BY RowsType
<1>2. Dealt(p) = at[p] /\ at[p] \in Nat
  BY DEF Dealt, TypeOK
<1>3. at[p] + 1 \in DOMAIN Shipped[p] /\ \A i \in 1..at[p] : i \in DOMAIN Shipped[p] /\ i # at[p] + 1
  BY <1>2, ShippedAssumption
<1>4. \A i \in 1..at[p] : Shipped[p][i] # Current(p)
  BY <1>3, DistinctAssumption DEF Current
<1> QED BY <1>1, <1>2, <1>4 DEF LedgerAsRead, Existing, Busy

\* A row that is there stays as it is.
LEMMA RowsStay ==
  ASSUME TypeOK, LedgerAsRead, WorkIsNew, [Next]_vars, NEW n \in Names, ledger[n].status # "none"
  PROVE  ledger'[n] = ledger[n]
<1>1. ASSUME NEW p \in Procs, Execute(p) PROVE ledger'[n] = ledger[n]
  <2>1. ledger[Current(p)].status = "none"
    BY <1>1, CurrentIsNew DEF Execute, WorkIsNew, Busy
  <2> QED BY <1>1, <2>1 DEF Execute, TypeOK
<1>2. ASSUME NEW p \in Procs, NEW x \in Plugins, Call(p, x) \/ Resolve(p, x) PROVE ledger' = ledger
  BY <1>2 DEF Call, Resolve
<1>3. ASSUME NEW p \in Procs, Apply(p) PROVE ledger' = ledger
  BY <1>3 DEF Apply, Acquire, Load, Skip, Refuse, Begin, RollBack, SendCommit, Committed,
              Finish, Release
<1>4. ASSUME NEW p \in Procs, Breaks(p) \/ Crash(p) \/ ServerNotices(p) PROVE ledger' = ledger
  BY <1>4 DEF Breaks, Crash, ServerNotices
<1> QED BY <1>1, <1>2, <1>3, <1>4 DEF Next, vars

LEMMA DealtWithStep ==
  TypeOK /\ TypeOK' /\ LedgerAsRead /\ WorkIsNew /\ WorkIsNew' /\ LockHeld /\ DealtWith /\ [Next]_vars
    => DealtWith'
<1> SUFFICES ASSUME TypeOK, TypeOK', LedgerAsRead, WorkIsNew, WorkIsNew', LockHeld, DealtWith, [Next]_vars,
                    NEW q \in Procs, NEW i \in 1..Dealt(q)'
             PROVE  /\ ledger'[Shipped[q][i]].status \in {"finished", "rolledback"}
                    /\ ledger'[Shipped[q][i]].sum = File[q][Shipped[q][i]]
  BY DEF DealtWith
<1> DEFINE Goal == /\ ledger'[Shipped[q][i]].status \in {"finished", "rolledback"}
                   /\ ledger'[Shipped[q][i]].sum = File[q][Shipped[q][i]]
<1>a. Dealt(q) \in Nat /\ Dealt(q)' \in Nat
  BY DEF Dealt, TypeOK
<1>b. Dealt(q) <= Len(Shipped[q])
  BY ShippedAssumption DEF Dealt, TypeOK, WorkIsNew, Busy
<1>c. ASSUME i \in 1..Dealt(q) PROVE Goal
  <2>1. Shipped[q][i] \in Names
    BY <1>a, <1>b, <1>c, ShippedAssumption
  <2>2. /\ ledger[Shipped[q][i]].status \in {"finished", "rolledback"}
        /\ ledger[Shipped[q][i]].sum = File[q][Shipped[q][i]]
    BY <1>c DEF DealtWith
  <2> QED BY <2>1, <2>2, RowsStay
<1>1. CASE UNCHANGED vars
  BY <1>1, <1>c DEF Dealt, vars
<1>2. ASSUME NEW p \in Procs, NEW x \in Plugins, Call(p, x) PROVE Goal
  BY <1>2, <1>a, <1>c DEF TypeOK, Dealt, LockHeld, More, Call
<1>3. ASSUME NEW p \in Procs, NEW x \in Plugins, Resolve(p, x) PROVE Goal
  BY <1>3, <1>a, <1>c DEF TypeOK, Dealt, LockHeld, More, Resolve
<1>4. ASSUME NEW p \in Procs, Acquire(p) PROVE Goal
  BY <1>4, <1>a, <1>c DEF TypeOK, Dealt, LockHeld, More, Acquire
<1>5. ASSUME NEW p \in Procs, Load(p) PROVE Goal
  BY <1>5, <1>a, <1>c DEF TypeOK, Dealt, LockHeld, More, Load
<1>6. ASSUME NEW p \in Procs, Skip(p) PROVE Goal
  <2>1. CASE q = p /\ i = at[p] + 1
    <3>1. Shipped[q][i] = Current(p) /\ Current(p) \in Names
      BY <1>6, <2>1, RowsType DEF Current, Skip, More
    <3>2. ledger[Current(p)] = Existing(p)
      BY <1>6, CurrentIsNew DEF Skip, More
    <3> QED BY <1>6, <2>1, <3>1, <3>2 DEF Skip, Matches
  <2>2. CASE ~(q = p /\ i = at[p] + 1)
    BY <1>6, <2>2, <1>a, <1>c DEF TypeOK, Dealt, Skip, More
  <2> QED BY <2>1, <2>2
<1>7. ASSUME NEW p \in Procs, Refuse(p) PROVE Goal
  BY <1>7, <1>a, <1>c DEF TypeOK, Dealt, LockHeld, More, Refuse
<1>8. ASSUME NEW p \in Procs, Begin(p) PROVE Goal
  BY <1>8, <1>a, <1>c DEF TypeOK, Dealt, LockHeld, More, Begin
<1>9. ASSUME NEW p \in Procs, RollBack(p) PROVE Goal
  BY <1>9, <1>a, <1>c DEF TypeOK, Dealt, LockHeld, More, RollBack
<1>10. ASSUME NEW p \in Procs, SendCommit(p) PROVE Goal
  BY <1>10, <1>a, <1>c DEF TypeOK, Dealt, LockHeld, More, SendCommit
<1>11. ASSUME NEW p \in Procs, Committed(p) PROVE Goal
  BY <1>11, <1>a, <1>c DEF TypeOK, Dealt, LockHeld, More, Committed
<1>12. ASSUME NEW p \in Procs, Finish(p) PROVE Goal
  BY <1>12, <1>a, <1>c DEF TypeOK, Dealt, LockHeld, More, Finish
<1>13. ASSUME NEW p \in Procs, Release(p) PROVE Goal
  BY <1>13, <1>a, <1>c DEF TypeOK, Dealt, LockHeld, More, Release
<1>14. ASSUME NEW p \in Procs, Execute(p) PROVE Goal
  <2>1. CASE q = p /\ i = at[p] + 1
    <3>1. Shipped[q][i] = Current(p)
      BY <2>1 DEF Current
    <3>2. Current(p) \in Names
      BY <1>14, RowsType DEF Execute, WorkIsNew, Busy
    <3> QED BY <1>14, <2>1, <3>1, <3>2 DEF Execute, TypeOK
  <2>2. CASE ~(q = p /\ i = at[p] + 1)
    <3>1. CASE q = p
      <4>1. at[p] \in Nat /\ Dealt(p) = at[p] /\ Dealt(p)' <= at[p] + 1
        BY <1>14 DEF TypeOK, Dealt, Execute
      <4> QED BY <2>2, <3>1, <4>1, <1>a, <1>c
    <3>2. CASE q # p
      BY <1>14, <3>2, <1>c DEF Dealt, Execute
    <3> QED BY <3>1, <3>2
  <2> QED BY <2>1, <2>2
<1>15. ASSUME NEW p \in Procs, Breaks(p) PROVE Goal
  BY <1>15, <1>a, <1>c DEF TypeOK, Dealt, LockHeld, More, Breaks
<1>16. ASSUME NEW p \in Procs, Crash(p) PROVE Goal
  BY <1>16, <1>a, <1>c DEF TypeOK, Dealt, LockHeld, More, Crash
<1>17. ASSUME NEW p \in Procs, ServerNotices(p) PROVE Goal
  BY <1>17, <1>a, <1>c DEF TypeOK, Dealt, LockHeld, More, ServerNotices
<1> QED BY <1>1, <1>2, <1>3, <1>4, <1>5, <1>6, <1>7, <1>8, <1>9, <1>10, <1>11, <1>12, <1>13,
           <1>14, <1>15, <1>16, <1>17 DEF Next, Apply

LEMMA LedgerIsTrueStep ==
  TypeOK /\ LedgerAsRead /\ WorkIsNew /\ LedgerIsTrue /\ [Next]_vars => LedgerIsTrue'
<1> SUFFICES ASSUME TypeOK, LedgerAsRead, WorkIsNew, LedgerIsTrue, [Next]_vars PROVE LedgerIsTrue'
  OBVIOUS
<1>1. ASSUME NEW p \in Procs, Execute(p) PROVE LedgerIsTrue'
  <2>1. ledger[Current(p)].status = "none" /\ Current(p) \in Names
    BY <1>1, CurrentIsNew, RowsType DEF Execute, WorkIsNew, Busy
  <2>2. effects[Current(p)] = 0
    BY <2>1 DEF LedgerIsTrue
  <2> SUFFICES ASSUME NEW n \in Names
               PROVE  effects'[n] = IF ledger'[n].status = "finished" THEN 1 ELSE 0
    BY DEF LedgerIsTrue
  <2>3. CASE n = Current(p)
    BY <1>1, <2>1, <2>2, <2>3 DEF Execute, TypeOK
  <2>4. CASE n # Current(p)
    BY <1>1, <2>4 DEF Execute, TypeOK, LedgerIsTrue
  <2> QED BY <2>3, <2>4
<1>2. ASSUME NEW p \in Procs, NEW x \in Plugins, Call(p, x) \/ Resolve(p, x) PROVE LedgerIsTrue'
  BY <1>2 DEF Call, Resolve, LedgerIsTrue
<1>3. ASSUME NEW p \in Procs, Apply(p) PROVE LedgerIsTrue'
  <2>1. ledger' = ledger /\ effects' = effects
    BY <1>3 DEF Apply, Acquire, Load, Skip, Refuse, Begin, RollBack, SendCommit, Committed,
                Finish, Release
  <2> QED BY <2>1 DEF LedgerIsTrue
<1>4. ASSUME NEW p \in Procs, Breaks(p) \/ Crash(p) \/ ServerNotices(p) PROVE LedgerIsTrue'
  BY <1>4 DEF Breaks, Crash, ServerNotices, LedgerIsTrue
<1>5. CASE UNCHANGED vars
  BY <1>5 DEF vars, LedgerIsTrue
<1> QED BY <1>1, <1>2, <1>3, <1>4, <1>5 DEF Next

LEMMA IInvInit == Init => IInv
<1> SUFFICES ASSUME Init PROVE IInv
  OBVIOUS
<1>1. TypeOK
  BY TypeInit
<1>2. LockHeld
  BY DEF Init, LockHeld, Critical
<1>3. LedgerAsRead
  BY DEF Init, LedgerAsRead, Busy
<1>4. WorkIsNew
  <2>1. \A p \in Procs : Len(Shipped[p]) \in Nat
    BY ShippedAssumption
  <2> SUFFICES ASSUME NEW p \in Procs
               PROVE  /\ at[p] <= Len(Shipped[p])
                      /\ ~Busy(p) /\ pc[p] \notin {"leaving", "done"} /\ ready[p] = {}
    BY DEF WorkIsNew
  <2> QED BY <2>1 DEF Init, Busy
<1>5. DealtWith
  <2>1. \A p \in Procs : Dealt(p) = 0
    BY DEF Init, Dealt
  <2> QED BY <2>1 DEF DealtWith
<1>6. LedgerIsTrue
  BY DEF Init, LedgerIsTrue
<1> QED BY <1>1, <1>2, <1>3, <1>4, <1>5, <1>6 DEF IInv

LEMMA IInvStep == IInv /\ [Next]_vars => IInv'
<1> SUFFICES ASSUME IInv, [Next]_vars PROVE IInv'
  OBVIOUS
<1>1. TypeOK'
  BY TypeStep DEF IInv
<1>2. LockHeld'
  BY LockStep DEF IInv
<1>3. LedgerAsRead'
  BY <1>1, LedgerAsReadStep DEF IInv
<1>4. WorkIsNew'
  BY WorkIsNewStep DEF IInv
<1>5. DealtWith'
  BY <1>1, <1>4, DealtWithStep DEF IInv
<1>6. LedgerIsTrue'
  BY LedgerIsTrueStep DEF IInv
<1> QED BY <1>1, <1>2, <1>3, <1>4, <1>5, <1>6 DEF IInv

LEMMA Invariant == Spec => []IInv
<1> QED BY IInvInit, IInvStep, PTL DEF Spec

\* Every variable keeps its type.
THEOREM TypeCorrect == Spec => []TypeOK
<1>1. IInv => TypeOK
  BY DEF IInv
<1> QED BY <1>1, Invariant, PTL

\* The SQL of a migration took effect once if the ledger says finished, and
\* never otherwise: for any number of processes, plugins and migrations, and
\* any interleaving of their crashes.
THEOREM LedgerTruth == Spec => []LedgerIsTrue
<1>1. IInv => LedgerIsTrue
  BY DEF IInv
<1> QED BY <1>1, Invariant, PTL

\* A plugin whose promise resolved finds every migration of its process in the
\* ledger, from the same file.
THEOREM ReadyIsMigrated == Spec => []ReadyMeansMigrated
<1>1. IInv => ReadyMeansMigrated
  <2> SUFFICES ASSUME IInv, NEW p \in Procs, ready[p] # {}, NEW i \in 1..Len(Shipped[p])
               PROVE  /\ ledger[Shipped[p][i]].status \in {"finished", "rolledback"}
                      /\ ledger[Shipped[p][i]].sum = File[p][Shipped[p][i]]
    BY DEF ReadyMeansMigrated
  <2>1. Dealt(p) = Len(Shipped[p])
    BY DEF IInv, WorkIsNew, Dealt
  <2> QED BY <2>1 DEF IInv, DealtWith
<1> QED BY <1>1, Invariant, PTL
=============================================================================
