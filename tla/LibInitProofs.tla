--------------------------- MODULE LibInitProofs ---------------------------
(***************************************************************************)
(* The safety of fsd_init for any number of threads.                       *)
(***************************************************************************)
EXTENDS LibInit, TLAPS

\* The type invariant without the Boolean history variable.
TypeData ==
  /\ g_init_state \in 0..2
  /\ g_fsd_simd \in [Field -> Impl]
  /\ pc \in [Thread -> SettingUp \cup {"idle", "load", "cas", "spin", "force", "work"}]
  /\ todo \in [Thread -> SUBSET Field]
  /\ seen \in [Thread -> SUBSET Impl]
  /\ scalar_run \subseteq Thread /\ ready \subseteq Thread /\ overlapped \subseteq Thread
  /\ cleanups \in 0..MaxCleanups

\* Only the thread that set the state to 1 is setting up; once some thread
\* returned from fsd_init the state is 2, so nobody is.
StateInv ==
  /\ \A t \in Thread : pc[t] \in SettingUp => g_init_state = 1
  /\ ready # {} => g_init_state = 2

\* What the threads outside of a diff have not seen, and who forces scalar.
ThreadInv ==
  \A t \in Thread :
    /\ pc[t] # "work" => seen[t] = {}
    /\ pc[t] = "force" => forced /\ t \in scalar_run

\* How far the table is: the fields already written hold their function.
TableInv ==
  ~forced =>
    /\ \A t \in Thread, f \in Field : f \notin todo[t] =>
         /\ pc[t] = "scalar" => g_fsd_simd[f] = "scalar"
         /\ pc[t] = "vector" => g_fsd_simd[f] = "vector"
    /\ \A t \in Thread : pc[t] = "vector" => Best = "vector"
    /\ \A t \in Thread, f \in Field : pc[t] = "publish" => g_fsd_simd[f] = Best
    /\ g_init_state = 2 => \A f \in Field : g_fsd_simd[f] = Best

\* Under a diff with force_scalar that no set-up overlaps nobody is setting up,
\* and the fields it has written stay scalar.
ScalarInv ==
  \A t \in scalar_run \ overlapped :
    /\ pc[t] \in {"force", "work"} => g_init_state # 1
    /\ \A f \in Field :
         /\ pc[t] = "force" /\ f \notin todo[t] => g_fsd_simd[f] = "scalar"
         /\ pc[t] = "work" => g_fsd_simd[f] = "scalar"

\* The inductive invariant.
IInv ==
  /\ TypeOK /\ OneInitialiser /\ StateInv /\ ThreadInv
  /\ TableInv /\ NoTornRead /\ ScalarInv /\ ScalarHonoured

\* Before the first call nobody is in fsd_init and no diff runs.
LEMMA InitIInv == Init => IInv
<1> SUFFICES ASSUME Init PROVE IInv
  OBVIOUS
<1>1. TypeOK
  <2>1. TypeData
    BY InitAssumption DEF Init, TypeData, Field, Impl, SettingUp
  <2>2. forced \in BOOLEAN
    BY Zenon DEF Init
  <2> QED
    BY <2>1, <2>2 DEF TypeOK, TypeData
<1>2. OneInitialiser /\ StateInv /\ ThreadInv
  BY DEF Init, OneInitialiser, StateInv, ThreadInv, SettingUp
<1>3. TableInv /\ NoTornRead /\ ScalarInv /\ ScalarHonoured
  BY DEF Init, TableInv, NoTornRead, ScalarInv, ScalarHonoured
<1> QED
  BY <1>1, <1>2, <1>3 DEF IInv

\* Every step keeps the types.
LEMMA TypePreserved ==
  ASSUME TypeOK, [Next]_vars PROVE TypeOK'
<1> USE InitAssumption DEF TypeOK, Field, Impl, SettingUp, Goto
<1>1. ASSUME NEW t \in Thread, AlreadyDone(t) \/ Publish(t) \/ Spin(t) PROVE TypeOK'
  BY <1>1 DEF AlreadyDone, Publish, Spin, InitReturns
<1>2. ASSUME NEW t \in Thread, NotDone(t) \/ Win(t) \/ Lose(t) \/ CallInit(t) PROVE TypeOK'
  BY <1>2 DEF NotDone, Win, Lose, CallInit
<1>3. ASSUME NEW t \in Thread, WriteField(t) PROVE TypeOK'
  BY <1>3 DEF WriteField
<1>4. ASSUME NEW t \in Thread, ScalarDone(t) \/ VectorDone(t) \/ ForceDone(t) PROVE TypeOK'
  BY <1>4 DEF ScalarDone, VectorDone, ForceDone
<1>5. ASSUME NEW t \in Thread, StartDiff(t) \/ StartScalarDiff(t) \/ EndDiff(t) PROVE TypeOK'
  <2>1. TypeData'
    BY <1>5 DEF TypeData, StartDiff, StartScalarDiff, EndDiff
  <2>2. (forced \in BOOLEAN)'
    BY <1>5, Zenon DEF StartDiff, StartScalarDiff, EndDiff
  <2> QED
    BY <2>1, <2>2 DEF TypeData
<1>6. ASSUME NEW t \in Thread, ReadField(t) PROVE TypeOK'
  BY <1>6 DEF ReadField
<1>7. CASE Cleanup
  <2>1. TypeData'
    BY <1>7 DEF TypeData, Cleanup
  <2>2. (forced \in BOOLEAN)'
    BY <1>7, Zenon DEF Cleanup
  <2> QED
    BY <2>1, <2>2 DEF TypeData
<1>8. CASE UNCHANGED vars
  BY <1>8 DEF vars
<1> QED
  BY <1>1, <1>2, <1>3, <1>4, <1>5, <1>6, <1>7, <1>8 DEF Next, Step

\* The compare-and-swap lets one thread in, and it leaves before the state
\* becomes 2.
LEMMA StatePreserved ==
  ASSUME IInv, [Next]_vars PROVE OneInitialiser' /\ StateInv'
<1> USE DEF IInv, TypeOK, OneInitialiser, StateInv, SettingUp, Goto
<1>1. ASSUME NEW t \in Thread, AlreadyDone(t) \/ Publish(t) \/ Spin(t)
      PROVE OneInitialiser' /\ StateInv'
  BY <1>1 DEF AlreadyDone, Publish, Spin, InitReturns
<1>2. ASSUME NEW t \in Thread, NotDone(t) \/ Win(t) \/ Lose(t) \/ CallInit(t)
      PROVE OneInitialiser' /\ StateInv'
  BY <1>2 DEF NotDone, Win, Lose, CallInit
<1>3. ASSUME NEW t \in Thread, WriteField(t) \/ ReadField(t)
      PROVE OneInitialiser' /\ StateInv'
  BY <1>3 DEF WriteField, ReadField
<1>4. ASSUME NEW t \in Thread, ScalarDone(t) \/ VectorDone(t) \/ ForceDone(t)
      PROVE OneInitialiser' /\ StateInv'
  BY <1>4 DEF ScalarDone, VectorDone, ForceDone
<1>5. ASSUME NEW t \in Thread, StartDiff(t) \/ StartScalarDiff(t) \/ EndDiff(t)
      PROVE OneInitialiser' /\ StateInv'
  BY <1>5 DEF StartDiff, StartScalarDiff, EndDiff
<1>6. CASE Cleanup
  BY <1>6 DEF Cleanup
<1>7. CASE UNCHANGED vars
  BY <1>7 DEF vars
<1> QED
  BY <1>1, <1>2, <1>3, <1>4, <1>5, <1>6, <1>7 DEF Next, Step

\* A thread outside of a diff has seen nothing.
LEMMA ThreadPreserved ==
  ASSUME IInv, [Next]_vars PROVE ThreadInv'
<1> USE DEF IInv, TypeOK, ThreadInv, Goto
<1>1. ASSUME NEW t \in Thread, AlreadyDone(t) \/ Publish(t) \/ Spin(t) PROVE ThreadInv'
  BY <1>1 DEF AlreadyDone, Publish, Spin, InitReturns
<1>2. ASSUME NEW t \in Thread, NotDone(t) \/ Win(t) \/ Lose(t) \/ CallInit(t) PROVE ThreadInv'
  BY <1>2 DEF NotDone, Win, Lose, CallInit
<1>3. ASSUME NEW t \in Thread, WriteField(t) \/ ReadField(t) PROVE ThreadInv'
  BY <1>3 DEF WriteField, ReadField
<1>4. ASSUME NEW t \in Thread, ScalarDone(t) \/ VectorDone(t) \/ ForceDone(t) PROVE ThreadInv'
  BY <1>4 DEF ScalarDone, VectorDone, ForceDone
<1>5. ASSUME NEW t \in Thread, StartDiff(t) \/ StartScalarDiff(t) \/ EndDiff(t) PROVE ThreadInv'
  BY <1>5 DEF StartDiff, StartScalarDiff, EndDiff
<1>6. CASE Cleanup
  BY <1>6 DEF Cleanup
<1>7. CASE UNCHANGED vars
  BY <1>7 DEF vars
<1> QED
  BY <1>1, <1>2, <1>3, <1>4, <1>5, <1>6, <1>7 DEF Next, Step

\* While nobody forces scalar only the one thread that sets up writes, so the
\* table is complete when the state becomes 2.
LEMMA TablePreserved ==
  ASSUME IInv, [Next]_vars PROVE TableInv'
<1> USE InitAssumption DEF IInv, TypeOK, OneInitialiser, StateInv, ThreadInv, TableInv, SettingUp, Goto
<1>1. ASSUME NEW t \in Thread, AlreadyDone(t) \/ Publish(t) \/ Spin(t) PROVE TableInv'
  BY <1>1 DEF AlreadyDone, Publish, Spin, InitReturns
<1>2. ASSUME NEW t \in Thread, NotDone(t) \/ Win(t) \/ Lose(t) \/ CallInit(t) PROVE TableInv'
  BY <1>2 DEF NotDone, Win, Lose, CallInit
<1>3. ASSUME NEW t \in Thread, WriteField(t) PROVE TableInv'
  BY <1>3 DEF WriteField
<1>4. ASSUME NEW t \in Thread, ReadField(t) PROVE TableInv'
  BY <1>4 DEF ReadField
<1>5. ASSUME NEW t \in Thread, ScalarDone(t) \/ VectorDone(t) \/ ForceDone(t) PROVE TableInv'
  BY <1>5 DEF ScalarDone, VectorDone, ForceDone
<1>6. ASSUME NEW t \in Thread, StartDiff(t) \/ StartScalarDiff(t) \/ EndDiff(t) PROVE TableInv'
  BY <1>6 DEF StartDiff, StartScalarDiff, EndDiff
<1>7. CASE Cleanup
  BY <1>7 DEF Cleanup
<1>8. CASE UNCHANGED vars
  BY <1>8 DEF vars
<1> QED
  BY <1>1, <1>2, <1>3, <1>4, <1>5, <1>6, <1>7, <1>8 DEF Next, Step

\* A thread that is ready reads after the state became 2.
LEMMA ReadPreserved ==
  ASSUME IInv, [Next]_vars PROVE NoTornRead'
<1> USE InitAssumption DEF IInv, TypeOK, StateInv, ThreadInv, TableInv, NoTornRead, Field, Impl, Goto
<1>1. ASSUME NEW t \in Thread, AlreadyDone(t) \/ Publish(t) \/ Spin(t) PROVE NoTornRead'
  BY <1>1 DEF AlreadyDone, Publish, Spin, InitReturns
<1>2. ASSUME NEW t \in Thread, NotDone(t) \/ Win(t) \/ Lose(t) \/ CallInit(t) PROVE NoTornRead'
  BY <1>2 DEF NotDone, Win, Lose, CallInit
<1>3. ASSUME NEW t \in Thread, WriteField(t) PROVE NoTornRead'
  BY <1>3 DEF WriteField
<1>4. ASSUME NEW t \in Thread, ReadField(t) PROVE NoTornRead'
  BY <1>4 DEF ReadField
<1>5. ASSUME NEW t \in Thread, ScalarDone(t) \/ VectorDone(t) \/ ForceDone(t) PROVE NoTornRead'
  BY <1>5 DEF ScalarDone, VectorDone, ForceDone
<1>6. ASSUME NEW t \in Thread, StartDiff(t) \/ StartScalarDiff(t) \/ EndDiff(t) PROVE NoTornRead'
  BY <1>6 DEF StartDiff, StartScalarDiff, EndDiff
<1>7. CASE Cleanup
  BY <1>7 DEF Cleanup
<1>8. CASE UNCHANGED vars
  BY <1>8 DEF vars
<1> QED
  BY <1>1, <1>2, <1>3, <1>4, <1>5, <1>6, <1>7, <1>8 DEF Next, Step

\* A set-up that starts overlaps every diff that runs; without one only scalar
\* functions are written.
LEMMA ScalarPreserved ==
  ASSUME IInv, [Next]_vars PROVE ScalarInv'
<1> USE InitAssumption DEF IInv, TypeOK, StateInv, ThreadInv, ScalarInv, SettingUp, Field, Impl, Goto
<1>1. ASSUME NEW t \in Thread, AlreadyDone(t) \/ Publish(t) \/ Spin(t) PROVE ScalarInv'
  BY <1>1 DEF AlreadyDone, Publish, Spin, InitReturns
<1>2. ASSUME NEW t \in Thread, NotDone(t) \/ Win(t) \/ Lose(t) \/ CallInit(t) PROVE ScalarInv'
  BY <1>2 DEF NotDone, Win, Lose, CallInit
<1>3. ASSUME NEW t \in Thread, WriteField(t) PROVE ScalarInv'
  BY <1>3 DEF WriteField
<1>4. ASSUME NEW t \in Thread, ReadField(t) PROVE ScalarInv'
  BY <1>4 DEF ReadField
<1>5. ASSUME NEW t \in Thread, ScalarDone(t) \/ VectorDone(t) \/ ForceDone(t) PROVE ScalarInv'
  BY <1>5 DEF ScalarDone, VectorDone, ForceDone
<1>6. ASSUME NEW t \in Thread, StartDiff(t) \/ StartScalarDiff(t) \/ EndDiff(t) PROVE ScalarInv'
  BY <1>6 DEF StartDiff, StartScalarDiff, EndDiff
<1>7. CASE Cleanup
  BY <1>7 DEF Cleanup
<1>8. CASE UNCHANGED vars
  BY <1>8 DEF vars
<1> QED
  BY <1>1, <1>2, <1>3, <1>4, <1>5, <1>6, <1>7, <1>8 DEF Next, Step

\* What a diff with force_scalar reads is scalar.
LEMMA HonouredPreserved ==
  ASSUME IInv, [Next]_vars PROVE ScalarHonoured'
<1> USE InitAssumption DEF IInv, TypeOK, StateInv, ThreadInv, ScalarInv, ScalarHonoured, Field, Impl, Goto
<1>1. ASSUME NEW t \in Thread, AlreadyDone(t) \/ Publish(t) \/ Spin(t) PROVE ScalarHonoured'
  BY <1>1 DEF AlreadyDone, Publish, Spin, InitReturns
<1>2. ASSUME NEW t \in Thread, NotDone(t) \/ Win(t) \/ Lose(t) \/ CallInit(t) PROVE ScalarHonoured'
  BY <1>2 DEF NotDone, Win, Lose, CallInit
<1>3. ASSUME NEW t \in Thread, WriteField(t) PROVE ScalarHonoured'
  BY <1>3 DEF WriteField
<1>4. ASSUME NEW t \in Thread, ReadField(t) PROVE ScalarHonoured'
  BY <1>4 DEF ReadField
<1>5. ASSUME NEW t \in Thread, ScalarDone(t) \/ VectorDone(t) \/ ForceDone(t) PROVE ScalarHonoured'
  BY <1>5 DEF ScalarDone, VectorDone, ForceDone
<1>6. ASSUME NEW t \in Thread, StartDiff(t) \/ StartScalarDiff(t) \/ EndDiff(t) PROVE ScalarHonoured'
  BY <1>6 DEF StartDiff, StartScalarDiff, EndDiff
<1>7. CASE Cleanup
  BY <1>7 DEF Cleanup
<1>8. CASE UNCHANGED vars
  BY <1>8 DEF vars
<1> QED
  BY <1>1, <1>2, <1>3, <1>4, <1>5, <1>6, <1>7, <1>8 DEF Next, Step

\* IInv is an invariant.
THEOREM InvariantHolds == Spec => []IInv
<1>1. IInv /\ [Next]_vars => IInv'
  BY TypePreserved, StatePreserved, ThreadPreserved, TablePreserved, ReadPreserved,
     ScalarPreserved, HonouredPreserved DEF IInv
<1> QED
  BY InitIInv, <1>1, PTL DEF Spec

\* However many threads call fsd_init at once, one sets the table up.
THEOREM InitialisedOnce == Spec => []OneInitialiser
<1>1. IInv => OneInitialiser
  BY DEF IInv
<1> QED
  BY <1>1, InvariantHolds, PTL

\* A diff of a thread that called fsd_init never reads a table that is only
\* partly set up.
THEOREM TableIsWhole == Spec => []NoTornRead
<1>1. IInv => NoTornRead
  BY DEF IInv
<1> QED
  BY <1>1, InvariantHolds, PTL

\* Any diff with force_scalar that no set-up of the table overlaps gets scalar
\* functions only, also in a thread that never called fsd_init.
THEOREM ScalarStays == Spec => []ScalarHonoured
<1>1. IInv => ScalarHonoured
  BY DEF IInv
<1> QED
  BY <1>1, InvariantHolds, PTL
=============================================================================
