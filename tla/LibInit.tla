------------------------------ MODULE LibInit ------------------------------
(***************************************************************************)
(* Library initialization: the three-state fsd_init and the process-global *)
(* table of block functions that it sets up, used by threads that run      *)
(* diffs, some of them with the option force_scalar.  The table is plain   *)
(* memory, so it is written and read one field at a time.                  *)
(***************************************************************************)
EXTENDS Integers, FiniteSets

CONSTANTS
  Thread,
  Best,           \* what detection finds: "scalar" or "vector"
  MaxCleanups     \* calls of fsd_cleanup

ASSUME InitAssumption == Best \in {"scalar", "vector"} /\ MaxCleanups \in Nat

Field == {"is_zero", "is_one", "count_matches"}
Impl == {"none", "scalar", "vector"}

VARIABLES
  g_init_state,   \* 0 uninitialised, 1 in progress, 2 done
  g_fsd_simd,     \* the dispatch table
  pc,             \* where each thread is
  todo,           \* the fields a thread still has to write
  seen,           \* what a diff of the thread got from the table
  scalar_run,     \* threads whose diff has force_scalar set
  ready,          \* threads that called fsd_init since the last cleanup
  forced,         \* history: some diff had force_scalar since then
  overlapped,     \* history: diffs with force_scalar during which fsd_init ran
  cleanups

vars == <<g_init_state, g_fsd_simd, pc, todo, seen, scalar_run, ready, forced, overlapped, cleanups>>

Init ==
  /\ g_init_state = 0
  /\ g_fsd_simd = [f \in Field |-> "none"]
  /\ pc = [t \in Thread |-> "idle"]
  /\ todo = [t \in Thread |-> {}]
  /\ seen = [t \in Thread |-> {}]
  /\ scalar_run = {} /\ ready = {} /\ forced = FALSE /\ overlapped = {} /\ cleanups = 0

Goto(t, to) == pc' = [pc EXCEPT ![t] = to]

(***************************************************************************)
(* fsd_init                                                                *)
(***************************************************************************)
CallInit(t) ==
  /\ pc[t] = "idle" /\ Goto(t, "load")
  /\ UNCHANGED <<g_init_state, g_fsd_simd, todo, seen, scalar_run, ready, forced, overlapped, cleanups>>

InitReturns(t) == Goto(t, "idle") /\ ready' = ready \cup {t}

AlreadyDone(t) ==
  /\ pc[t] = "load" /\ g_init_state = 2
  /\ InitReturns(t)
  /\ UNCHANGED <<g_init_state, g_fsd_simd, todo, seen, scalar_run, forced, overlapped, cleanups>>

NotDone(t) ==
  /\ pc[t] = "load" /\ g_init_state # 2
  /\ Goto(t, "cas")
  /\ UNCHANGED <<g_init_state, g_fsd_simd, todo, seen, scalar_run, ready, forced, overlapped, cleanups>>

\* The thread that changes 0 to 1 sets the table up, to scalar first.
Win(t) ==
  /\ pc[t] = "cas" /\ g_init_state = 0
  /\ g_init_state' = 1
  /\ Goto(t, "scalar") /\ todo' = [todo EXCEPT ![t] = Field]
  /\ overlapped' = overlapped \cup {u \in Thread : pc[u] \in {"force", "work"}}
  /\ UNCHANGED <<g_fsd_simd, seen, scalar_run, ready, forced, cleanups>>

Lose(t) ==
  /\ pc[t] = "cas" /\ g_init_state # 0
  /\ Goto(t, "spin")
  /\ UNCHANGED <<g_init_state, g_fsd_simd, todo, seen, scalar_run, ready, forced, overlapped, cleanups>>

\* One field, in the order the compiler chose.
WriteField(t) ==
  /\ pc[t] \in {"scalar", "vector", "force"}
  /\ \E f \in todo[t] :
       /\ g_fsd_simd' = [g_fsd_simd EXCEPT ![f] = IF pc[t] = "vector" THEN "vector" ELSE "scalar"]
       /\ todo' = [todo EXCEPT ![t] = @ \ {f}]
  /\ UNCHANGED <<g_init_state, pc, seen, scalar_run, ready, forced, overlapped, cleanups>>

\* Scalar is all there is, or the vector functions go over it.
ScalarDone(t) ==
  /\ pc[t] = "scalar" /\ todo[t] = {}
  /\ IF Best = "vector"
     THEN Goto(t, "vector") /\ todo' = [todo EXCEPT ![t] = Field]
     ELSE Goto(t, "publish") /\ UNCHANGED todo
  /\ UNCHANGED <<g_init_state, g_fsd_simd, seen, scalar_run, ready, forced, overlapped, cleanups>>

VectorDone(t) ==
  /\ pc[t] = "vector" /\ todo[t] = {}
  /\ Goto(t, "publish")
  /\ UNCHANGED <<g_init_state, g_fsd_simd, todo, seen, scalar_run, ready, forced, overlapped, cleanups>>

\* Mutant: the state is released, not published.
Publish_releases(t) ==
  /\ pc[t] = "publish"
  /\ g_init_state' = 0
  /\ InitReturns(t)
  /\ UNCHANGED <<g_fsd_simd, todo, seen, scalar_run, forced, overlapped, cleanups>>

Publish(t) ==
  /\ pc[t] = "publish"
  /\ g_init_state' = 2
  /\ InitReturns(t)
  /\ UNCHANGED <<g_fsd_simd, todo, seen, scalar_run, forced, overlapped, cleanups>>

\* Mutant: any other state than 0 ends the wait.
Spin_started(t) ==
  /\ pc[t] = "spin" /\ g_init_state # 0
  /\ InitReturns(t)
  /\ UNCHANGED <<g_init_state, g_fsd_simd, todo, seen, scalar_run, forced, overlapped, cleanups>>

\* The wait of the threads that lost.
Spin(t) ==
  /\ pc[t] = "spin" /\ g_init_state = 2
  /\ InitReturns(t)
  /\ UNCHANGED <<g_init_state, g_fsd_simd, todo, seen, scalar_run, forced, overlapped, cleanups>>

(***************************************************************************)
(* Diffs and cleanup                                                       *)
(***************************************************************************)
\* fsd_diff_files without and with force_scalar; fsd_init is optional.
StartDiff(t) ==
  /\ pc[t] = "idle" /\ Goto(t, "work")
  /\ scalar_run' = scalar_run \ {t}
  /\ UNCHANGED <<g_init_state, g_fsd_simd, todo, seen, ready, forced, overlapped, cleanups>>

\* Mutant: the scalar table leaves a function as it is.
StartScalarDiff_partial(t) ==
  /\ pc[t] = "idle" /\ Goto(t, "force")
  /\ todo' = [todo EXCEPT ![t] = Field \ {"count_matches"}]
  /\ scalar_run' = scalar_run \cup {t} /\ forced' = TRUE
  /\ overlapped' = IF g_init_state = 1 THEN overlapped \cup {t} ELSE overlapped \ {t}
  /\ UNCHANGED <<g_init_state, g_fsd_simd, seen, ready, cleanups>>

StartScalarDiff(t) ==
  /\ pc[t] = "idle" /\ Goto(t, "force")
  /\ todo' = [todo EXCEPT ![t] = Field]
  /\ scalar_run' = scalar_run \cup {t} /\ forced' = TRUE
  /\ overlapped' = IF g_init_state = 1 THEN overlapped \cup {t} ELSE overlapped \ {t}
  /\ UNCHANGED <<g_init_state, g_fsd_simd, seen, ready, cleanups>>

ForceDone(t) ==
  /\ pc[t] = "force" /\ todo[t] = {}
  /\ Goto(t, "work")
  /\ UNCHANGED <<g_init_state, g_fsd_simd, todo, seen, scalar_run, ready, forced, overlapped, cleanups>>

\* A stage takes a function from the table; for none it has a scalar one.
ReadField(t) ==
  /\ pc[t] = "work"
  /\ \E f \in Field :
       seen' = [seen EXCEPT ![t] =
                  @ \cup {IF g_fsd_simd[f] = "none" THEN "scalar" ELSE g_fsd_simd[f]}]
  /\ UNCHANGED <<g_init_state, g_fsd_simd, pc, todo, scalar_run, ready, forced, overlapped, cleanups>>

EndDiff(t) ==
  /\ pc[t] = "work" /\ Goto(t, "idle")
  /\ seen' = [seen EXCEPT ![t] = {}]
  /\ UNCHANGED <<g_init_state, g_fsd_simd, todo, scalar_run, ready, forced, overlapped, cleanups>>

\* fsd_cleanup, by its contract called when nobody uses the library.
Cleanup ==
  /\ \A t \in Thread : pc[t] = "idle"
  /\ cleanups < MaxCleanups
  /\ g_init_state' = 0
  /\ ready' = {} /\ forced' = FALSE /\ cleanups' = cleanups + 1
  /\ UNCHANGED <<g_fsd_simd, pc, todo, seen, scalar_run, overlapped>>

\* What a thread does without a caller.
Step(t) ==
  \/ AlreadyDone(t) \/ NotDone(t) \/ Win(t) \/ Lose(t) \/ WriteField(t)
  \/ ScalarDone(t) \/ VectorDone(t) \/ Publish(t) \/ Spin(t) \/ ForceDone(t)

Next ==
  \/ \E t \in Thread :
       Step(t) \/ CallInit(t) \/ StartDiff(t) \/ StartScalarDiff(t) \/ ReadField(t) \/ EndDiff(t)
  \/ Cleanup

\* Every thread inside fsd_init is scheduled.
Spec == Init /\ [][Next]_vars /\ \A t \in Thread : WF_vars(Step(t))

(***************************************************************************)
(* Properties                                                              *)
(***************************************************************************)
SettingUp == {"scalar", "vector", "publish"}

\* Every variable has its type.
TypeOK ==
  /\ g_init_state \in 0..2
  /\ g_fsd_simd \in [Field -> Impl]
  /\ pc \in [Thread -> SettingUp \cup {"idle", "load", "cas", "spin", "force", "work"}]
  /\ todo \in [Thread -> SUBSET Field]
  /\ seen \in [Thread -> SUBSET Impl]
  /\ scalar_run \subseteq Thread /\ ready \subseteq Thread /\ overlapped \subseteq Thread
  /\ forced \in BOOLEAN
  /\ cleanups \in 0..MaxCleanups

\* "Exactly one thread wins": two threads never write the table in fsd_init
\* at the same time, whichever of them call it together.
OneInitialiser ==
  \A t, u \in Thread : pc[t] \in SettingUp /\ pc[u] \in SettingUp => t = u

\* A diff of a thread that called fsd_init before never gets a function of a
\* table that is still being set up: it sees the detected functions only, as
\* long as no diff of the process asked for scalar ones.
NoTornRead ==
  \A t \in ready : ~forced /\ pc[t] = "work" => seen[t] \subseteq {Best}

\* A diff with force_scalar uses scalar functions only, whether or not its
\* thread ever called fsd_init and whatever other diffs do, unless fsd_init set
\* the table up while it ran: nothing orders the two, and then it may get
\* vector functions.
ScalarHonoured ==
  \A t \in scalar_run \ overlapped : pc[t] = "work" => seen[t] \subseteq {"scalar"}

\* fsd_init returns to every thread that calls it, those that wait included.
InitEnds ==
  \A t \in Thread : pc[t] \in SettingUp \cup {"load", "cas", "spin"} ~> pc[t] = "idle"
=============================================================================
