--------------------------- MODULE Procrastinator ---------------------------
(***************************************************************************)
(* Procrastinate (Products/ZenHub/services/Procrastinator.py): devices     *)
(* whose configuration is to be pushed wait for five quiet seconds, and    *)
(* are then taken one by one, with a short pause after each.               *)
(*                                                                         *)
(* There may be several timers: doLater replaces the long one only, and    *)
(* every short one continues on its own.  The actions are without what the *)
(* owner of the procrastinator does (see ConfigPush).  stop and clear are  *)
(* left out: the services whose pushes are modelled call neither.          *)
(***************************************************************************)
EXTENDS Naturals, FiniteSets

CONSTANT Devices

VARIABLES devices,  \* the devices that wait
          timer,    \* the timer of doLater is running
          chains    \* timers of _doNow that are running

procrastinatorVars == <<devices, timer, chains>>

ProcrastinatorInit == /\ devices = {}
                      /\ timer = FALSE
                      /\ chains = 0

\* doLater, for each of ds
DoLater(ds) == /\ devices' = devices \cup ds
               /\ timer' = (timer \/ ds # {})
               /\ UNCHANGED chains

\* Timers of _doNow that run on when the timer that has fired was this one
ChainsLeft(long) == IF long THEN chains ELSE chains - 1

\* A timer that may fire: that of doLater, or one of _doNow
Running(long) == IF long THEN timer ELSE chains > 0

\* Mutant of Continues: a timer runs on only if the long one is not running.
ContinuesAlone(long, d) ==
    IF devices \ {d} # {} /\ ~timer THEN ChainsLeft(long) + 1 ELSE ChainsLeft(long)

\* After d, _doNow calls itself later if devices are left
Continues(long, d) == IF devices \ {d} # {} THEN ChainsLeft(long) + 1 ELSE ChainsLeft(long)

\* _doNow takes d, whose callback succeeds
DoNow(long, d) == /\ Running(long)
                  /\ d \in devices
                  /\ devices' = devices \ {d}
                  /\ timer' = (timer /\ ~long)
                  /\ chains' = Continues(long, d)

\* The callback raises, and nothing is called later
DoNowFails(long, d) == /\ Running(long)
                       /\ d \in devices
                       /\ devices' = devices \ {d}
                       /\ timer' = (timer /\ ~long)
                       /\ chains' = ChainsLeft(long)

\* A timer finds that another one has taken the last device
DoNowIdle(long) == /\ Running(long)
                   /\ devices = {}
                   /\ timer' = (timer /\ ~long)
                   /\ chains' = ChainsLeft(long)
                   /\ UNCHANGED devices

ProcrastinatorTypeOK == /\ devices \subseteq Devices
                        /\ timer \in BOOLEAN
                        /\ chains \in Nat

\* A device that waits has a timer that will take it
Awake == devices # {} => timer \/ chains > 0
=============================================================================
