----------------------------- MODULE MCSmtpQueue -----------------------------
(***************************************************************************)
(* Instances of SmtpQueue for TLC.                                         *)
(***************************************************************************)
EXTENDS SmtpQueue, TLC

CONSTANTS m1, m2, k1, k2, d1, d2, o1

OneReport == (m1 :> "report")
ReportAndProbe == (m1 :> "report" @@ m2 :> "probe")
ReportAndAlert == (m1 :> "report" @@ m2 :> "alert")

\* Reports are of one family.
OneFamily == [m \in Messages |-> 1]

KeySymmetry == Permutations(Keys)

(***************************************************************************)
(* Several instances in one run, which differ in the messages and processes *)
(* that are used.                                                          *)
(***************************************************************************)
CONSTANT Instances
VARIABLE used

mcVars == <<vars, used>>

MCInit == Init /\ used \in Instances

MCNext ==
    /\ UNCHANGED used
    /\ \/ \E p \in Processes \cap used : Proceed(p) \/ Poll(p) \/ Command(p) \/ Crash(p)
       \/ \E m \in Messages \cap used :
              \/ CreateRun(m) \/ EndRun(m) \/ PublishAlert(m) \/ EnqueueTest(m)
              \/ \E n \in Numbers :
                     ServerDecides(<<m, n>>) \/ DueArrives(<<m, n>>) \/ ExpiryPasses(<<m, n>>)
       \/ EditSettings
    \* One failure: a crash, or a result that cannot be stored.
    /\ crashes' + faults' <= 1

MCSpec == MCInit /\ [][MCNext]_mcVars
MCFairSpec == MCSpec /\ Fairness
=============================================================================
