----------------------------- MODULE MCEvidence -----------------------------
(***************************************************************************)
(* Four components that share no state, each on a small instance of its    *)
(* own: the search for cron occurrences, protected acquisition, the        *)
(* delivery history and the image broker.  `part` says which one moves.    *)
(***************************************************************************)
EXTENDS Cron, Acquisition, DeliveryHistory, ImageBroker, TLC

VARIABLE part

evidenceVars == <<part, cronVars, acqVars, histVars, imgVars>>

\* Cron: days of two hours of two minutes, four days that cross the end of a
\* month and of a week.
MCDom == (0 :> 4 @@ 1 :> 1 @@ 2 :> 2 @@ 3 :> 3)
MCMonth == (0 :> 1 @@ 1 :> 2 @@ 2 :> 2 @@ 3 :> 2)
MCWeekday == (0 :> 6 @@ 1 :> 0 @@ 2 :> 1 @@ 3 :> 2)

Star == [span |-> "star", lo |-> 0, hi |-> 0, step |-> 1]
Every(n) == [span |-> "star", lo |-> 0, hi |-> 0, step |-> n]
Range2(a, b, n) == [span |-> "range", lo |-> a, hi |-> b, step |-> n]
One(a) == [span |-> "single", lo |-> a, hi |-> 0, step |-> 1]
From(a, n) == [span |-> "from", lo |-> a, hi |-> 0, step |-> n]

\* Wildcards, lists, ranges and steps in each position, and three mistakes.
EveryMinute == [f \in FieldNames |-> <<Star>>]

MCExpressions ==
    [minute : {<<Star>>, <<One(1)>>},
     hour : {<<Star>>, <<From(1, 1)>>},
     dom : {<<Star>>, <<One(2), One(4)>>},
     month : {<<Star>>, <<One(2)>>},
     dow : {<<Star>>, <<One(7)>>, <<Range2(2, 6, 2)>>}]
    \cup {[EveryMinute EXCEPT !["minute"] = <<Star, One(2)>>],
          [EveryMinute EXCEPT !["dom"] = <<Range2(3, 2, 1)>>],
          [EveryMinute EXCEPT !["dow"] = <<Every(0)>>]}

\* Acquisition: two descriptors of one document, and an image.
MCSources == {"p", "q", "i"}
MCKind == [s \in MCSources |-> IF s = "i" THEN "image" ELSE "pdf"]
MCSize == [s \in MCSources |-> 2]
MCDocument == [s \in MCSources |-> IF s = "i" THEN "image" ELSE "document"]
Artifact(from, wanted, hold, derived) ==
    [from |-> from, wanted |-> wanted, hold |-> hold, derived |-> derived]
MCArtifacts ==
    {<<Artifact("i", TRUE, TRUE, "none"), Artifact("p", TRUE, FALSE, "none")>>,
     <<Artifact("local", TRUE, FALSE, "i"), Artifact("i", FALSE, FALSE, "none")>>,
     <<Artifact("p", TRUE, FALSE, "none"), Artifact("q", TRUE, FALSE, "none")>>}

\* DeliveryHistory: the second mail finds the first one's record under another
\* name, and other content under the first name.
Item(entity, content) == [entity |-> entity, content |-> content]
MCFinds == <<{{Item("e", "a")}}, {{Item("f", "a"), Item("e", "b")}}>>
MCAlias == [e \in {"e", "f"} |-> {"e", "f"}]

\* ImageBroker: two requests that want one file name.
MCBriefs == <<<<"a", "b">>, <<"a">>>>

\* The components that do not move have one initial state.
Init ==
    /\ part \in {"cron", "acquisition", "history", "images"}
    /\ CronInit /\ AcqInit /\ HistInit /\ ImgInit
    /\ part # "cron" => /\ expr = EveryMinute /\ start = 0 /\ end = 0 /\ latest
    /\ part # "images" => broker.engine = "codex"

Next ==
    \/ part = "cron" /\ CronNext /\ UNCHANGED <<part, acqVars, histVars, imgVars>>
    \/ part = "acquisition" /\ AcqNext /\ UNCHANGED <<part, cronVars, histVars, imgVars>>
    \/ part = "history" /\ HistNext /\ UNCHANGED <<part, cronVars, acqVars, imgVars>>
    \/ part = "images" /\ ImgNext /\ UNCHANGED <<part, cronVars, acqVars, histVars>>
    \* all but an acquisition may come to rest
    \/ part # "acquisition" /\ UNCHANGED evidenceVars

Spec == Init /\ [][Next]_evidenceVars
=============================================================================
