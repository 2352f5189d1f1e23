----------------------------- MODULE MCCaseScenes ------------------------------
(***************************************************************************)
(* Two scenes of CaseWorkflow in one instance, told apart by the secretary *)
(* who opened the case. A case of "sec" goes along every command of the    *)
(* transition map, one request at a time. A case of "sec2" is led by two   *)
(* requests at a time to the council and its decision while its            *)
(* confidentiality changes.                                                *)
(***************************************************************************)
EXTENDS MCCaseWorkflow

TourUsers == Users \ {"sec2"}
LevelsUsers == {"sec2", "chair", "rap", "member"}

Alone == \A r \in Slots : ~Busy(r)

OfTour(r) ==
    /\ r.kind # "confidentiality"
    /\ {r.actor, r.arg} \subseteq TourUsers \cup {None}

OfLevels(r) ==
    /\ r.kind # "complete"
    /\ {r.actor, r.arg} \subseteq LevelsUsers \cup {None}
    /\ r.command \in ToCouncil \cup {"none"}

\* "sec2" may send two requests to open the case. Whichever succeeds, the cases that follow
\* differ by the number of the request alone, so only the first number is followed.
SceneSubmit(s) ==
    \/ /\ transitions = <<>>
       /\ Submit(s)
       /\ Alone \/ \A r \in Slots : requests'[r].actor \in {"sec2", None}
    \/ /\ transitions # <<>> /\ transitions[1].actor = "sec" /\ Alone
       /\ Submit(s)
       /\ OfTour(requests'[s])
    \/ /\ transitions # <<>> /\ transitions[1].actor = "sec2" /\ Len(transitions) < 7
       /\ transitions[1].key = <<"api", 1>>
       /\ Submit(s)
       /\ OfLevels(requests'[s])

\* The decisions of the system are free in both scenes.
SceneNext ==
    \E s \in Slots :
        \/ SceneSubmit(s)
        \/ \E c \in Cases : UnanimityBegin(s, c)
        \/ Serve(s)
        \/ Crash(s)

SceneSpec == Init /\ [][SceneNext]_vars

================================================================================
