------------------------------ MODULE Profiles ------------------------------
(***************************************************************************)
(* The profiling page (ui/src/pages/Tools/Profiling) and what the server     *)
(* does to make a profile (internal/service/pprof.go: GeneratePprof).        *)
(*                                                                           *)
(* The page creates a profile or shows the profiles of the workload, and     *)
(* below that the graphs of one profile, or of the difference of two, which  *)
(* must be generated before they can be shown.  The page survives a change   *)
(* of the pod.  ProfileViewSvg is one instance as long as there is something *)
(* to show; answers to an instance that is gone have no effect.              *)
(*                                                                           *)
(* The server runs a goroutine per type of profile; all of them assign the   *)
(* err that GeneratePprof declares.                                          *)
(***************************************************************************)
EXTENDS Naturals, FiniteSets

CONSTANTS Pods,
          WorkloadOf,   \* the list of profiles is that of the pod's workload
          Types,        \* types of profiles: profile, heap, goroutine, mutex
          MaxProfiles,  \* bound on the profiles made for pods
          ListCalls,    \* bound on the lists asked for at a time
          None

VARIABLES pf,      \* the page
          run,     \* the call of GeneratePprof, or None
          doubled  \* history: a diff was asked for while one was under way, by the same instance

profilesVars == <<pf, run, doubled>>

\* ctime, in seconds, is taken to tell the profiles of a pod apart; pod is None for mode ip
Profile == [pod : Pods \cup {None}, ctime : 1..MaxProfiles]
Pair    == [base : Profile, target : Profile]
\* the props of ProfileViewSvg
View    == [url : Profile] \cup Pair
\* a call of GeneratePprof
Run     == [profile : Profile, err : BOOLEAN, failed : SUBSET Types,
            step : [Types -> {"work", "wrote", "returns", "ok", "bad"}]]

ProfilesAssumption ==
    /\ MaxProfiles \in Nat /\ ListCalls \in Nat /\ Types # {}
    /\ None \notin Pods /\ None \notin Run

ProfilesTypeOK ==
    /\ pf \in [pod : Pods, deps : {"checking", "ok", "missing"},
               profile : Profile \cup {None}, spinning : BOOLEAN, showHistory : BOOLEAN,
               history : SUBSET Profile, base : Profile \cup {None}, target : Profile \cup {None},
               currentBase : Profile \cup {None}, openModal : BOOLEAN, showDiff : BOOLEAN,
               view : View \cup {None}, loadingDiff : BOOLEAN,
               lists : SUBSET Pods, diffs : SUBSET Pair, stored : SUBSET Profile]
    /\ run = None \/ run \in Run
    /\ doubled \in BOOLEAN

-----------------------------------------------------------------------------
(* What is shown.                                                            *)

\* pageContent: the graphs of the difference, else of the profile, unless one is being made
Viewed(p) ==
    IF p.spinning \/ p.deps # "ok" THEN None
    ELSE IF p.showDiff /\ p.base # None /\ p.target # None THEN [base |-> p.base, target |-> p.target]
    ELSE IF p.profile # None THEN [url |-> p.profile]
    ELSE None

ShowsDiff(view) == view # None /\ "base" \in DOMAIN view

\* Mutant: the graphs are asked for at once.
RunProfilesDiffUnwaited(p) == [p EXCEPT !.diffs = @ \cup {p.view}]

\* handleRunProfilesDiff
RunProfilesDiff(p) == [p EXCEPT !.loadingDiff = TRUE, !.diffs = @ \cup {p.view}]

\* The effect of ProfileViewSvg when its props change; a new instance starts afresh.
Render(p) ==
    LET view == Viewed(p)
        q == [p EXCEPT !.view = view,
                       !.loadingDiff = IF None \in {view, p.view} THEN FALSE ELSE @,
                       !.diffs = IF view = None THEN {} ELSE @]
    IN  IF view = p.view THEN p ELSE IF ShowsDiff(view) THEN RunProfilesDiff(q) ELSE q

Become(p) ==
    LET q == Render(p) IN
    /\ pf' = q
    /\ doubled' = (q.view # None
                   /\ (doubled \/ (ShowsDiff(q.view) /\ q.view # pf.view /\ pf.diffs # {})))

\* setShowHistory, and useDiffProfile's clean-up, which keeps showDiff
SetShowHistory(p, show) ==
    IF show = p.showHistory THEN p
    ELSE [p EXCEPT !.showHistory = show, !.openModal = FALSE,
                   !.base = None, !.target = None, !.currentBase = None]

ResetProfile(p) == [p EXCEPT !.profile = None]

ProfilesInit ==
    /\ \E pod \in Pods, deps \in {"checking", "ok"} :   \* only the desktop application checks
        pf = [pod |-> pod, deps |-> deps, profile |-> None, spinning |-> FALSE, showHistory |-> FALSE,
              history |-> {}, base |-> None, target |-> None, currentBase |-> None, openModal |-> FALSE,
              showDiff |-> FALSE, view |-> None, loadingDiff |-> FALSE,
              lists |-> {}, diffs |-> {}, stored |-> {}]
    /\ run = None
    /\ doubled = FALSE

-----------------------------------------------------------------------------
(* The user.                                                                 *)

\* While the dependencies are checked a spinner covers the page; an open modal does.
Usable == pf.deps = "ok" /\ ~pf.openModal

ChangePod(pod) ==
    /\ pod # pf.pod /\ ~pf.openModal
    /\ Become([pf EXCEPT !.pod = pod])
    /\ UNCHANGED run

\* CreateProfile; a loading button cannot be clicked
CanCreate == Usable /\ ~pf.showHistory /\ ~pf.spinning

\* handleSubmitForm and handleCreateProfile
SubmitForm(mode) ==
    LET made == {p.ctime : p \in pf.stored}
        profile == [pod |-> IF mode = "pod" THEN pf.pod ELSE None, ctime |-> Cardinality(made) + 1]
    IN  /\ CanCreate /\ Cardinality(made) < MaxProfiles
        /\ Become([pf EXCEPT !.spinning = TRUE])
        /\ run' = [profile |-> profile, err |-> FALSE, failed |-> {}, step |-> [t \in Types |-> "work"]]

\* getProfiles sends podName, which the server does not read (dto/pprof.go:35)
ClickJumpHistory ==
    /\ Usable /\ ~pf.showHistory /\ Cardinality(pf.lists) < ListCalls
    /\ Become([pf EXCEPT !.lists = @ \cup {pf.pod}])
    /\ UNCHANGED run

ClickJumpCreate ==
    /\ Usable /\ pf.showHistory
    /\ Become(SetShowHistory(ResetProfile(pf), FALSE))
    /\ UNCHANGED run

\* a row of ProfileHistoryList
Listed(profile) == Usable /\ pf.showHistory /\ profile \in pf.history

HiddenDiff(p) == [p EXCEPT !.base = None, !.target = None, !.currentBase = None, !.showDiff = FALSE]

ClickDetail(profile) ==
    /\ Listed(profile)
    /\ Become(HiddenDiff([pf EXCEPT !.profile = profile]))
    /\ UNCHANGED run

ClickDiff(profile) ==
    /\ Listed(profile) /\ Cardinality(pf.history) > 1
    /\ Become([pf EXCEPT !.showDiff = TRUE, !.openModal = TRUE, !.currentBase = profile])
    /\ UNCHANGED run

OtherProfiles == {p \in pf.history : p.ctime # pf.currentBase.ctime}

\* handleShowDiff
ShownDiff(p, base, target) == [p EXCEPT !.base = base, !.target = target, !.openModal = FALSE]

\* DiffProfileModal: the base is filled in, the target is chosen
ShowDiff(target) ==
    /\ pf.openModal /\ target \in OtherProfiles
    /\ Become(ShownDiff(pf, pf.currentBase, target))
    /\ UNCHANGED run

CloseDiffModal ==
    /\ pf.openModal
    /\ Become([pf EXCEPT !.openModal = FALSE, !.currentBase = None])
    /\ UNCHANGED run

-----------------------------------------------------------------------------
(* The server.                                                               *)

\* generateGraphByK8S or generateGraphByAddr of a goroutine, with the assignment to err
Generate(t) ==
    /\ run # None /\ run.step[t] = "work"
    /\ \E fails \in BOOLEAN :
        /\ run' = [run EXCEPT !.step[t] = "wrote", !.err = fails,
                              !.failed = IF fails THEN @ \cup {t} ELSE @]
        /\ pf' = IF fails \/ run.profile.pod = None THEN pf
                 ELSE [pf EXCEPT !.stored = @ \cup {run.profile}]
    /\ UNCHANGED doubled

\* if err != nil
TestErr(t) ==
    /\ run # None /\ run.step[t] = "wrote"
    /\ run' = [run EXCEPT !.step[t] = IF run.err THEN "returns" ELSE "ok"]
    /\ UNCHANGED <<pf, doubled>>

\* Mutant: the goroutine logs the error and returns nil.
ReturnNil(t) ==
    /\ run # None /\ run.step[t] = "returns"
    /\ run' = [run EXCEPT !.step[t] = "ok"]
    /\ UNCHANGED <<pf, doubled>>

\* return err reads it once more
ReturnErr(t) ==
    /\ run # None /\ run.step[t] = "returns"
    /\ run' = [run EXCEPT !.step[t] = IF run.err THEN "bad" ELSE "ok"]
    /\ UNCHANGED <<pf, doubled>>

Ended == run # None /\ \A t \in Types : run.step[t] \in {"ok", "bad"}
Erred == \E t \in Types : run.step[t] = "bad"

-----------------------------------------------------------------------------
(* The answers.                                                              *)

CreateArrives ==
    /\ Ended
    /\ Become([pf EXCEPT !.spinning = FALSE, !.profile = IF Erred THEN @ ELSE run.profile])
    /\ run' = None

\* .catch; what the server still does is not followed any further
CreateFails ==
    /\ run # None
    /\ Become([pf EXCEPT !.spinning = FALSE])
    /\ run' = None

ListArrives(pod) ==
    /\ pod \in pf.lists
    /\ LET list == {p \in pf.stored : p.pod # None /\ WorkloadOf[p.pod] = WorkloadOf[pod]}
           p == [ResetProfile(pf) EXCEPT !.lists = @ \ {pod}, !.history = list]
       IN  Become(SetShowHistory(p, TRUE))
    /\ UNCHANGED run

ListFails(pod) ==
    /\ pod \in pf.lists
    /\ Become([pf EXCEPT !.lists = @ \ {pod}])
    /\ UNCHANGED run

\* .finally of the instance that asked, whatever the answer is and whatever pair it is about
DiffArrives(pair) ==
    /\ pair \in pf.diffs
    /\ Become([pf EXCEPT !.diffs = @ \ {pair}, !.loadingDiff = FALSE])
    /\ UNCHANGED run

CheckArrives(success) ==
    /\ pf.deps = "checking"
    /\ Become([pf EXCEPT !.deps = IF success THEN "ok" ELSE "missing"])
    /\ UNCHANGED run

ProfilesNext ==
    \/ \E pod \in Pods : ChangePod(pod)
    \/ \E mode \in {"pod", "ip"} : SubmitForm(mode)
    \/ ClickJumpHistory \/ ClickJumpCreate \/ CloseDiffModal
    \/ \E p \in pf.history : ClickDetail(p) \/ ClickDiff(p) \/ ShowDiff(p)
    \/ \E t \in Types : Generate(t) \/ TestErr(t) \/ ReturnErr(t)
    \/ CreateArrives \/ CreateFails
    \/ \E pod \in pf.lists : ListArrives(pod) \/ ListFails(pod)
    \/ \E pair \in pf.diffs : DiffArrives(pair)
    \/ \E success \in BOOLEAN : CheckArrives(success)

ProfilesSpec == ProfilesInit /\ [][ProfilesNext]_profilesVars

-----------------------------------------------------------------------------
(* Properties                                                                *)

\* The graphs of a difference are only asked for after the server has answered the request to
\* generate them, through changes of pair, profile and list, unless the same view asked for
\* two differences at once (ProfileViewSvg/index.tsx:104 takes any answer).
GraphsWereGenerated ==
    ~doubled /\ ShowsDiff(pf.view) /\ ~pf.loadingDiff => pf.view \notin pf.diffs

\* A run reports an error only when a type has failed, and a failure goes unreported only when
\* another type has succeeded after it (pprof.go:167 and 195: one err for all goroutines).
RunErrorIsReal ==
    Ended => (Erred => run.failed # {}) /\ (run.err => Erred)

\* A page that waits for a profile or a difference waits for a call that is under way.
ProfilesSpinnersEnd == (pf.spinning => run # None) /\ (pf.loadingDiff => pf.diffs # {})
=============================================================================
