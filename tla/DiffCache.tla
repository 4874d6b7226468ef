------------------------------- MODULE DiffCache -------------------------------
(***************************************************************************)
(* The diff of two profiles on the server: GenerateDiff of                   *)
(* internal/service/pprof.go makes the graphs of every type of profile in    *)
(* goroutines and stores each as a file.  A directory with as many files as  *)
(* there are graphs is a diff that was made before.  Calls for the same pair *)
(* of profiles share the directory, and a call that fails or dies leaves in  *)
(* it what it has stored.  Calls for any pairs share, for each type, one     *)
(* file in the working directory of the server: the shell writes the profile *)
(* graph to a relative path and the call reads it from there.                *)
(***************************************************************************)
CONSTANTS DiffTypes,  \* types of profiles
          DiffPairs,  \* pairs of profiles, a base and a target
          NoSamples,  \* the pairs and types whose difference has no samples
          DiffRuns    \* calls of GenerateDiff at one time

DiffAssumption == DiffPairs # {} /\ NoSamples \subseteq DiffPairs \X DiffTypes

\* What a file or a call holds is the set of pairs whose graphs are in it: none if it has
\* nothing or only a part of a graph, several if one was written over another.
VARIABLES df,       \* the calls, each with its pair
          making,   \* how far each goroutine of a call is
          svgData,  \* what it will store
          svgs,     \* the files in the directory of each pair
          file,     \* what they hold
          tmpSvg,   \* what the files in the working directory hold
          torn,     \* history: files whose writing was broken off
          clashed   \* history: pairs and types of which a call did not have the working file to itself

diffVars == <<df, making, svgData, svgs, file, tmpSvg, torn, clashed>>

Graphs  == DiffTypes \X {"flame", "profile"}
Content == SUBSET DiffPairs

DiffTypeOK ==
    /\ df \in [DiffRuns -> [step : {"new", "work", "ok", "failed"}, pair : DiffPairs]]
    /\ making \in [DiffRuns -> [Graphs -> {"none", "make", "shell", "read", "put", "write", "stored", "failed"}]]
    /\ svgData \in [DiffRuns -> [Graphs -> Content]]
    /\ svgs \in [DiffPairs -> SUBSET Graphs]
    /\ file \in [DiffPairs -> [Graphs -> Content]]
    /\ tmpSvg \in [DiffTypes -> Content]
    /\ torn \subseteq DiffPairs \X Graphs
    /\ clashed \subseteq DiffPairs \X DiffTypes

DiffInit ==
    /\ df = [d \in DiffRuns |-> [step |-> "new", pair |-> CHOOSE p \in DiffPairs : TRUE]]
    /\ making = [d \in DiffRuns |-> [g \in Graphs |-> "none"]]
    /\ svgData = [d \in DiffRuns |-> [g \in Graphs |-> {}]]
    /\ svgs = [p \in DiffPairs |-> {}]
    /\ file = [p \in DiffPairs |-> [g \in Graphs |-> {}]]
    /\ tmpSvg = [type \in DiffTypes |-> {}]
    /\ torn = {} /\ clashed = {}

-----------------------------------------------------------------------------
\* The graph g of the pair p: the flame graph of a difference without samples is empty.
GraphOf(p, g) == IF g[2] = "flame" /\ <<p, g[1]>> \in NoSamples THEN {} ELSE {p}

Becomes(d, g, step) == making' = [making EXCEPT ![d][g] = step]

\* Mutant: a directory that has a file is a diff that was made.
StartIfEmpty(d) ==
    \E p \in DiffPairs :
        /\ df[d].step = "new"
        /\ df' = [df EXCEPT ![d] = [step |-> IF svgs[p] = {} THEN "work" ELSE "ok", pair |-> p]]
        /\ making' = [making EXCEPT ![d] = [g \in Graphs |-> IF svgs[p] = {} THEN "make" ELSE "none"]]
        /\ UNCHANGED <<svgData, svgs, file, tmpSvg, torn, clashed>>

\* List counts the files, whatever is in them, or fails and counts none; then a directory is made.
Start(d) ==
    \E p \in DiffPairs :
        /\ df[d].step = "new"
        /\ \/ /\ svgs[p] = Graphs
              /\ df' = [df EXCEPT ![d] = [step |-> "ok", pair |-> p]]
              /\ UNCHANGED making
           \/ /\ df' = [df EXCEPT ![d] = [step |-> "work", pair |-> p]]
              /\ making' = [making EXCEPT ![d] = [g \in Graphs |-> "make"]]
           \/ /\ df' = [df EXCEPT ![d] = [step |-> "failed", pair |-> p]]
              /\ UNCHANGED making
        /\ UNCHANGED <<svgData, svgs, file, tmpSvg, torn, clashed>>

\* A profile cannot be read from the storage or written to the temporary directory.
TypeFails(d, type) ==
    LET both == {type} \X {"flame", "profile"} IN
    /\ \A g \in both : making[d][g] = "make"
    /\ making' = [making EXCEPT ![d] = [g \in Graphs |-> IF g \in both THEN "failed" ELSE @[g]]]
    /\ UNCHANGED <<df, svgData, svgs, file, tmpSvg, torn, clashed>>

\* go tool pprof -raw and the flame graph, which stay in memory
MakeFlame(d, type) ==
    LET g == <<type, "flame">> IN
    /\ making[d][g] = "make" /\ Becomes(d, g, "put")
    /\ svgData' = [svgData EXCEPT ![d][g] = GraphOf(df[d].pair, g)]
    /\ UNCHANGED <<df, svgs, file, tmpSvg, torn, clashed>>

\* The shell opens the working file of the type, which empties it.  A call that has written
\* there and not yet read loses its graph; one that has opened it and not yet written will
\* write to the same file.
OpenShell(d, type) ==
    LET g     == <<type, "profile">>
        In(S) == {o \in DiffRuns \ {d} : making[o][g] \in S} IN
    /\ making[d][g] = "make" /\ Becomes(d, g, "shell")
    /\ tmpSvg' = [tmpSvg EXCEPT ![type] = {}]
    /\ clashed' = clashed \cup {<<df[o].pair, type>> : o \in In({"shell", "read"})}
                          \cup {<<df[d].pair, type>> : o \in In({"shell"})}
    /\ UNCHANGED <<df, svgData, svgs, file, torn>>

\* go tool pprof -svg writes from the beginning of the file, over what another has written since
\* it was opened.  The shell of a server that has died writes too.
WriteShell(d, type) ==
    LET g == <<type, "profile">> IN
    /\ making[d][g] = "shell" /\ Becomes(d, g, IF df[d].step = "work" THEN "read" ELSE "failed")
    /\ \E tail \in {{}, tmpSvg[type]} : tmpSvg' = [tmpSvg EXCEPT ![type] = {df[d].pair} \cup tail]
    /\ UNCHANGED <<df, svgData, svgs, file, torn, clashed>>

\* The call reads what is in the file now.
ReadShell(d, type) ==
    LET g == <<type, "profile">> IN
    /\ making[d][g] = "read" /\ Becomes(d, g, "put")
    /\ svgData' = [svgData EXCEPT ![d][g] = tmpSvg[type]]
    /\ UNCHANGED <<df, svgs, file, tmpSvg, torn, clashed>>

\* A command fails, or the file cannot be opened or read.
GraphFails(d, g) ==
    /\ making[d][g] \in {"make", "shell", "read"} /\ Becomes(d, g, "failed")
    /\ UNCHANGED <<df, svgData, svgs, file, tmpSvg, torn, clashed>>

\* PutBytes opens a file, creating it if it is not there but not emptying it, and then writes it:
\* of what it held the end is left if that was longer.
PutGraph(d, g) ==
    LET p == df[d].pair IN
    \/ /\ making[d][g] = "put" /\ Becomes(d, g, "write")
       /\ svgs' = [svgs EXCEPT ![p] = @ \cup {g}]
       /\ UNCHANGED <<df, svgData, file, tmpSvg, torn, clashed>>
    \/ /\ making[d][g] = "write" /\ Becomes(d, g, "stored")
       /\ \E tail \in {{}, file[p][g]} :
             /\ svgData[d][g] = {} => tail = file[p][g]
             /\ file' = [file EXCEPT ![p][g] = svgData[d][g] \cup tail]
       /\ svgData' = [svgData EXCEPT ![d][g] = {}]
       /\ UNCHANGED <<df, svgs, tmpSvg, torn, clashed>>

PutGraphFails(d, g) ==
    /\ making[d][g] \in {"put", "write"} /\ Becomes(d, g, "failed")
    /\ torn' = IF making[d][g] = "write" THEN torn \cup {<<df[d].pair, g>>} ELSE torn
    /\ svgData' = [svgData EXCEPT ![d][g] = {}]
    /\ UNCHANGED <<df, svgs, file, tmpSvg, clashed>>

\* eg.Wait: every goroutine has ended.
Finish(d) ==
    /\ df[d].step = "work" /\ \A g \in Graphs : making[d][g] \in {"stored", "failed"}
    /\ df' = [df EXCEPT ![d].step = IF \E g \in Graphs : making[d][g] = "failed" THEN "failed" ELSE "ok"]
    /\ UNCHANGED <<making, svgData, svgs, file, tmpSvg, torn, clashed>>

Writing(p, g) == \E d \in DiffRuns : df[d].pair = p /\ making[d][g] = "write"

\* The process dies and is started again; its shells live on.
Die ==
    /\ \E d \in DiffRuns : df[d].step = "work"
    /\ df' = [d \in DiffRuns |-> IF df[d].step = "work" THEN [df[d] EXCEPT !.step = "failed"] ELSE df[d]]
    /\ making' = [d \in DiffRuns |-> IF df[d].step # "work" THEN making[d] ELSE
                     [g \in Graphs |-> IF making[d][g] = "shell" THEN "shell" ELSE "failed"]]
    /\ svgData' = [d \in DiffRuns |-> [g \in Graphs |-> {}]]
    /\ torn' = torn \cup {f \in DiffPairs \X Graphs : Writing(f[1], f[2])}
    /\ UNCHANGED <<svgs, file, tmpSvg, clashed>>

DiffNext ==
    \/ \E d \in DiffRuns :
          \/ Start(d) \/ Finish(d)
          \/ \E type \in DiffTypes : \/ TypeFails(d, type) \/ MakeFlame(d, type)
                                     \/ OpenShell(d, type) \/ WriteShell(d, type) \/ ReadShell(d, type)
          \/ \E g \in Graphs : GraphFails(d, g) \/ PutGraph(d, g) \/ PutGraphFails(d, g)
    \/ Die

DiffSpec == DiffInit /\ [][DiffNext]_diffVars

-----------------------------------------------------------------------------
(* Properties                                                                *)

Shared(p, g) == g[2] = "profile" /\ <<p, g[1]>> \in clashed

\* Once a call has answered that the diff is there the page asks for its graphs and finds every
\* one of them, whole and of this pair, whoever made them and whatever failed before.  Excused
\* are a file that another call has just created or whose writing was broken off, as an empty
\* file counts like any other, and a profile graph of which some call shared the working file
\* with another, of the same pair or not: it may have stored nothing or a foreign graph.
DiffIsComplete ==
    \A d \in DiffRuns, g \in Graphs : LET p == df[d].pair IN
        df[d].step = "ok" =>
            /\ g \in svgs[p]
            /\ \/ file[p][g] = GraphOf(p, g)
               \/ file[p][g] = {} /\ (<<p, g>> \in torn \/ Writing(p, g))
               \/ Shared(p, g)
=============================================================================
