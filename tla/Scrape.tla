------------------------------- MODULE Scrape -------------------------------
(***************************************************************************)
(* The Go runtime metrics of a scrape (writeRuntimeMetrics in              *)
(* src/src/metrics.go).                                                    *)
(*                                                                         *)
(* All scrapes share runtimeSamples, which the first one makes and names.  *)
(* Nothing guards it, so scrapes that run at the same time get into each   *)
(* other's samples.  Samples go by the goroutine that made them, the       *)
(* runtime metrics by their index.                                         *)
(***************************************************************************)
EXTENDS Goroutines, Naturals

CONSTANT RuntimeCount  \* length of runtimeMetricNames, 11 in the code

ASSUME ScrapeAssumption == RuntimeCount \in Nat \ {0}

VARIABLES
  runtimeSamples,  \* the samples in use, None before the first are made
  named,           \* per samples: those that have their name
  valued,          \* per samples: those metrics.Read has set
  scrape,          \* per goroutine: its place in writeRuntimeMetrics, the
                   \*   index it is at, the samples it ranges over, and the
                   \*   metrics it has written
  mixed            \* history: scrapes some other one was making samples during

scrapeVars == <<runtimeSamples, named, valued, scrape, mixed>>

Away == [at |-> "out", index |-> 1, over |-> None, wrote |-> {}]

ScrapeInit ==
  /\ runtimeSamples = None
  /\ named = [p \in Procs |-> {}]
  /\ valued = [p \in Procs |-> {}]
  /\ scrape = [p \in Procs |-> Away]
  /\ mixed = {}

Making(p) == scrape[p].at \in {"make", "name"}

\* Has p written all it had?
Finished(p) == scrape[p].index = RuntimeCount + 1

Go(p, at) == scrape' = [scrape EXCEPT ![p].at = at, ![p].index = 1]

----------------------------------------------------------------------------
\* A scrape gets to the runtime metrics: make samples if there are none.
writeRuntimeMetrics(p) ==
  /\ scrape[p].at = "out"
  /\ scrape' = [scrape EXCEPT ![p] = [Away EXCEPT
                  !.at = IF runtimeSamples = None THEN "make" ELSE "read"]]
  /\ mixed' = LET others == {q \in Procs \ {p} : scrape[q].at # "out"} IN
              (mixed \ {p})
                \cup (IF \E q \in others : Making(q) THEN {p} ELSE {})
                \cup (IF runtimeSamples = None THEN others ELSE {})
  /\ UNCHANGED <<runtimeSamples, named, valued>>

\* initRuntimeMetrics: new samples without names, in use at once.
make(p) ==
  /\ scrape[p].at = "make"
  /\ runtimeSamples' = p
  /\ Go(p, "name")
  /\ UNCHANGED <<named, valued, mixed>>

\* Mutant: the last name is left out.
nameMutant(p) ==
  LET s == scrape[p] IN
  /\ s.at = "name"
  /\ named' = [named EXCEPT ![runtimeSamples] = @ \cup {s.index}]
  /\ IF s.index + 1 >= RuntimeCount THEN Go(p, "read")
     ELSE scrape' = [scrape EXCEPT ![p].index = @ + 1]
  /\ UNCHANGED <<runtimeSamples, valued, mixed>>

\* Its loop names the samples in use, which may be another scrape's by now.
name(p) ==
  LET s == scrape[p] IN
  /\ s.at = "name"
  /\ named' = [named EXCEPT ![runtimeSamples] = @ \cup {s.index}]
  /\ IF s.index = RuntimeCount THEN Go(p, "read")
     ELSE scrape' = [scrape EXCEPT ![p].index = @ + 1]
  /\ UNCHANGED <<runtimeSamples, valued, mixed>>

\* metrics.Read sets the samples whose name it knows.
read(p) ==
  /\ scrape[p].at = "read"
  /\ valued' = [valued EXCEPT ![runtimeSamples] = @ \cup named[runtimeSamples]]
  /\ Go(p, "range")
  /\ UNCHANGED <<runtimeSamples, named, mixed>>

\* The for loop takes the samples in use for all its rounds.
range(p) ==
  /\ scrape[p].at = "range"
  /\ scrape' = [scrape EXCEPT ![p].at = "write", ![p].over = runtimeSamples]
  /\ UNCHANGED <<runtimeSamples, named, valued, mixed>>

\* A sample without a value has no kind and is passed over.
writeSample(p) ==
  LET s == scrape[p] IN
  /\ s.at = "write"
  /\ scrape' = [scrape EXCEPT ![p] =
       [s EXCEPT !.at = IF s.index = RuntimeCount THEN "out" ELSE "write",
                 !.index = @ + 1,
                 !.wrote = @ \cup ({s.index} \cap valued[s.over])]]
  /\ UNCHANGED <<runtimeSamples, named, valued, mixed>>

\* A name can be seen half written by a scrape that reads it meanwhile: that
\* scrape panics, and its request ends without an answer.
torn(p) ==
  /\ scrape[p].at = "read"
  /\ \E q \in Procs \ {p} : scrape[q].at = "name"
  /\ Go(p, "out")
  /\ UNCHANGED <<runtimeSamples, named, valued, mixed>>

\* The steps after the first.
Scrapes(p) ==
  make(p) \/ name(p) \/ read(p) \/ range(p) \/ writeSample(p) \/ torn(p)

----------------------------------------------------------------------------
(* Properties                                                              *)

\* A scrape shows every runtime metric unless another one was making samples
\* while it ran; however many scrapes made samples at once, and whosever
\* samples they named, all later ones are complete.
RuntimeComplete ==
  \A p \in Procs : Finished(p) /\ p \notin mixed =>
    scrape[p].wrote = 1..RuntimeCount
=============================================================================
