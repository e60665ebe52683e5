-------------------------- MODULE WatcherProperties --------------------------
(* What a user of the watcher relies on. *)
EXTENDS Watcher, FiniteSets

Busy == {c \in Controllers : ctl[c] # "idle"}
Live == {k \in Pollers : pc[k] \notin {"none", "ended"}}

\* No two calls of Start and Stop overlap.
OneAtATime == Cardinality(Busy) <= 1

\* A document from which the program could run.
Usable(doc) ==
  /\ doc # Gone
  /\ doc.yaml /\ doc.providers # <<>>
  /\ \A i \in DOMAIN doc.providers : \A f \in Required :
       LET field == doc.providers[i][f] IN
       /\ field.text # "" \/ (field.var # NoVar /\ Env[field.var] # "")
       /\ f = "endpoint" => {field.text} \cup {Env[v] : v \in {field.var} \ {NoVar}} \subseteq Urls

(* While the watcher runs, with one poller and no overlapping Start and    *)
(* Stop, the last change of the file reaches onChange if the file is       *)
(* usable, however often it was broken, absent or changed between being    *)
(* looked at and being read; unless it is the state that Start took as the *)
(* one to compare with.  In particular Start and Stop close no channel     *)
(* twice, unless they overlap (watcher.go 57-160).                         *)
ChangesApplied ==
  /\ [](OneAtATime /\ Cardinality(Live) <= 1)
  /\ <>[](running /\ content # Gone /\ Usable(content))
  => <>[](\/ applied # NoConfig /\ applied = Loaded
          \/ \E c \in Controllers : base[c] = modTime)

(* After the last Stop every poller ends, also one that has missed the     *)
(* Stop it was started for and waits on the channel of another; unless a   *)
(* Stop that overlaps others panics (watcher.go 57-104).                   *)
PollersEnd == <>[]~running => <>[](panicked \/ Live = {})

=============================================================================
