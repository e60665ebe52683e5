------------------------------ MODULE MCWatcher ------------------------------
(* The watcher on small instances. *)
EXTENDS WatcherProperties

MCEnv == [KEY |-> "secret", MISSING |-> ""]
MCDefault == [addr |-> ":8081", retries |-> "2"]
MCUrls == {"https://a"}

Plain(text) == [var |-> NoVar, text |-> text]
Ref(v, text) == [var |-> v, text |-> text]

Provider(key) ==
  [name |-> Plain("a"), apiKey |-> key, endpoint |-> Plain("https://a"), model |-> Plain("m")]

Document(providers) ==
  [yaml |-> TRUE, providers |-> providers, settings |-> [addr |-> "", retries |-> "5"]]

\* Half written; complete, with a key from the environment; and with one that
\* is not there.
MCDocuments ==
  {Document(<<>>),
   Document(<<Provider(Ref("KEY", ""))>>),
   Document(<<Provider(Ref("MISSING", "k")), Provider(Plain("k"))>>)}

=============================================================================
