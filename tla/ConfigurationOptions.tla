------------------------- MODULE ConfigurationOptions -------------------------
(***************************************************************************)
(* The options of a producer or consumer, as Configuration keeps them:     *)
(* a function from the names that are given to their values, internal ones *)
(* without the prefix "internal.producer." or "internal.consumer.".  Names *)
(* and words are compared without regard to case.                          *)
(***************************************************************************)
EXTENDS Integers

\* One option with its value, and the options of o with those that only p has.
Option(name, value) == [n \in {name} |-> value]

o ++ p == [n \in DOMAIN o \union DOMAIN p |-> IF n \in DOMAIN o THEN o[n] ELSE p[n]]

\* What an application may do with an option: leave it out, or give it a value.
MayGive(name, values) == {<<>>} \union {Option(name, v) : v \in values}

Flag == {"true", "false"}

\* logLevelFromString() throws for any other word.
LogLevels ==
  {"emergency", "alert", "critical", "error", "warning", "notice", "info", "debug"}

\* The option of rdkafka without which nothing is set up.
Brokers == Option("metadata.broker.list", "brokers")

\* findOption()
IsGiven(options, name) == name \in DOMAIN options

Given(options, name, default) == IF IsGiven(options, name) THEN options[name] ELSE default

IsTrue(options, name, default) ==
  IF IsGiven(options, name) THEN options[name] = "true" ELSE default

\* Whether filterOptions() lets the options pass: an option with the prefix has to
\* be among the internal ones, any other goes to rdkafka.
PassesFilter(options, internal, rdkafka) == DOMAIN options \subseteq internal \union rdkafka

===============================================================================
