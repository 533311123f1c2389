--------------------------- MODULE ReceivedMessages ---------------------------
(***************************************************************************)
(* Received messages and the commits of their offsets: commit() and the    *)
(* destructor of ReceivedMessage, or ConsumerManagerImpl::commit(), each   *)
(* on the thread that has the message; and offsetCommitCallback(), which   *)
(* finds the opaques they were given again in the consumer's OffsetMap.    *)
(*                                                                         *)
(* A message is known by its position.  rdkafka tells the callback the     *)
(* positions that were committed: those it was given, or, where it was     *)
(* given a message, the next one.  BackoffCommitter, which tries a         *)
(* synchronous commit again, and the broker are external.                  *)
(***************************************************************************)
EXTENDS ConsumerSetup, SequencesExt

CONSTANTS
  Messages,    \* the messages received: [partition |-> p, offset |-> n]
  Ends,        \* where the end of a partition was reported by a message of its own
  MaxObjects,  \* bound: of which that many exist whose own commit() is called
  MaxRetries,  \* internal.consumer.commit.num.retries
  MaxCommits,  \* bound: calls of commit()
  MaxFailures  \* bound: commits that rdkafka or the broker refuses

ASSUME ReceivedAssumption ==
  /\ Messages \subseteq [partition : Nat, offset : Nat]
  /\ Ends \subseteq [partition : Nat, offset : Nat]
  /\ MaxObjects \in Nat
  /\ MaxRetries \in Nat /\ MaxCommits \in Nat /\ MaxFailures \in Nat

VARIABLES
  config,     \* options of the consumer, and whose commit() the application calls
  state,      \* of each message and the call on it
  persisted,  \* _isPersisted
  call,       \* the call in progress on each: how, what and for whom it persists
  offsets,    \* the consumer's OffsetMap
  requests,   \* rdkafka: commits the broker has not answered
  events,     \* rdkafka: answers the offset commit callback has not been told
  stored,     \* rdkafka: of each partition, what is stored but not committed
  callback,   \* offsetCommitCallback(): how far it is with the event it was called for
  calls, failures, \* count what the bounds bound
  given,      \* history: the positions that each call, and its opaque, was given
  reports,    \* history: how the callback passed it back
  threw       \* history: messages that an exception destroyed

callVars == <<state, persisted, call>>
rdkafka  == <<requests, events, stored>>
vars == <<config, callVars, offsets, rdkafka, callback, calls, failures, given, reports,
          threw>>

NoOpaque == 0
Opaques  == 1 .. MaxCommits

Following(m) == [m EXCEPT !.offset = @ + 1]
Preceding(m) == [m EXCEPT !.offset = @ - 1]

\* The positions whose opaques matter: of the messages, and one past each.
Positions == Messages \union {Following(m) : m \in Messages} \union Ends

Options ==
  {a ++ e ++ s ++ x ++ o :
     a \in MayGive("auto.offset.persist", Flag),
     e \in MayGive("auto.offset.persist.on.exception", Flag),
     s \in MayGive("offset.persist.strategy", {"commit", "store"}),
     x \in MayGive("commit.exec", {"sync", "async"}),
     o \in MayGive("enable.auto.offset.store", Flag)}

\* What setup() makes of them, and which commit() the application calls: the
\* manager's only where auto-persistence is off.  An application that persists
\* offsets itself has told rdkafka not to store them.  commit.exec says nothing where
\* offsets are stored, and OffsetManager has the manager's commits without a callback.
Config ==
  {c \in {[api |-> a] ++ PersistSettings(o, callbacks) :
            a \in {"message", "manager"}, callbacks \in SUBSET {"offsetCommit"},
            o \in {x \in Options : Accepted(Brokers ++ x, 1)}} :
     /\ c.api = "manager" => ~c.autoPersist /\ c.callback
     /\ ~c.autoPersist => ~c.rdkafkaStores
     /\ c.strategy = "store" => c.exec = "async"}

\* What rdkafka has stored of its own accord: the last message of each partition.
StoredByRdKafka(received) ==
  IF config.rdkafkaStores
  THEN {[message |-> m, position |-> Following(m)] :
          m \in {l \in received : Following(l) \notin received}}
  ELSE {}

NoCall == [how |-> "none", list |-> <<>>, opaque |-> NoOpaque, retries |-> 0]
Idle   == [handled |-> 0, opaques |-> <<>>]

Init ==
  /\ config \in Config
  /\ \E received \in IF config.api = "message" THEN kSubset(MaxObjects, Messages)
                                               ELSE {Messages} :
       /\ state = [m \in Messages |-> IF m \in received THEN "held" ELSE "gone"]
       /\ stored = StoredByRdKafka(received)
  /\ persisted = [m \in Messages |-> FALSE]
  /\ call = [m \in Messages |-> NoCall]
  /\ offsets = [position \in Positions |-> NoOpaque]
  /\ requests = <<>> /\ events = <<>>
  /\ callback = Idle
  /\ calls = 0 /\ failures = 0
  /\ given = <<>> /\ reports = [o \in Opaques |-> <<>>] /\ threw = {}

------------------------------------------------------------------------------
(* The calls                                                                *)

\* Faulty variant: an opaque is inserted under the offset after its message.
KeyOfNext(m) == Following(m)

\* The position an opaque is inserted under.
Key(m) == m

\* The OffsetMap takes an opaque only if there is a callback to give it to;
\* ReceivedMessage only where it commits, the manager always.
TakesOpaque(o) ==
  /\ o # NoOpaque /\ config.callback
  /\ config.api = "manager" \/ config.strategy = "commit"

\* What both forms of commit() begin with: the opaque goes into the OffsetMap, under
\* the position of the message or of the head of the list.
TakeOpaque(list, o) ==
  /\ calls < MaxCommits /\ o \in {NoOpaque, calls + 1}
  /\ calls' = calls + 1
  /\ given' = Append(given, list)
  /\ offsets' = IF TakesOpaque(o) THEN [offsets EXCEPT ![Key(Head(list))] = o] ELSE offsets

\* How an offset is persisted as the options say.
HowSet == IF config.strategy = "store" THEN "store" ELSE config.exec

\* commit() of a message; or of the manager, with forceSync, for a list that may go
\* on with a message of another partition.
CommitCall(m, rest, o, forceSync) ==
  /\ state[m] = "held"
  /\ forceSync \/ rest # <<>> => config.api = "manager"
  /\ \A i \in DOMAIN rest : rest[i].partition # m.partition
  /\ TakeOpaque(<<m>> \o rest, o)
  /\ state' = [state EXCEPT ![m] = "committing"]
  /\ call' = [call EXCEPT ![m] =
       [how |-> IF forceSync THEN "sync" ELSE HowSet, list |-> <<m>> \o rest, opaque |-> o,
        retries |-> MaxRetries]]
  /\ UNCHANGED <<config, persisted, rdkafka, callback, failures, reports, threw>>

\* commit() of a message that only tells of the end of its partition: doCommit()
\* has nothing to do, and so has its destructor.
CommitAtEnd(end, o) ==
  /\ config.api = "message"
  /\ TakeOpaque(<<end>>, o)
  /\ UNCHANGED <<config, callVars, rdkafka, callback, failures, reports, threw>>

\* Faulty variant: an exception makes no difference.
PersistsAlways(m, exception) == config.autoPersist /\ ~persisted[m]

\* Whether the destructor persists the offset.
Persists(m, exception) ==
  config.autoPersist /\ ~persisted[m] /\ (exception => config.onException)

\* ~ReceivedMessage(), which has nothing to do where the manager's commit() is called.
\* setOpaque() may have left an opaque with the message; it is not in the OffsetMap.
Destroy(m, exception) ==
  /\ config.api = "message" /\ state[m] = "held"
  /\ threw' = IF exception THEN threw \union {m} ELSE threw
  /\ state' = [state EXCEPT ![m] = IF Persists(m, exception) THEN "dying" ELSE "gone"]
  /\ call' = [call EXCEPT ![m] =
       IF Persists(m, exception)
       THEN [how |-> HowSet, list |-> <<m>>, opaque |-> NoOpaque, retries |-> MaxRetries]
       ELSE NoCall]
  /\ UNCHANGED <<config, persisted, offsets, rdkafka, callback, calls, failures, given,
                 reports>>

Running(m) == state[m] \in {"committing", "dying"}

\* A call ends; an object whose destructor it was is gone.
Returned(m) ==
  /\ state' = [state EXCEPT ![m] = IF @ \in {"dying", "dyingWaits"} THEN "gone" ELSE "held"]
  /\ call' = [call EXCEPT ![m] = NoCall]

\* What rdkafka is told to persist for a message.
Entry(m) == [message |-> m, position |-> IF config.api = "message" THEN Following(m) ELSE m]

Request(m) == [entries |-> [i \in DOMAIN call[m].list |-> Entry(call[m].list[i])],
               sync |-> call[m].how = "sync", opaque |-> call[m].opaque]

\* The message remembers it; the manager's commit() knows of no message.
MarkPersisted(m) ==
  persisted' = [persisted EXCEPT ![m] = config.api = "message" \/ @]

StoreOffset(m) ==
  /\ Running(m) /\ call[m].how = "store"
  /\ LET new == Range(Request(m).entries)
     IN  stored' = new \union {e \in stored : \A n \in new :
                                  n.position.partition # e.position.partition}
  /\ MarkPersisted(m)
  /\ Returned(m)
  /\ UNCHANGED <<config, offsets, requests, events, callback, calls, failures, given,
                 reports, threw>>

AsyncCommit(m) ==
  /\ Running(m) /\ call[m].how = "async"
  /\ requests' = Append(requests, Request(m))
  /\ MarkPersisted(m)
  /\ Returned(m)
  /\ UNCHANGED <<config, offsets, events, stored, callback, calls, failures, given, reports,
                 threw>>

\* Faulty variant: the call does not wait for the answer.
SyncCommitReturns(m) ==
  /\ Running(m) /\ call[m].how = "sync"
  /\ requests' = Append(requests, Request(m))
  /\ Returned(m)
  /\ UNCHANGED <<config, persisted, offsets, events, stored, callback, calls, failures,
                 given, reports, threw>>

SyncCommit(m) ==
  /\ Running(m) /\ call[m].how = "sync"
  /\ requests' = Append(requests, Request(m))
  /\ state' = [state EXCEPT ![m] = IF @ = "dying" THEN "dyingWaits" ELSE "waits"]
  /\ UNCHANGED <<config, persisted, call, offsets, events, stored, callback, calls,
                 failures, given, reports, threw>>

\* How an attempt that ended with result leaves the call: the errors that
\* offsetCommitErrorCallback() finds worth it are tried again, where the call is
\* synchronous and has retries left.
AttemptEnds(m, result) ==
  /\ IF call[m].how = "sync" /\ result = "retriable" /\ call[m].retries > 0
     THEN /\ state' = [state EXCEPT ![m] =
                         IF @ \in {"dying", "dyingWaits"} THEN "dying" ELSE "committing"]
          /\ call' = [call EXCEPT ![m].retries = @ - 1]
     ELSE Returned(m)
  /\ IF result = "ok" THEN MarkPersisted(m) ELSE UNCHANGED persisted

\* rdkafka refuses: what it throws becomes the Error that is returned.
CommitThrows(m, result) ==
  /\ Running(m) /\ failures < MaxFailures
  /\ failures' = failures + 1
  /\ AttemptEnds(m, result)
  /\ UNCHANGED <<config, offsets, rdkafka, callback, calls, given, reports, threw>>

------------------------------------------------------------------------------
(* rdkafka, the broker, and the callback                                    *)

\* The broker answers; whoever waits goes on, and an event waits for the poll.
Answer(result) ==
  LET r == Head(requests)
  IN  /\ requests # <<>>
      /\ result # "ok" => failures < MaxFailures
      /\ failures' = failures + IF result = "ok" THEN 0 ELSE 1
      /\ requests' = Tail(requests)
      /\ events' = IF config.callback THEN Append(events, r) ELSE events
      /\ IF r.sync
         THEN AttemptEnds(r.entries[1].message, result)
         ELSE UNCHANGED callVars
      /\ UNCHANGED <<config, offsets, stored, callback, calls, given, reports, threw>>

\* rdkafka's own timer commits what was stored.
AutoCommit ==
  /\ config.rdkafkaCommits /\ stored # {}
  /\ \E entries \in SetToSeqs(stored) :
       requests' = Append(requests, [entries |-> entries, sync |-> FALSE, opaque |-> NoOpaque])
  /\ stored' = {}
  /\ UNCHANGED <<config, callVars, offsets, events, callback, calls, failures, given,
                 reports, threw>>

\* Faulty variant: the offset of the event is taken for the message's.
PositionOfNext(e) == e.position

\* "subtract one since rdkafka always gives us the next offset"
Position(e) == Preceding(e.position)

\* Faulty variant of Without: find() instead of remove().
Retained(position) == offsets

Without(position) == [offsets EXCEPT ![position] = NoOpaque]

NoneLeft == \A p \in Positions : offsets[p] = NoOpaque

\* The vector of opaques once the partition at i was looked up: nothing is added
\* while the map is empty.
OpaquesAt(i, position) ==
  IF NoneLeft THEN callback.opaques
  ELSE Append(callback.opaques,
              [opaque |-> IF position \in Positions THEN offsets[position] ELSE NoOpaque,
               of     |-> i])

\* What an event with these entries tells of o: the application takes the opaque
\* at j for the one of the partition at j.
Told(o, entries, opaques) ==
  {[position |-> Position(entries[j]), commitOf |-> entries[j].message,
    inPlace  |-> opaques[j].of = j] :
     j \in {k \in DOMAIN opaques : opaques[k].opaque = o}}

\* offsetCommitCallback(), on the thread that polls: one partition after the other,
\* and with the last one the callback of the application.
OffsetCommitCallback ==
  LET entries  == Head(events).entries
      i        == callback.handled + 1
      position == Position(entries[i])
      opaques  == OpaquesAt(i, position)
  IN  /\ events # <<>>
      /\ offsets' = IF position \in Positions THEN Without(position) ELSE offsets
      /\ IF i < Len(entries)
         THEN /\ callback' = [handled |-> i, opaques |-> opaques]
              /\ UNCHANGED <<events, reports>>
         ELSE /\ callback' = Idle
              /\ events' = Tail(events)
              /\ reports' = [o \in Opaques |->
                             reports[o] \o SetToSeq(Told(o, entries, opaques))]
      /\ UNCHANGED <<config, callVars, requests, stored, calls, failures, given, threw>>

------------------------------------------------------------------------------
CallStep(m) ==
  \/ StoreOffset(m) \/ AsyncCommit(m) \/ SyncCommit(m)
  \/ \E result \in {"retriable", "fatal"} : CommitThrows(m, result)

Next ==
  \/ \E m \in Messages :
       \/ \E rest \in {<<>>} \union {<<n>> : n \in Messages},
            o \in {NoOpaque} \union Opaques, forceSync \in BOOLEAN :
            CommitCall(m, rest, o, forceSync)
       \/ \E exception \in BOOLEAN : Destroy(m, exception)
       \/ CallStep(m)
  \/ \E end \in Ends, o \in {NoOpaque} \union Opaques : CommitAtEnd(end, o)
  \/ \E result \in {"ok", "retriable", "fatal"} : Answer(result)
  \/ AutoCommit \/ OffsetCommitCallback

Spec == Init /\ [][Next]_vars

\* A call goes on, the broker answers every commit, and the consumer is polled.
Fairness ==
  /\ \A m \in Messages : WF_vars(CallStep(m))
  /\ WF_vars(\E result \in {"ok", "retriable", "fatal"} : Answer(result))
  /\ WF_vars(OffsetCommitCallback)

FairSpec == Spec /\ Fairness

------------------------------------------------------------------------------
(* Properties                                                               *)

Committing == config.strategy = "commit" /\ config.callback /\ config.api = "message"

Waits(m) == state[m] \in {"waits", "dyingWaits"}

\* The request of a synchronous commit on m.
IsCommitOf(request, m) == request.sync /\ request.entries[1].message = m

\* The types, and that a synchronous commit keeps its caller: exactly the messages
\* with such a commit under way are waiting, each for one, and none is gone.
TypeOK ==
  /\ state \in [Messages -> {"held", "committing", "dying", "waits", "dyingWaits", "gone"}]
  /\ persisted \in [Messages -> BOOLEAN]
  /\ offsets \in [Positions -> Opaques \union {NoOpaque}]
  /\ \A m \in Messages : /\ call[m].opaque \in Opaques \union {NoOpaque}
                         /\ call[m].retries \in 0 .. MaxRetries
  /\ Len(given) = calls /\ calls <= MaxCommits /\ failures <= MaxFailures
  /\ \A m \in Messages :
       Waits(m) <=> \E i \in DOMAIN requests : IsCommitOf(requests[i], m)
  /\ \A i, j \in DOMAIN requests : \A m \in Messages :
       IsCommitOf(requests[i], m) /\ IsCommitOf(requests[j], m) => i = j

\* An application may free what an opaque points to once it was passed back: it
\* is passed back at most once, however often the commit is tried again, and is
\* not kept for another callback.  "Application-specific pointer which will be
\* returned inside the offset commit callback": it comes with the position it was
\* given for, and with the message's own commit() when that message's commit is
\* reported.  Excused is an opaque out of its place in the vector: the map was empty
\* at an earlier partition of the event, and another thread has put it in since.
OpaqueOnceForItsMessage ==
  \A o \in Opaques :
    /\ Len(reports[o]) <= 1
    /\ reports[o] # <<>> => \A p \in Positions : offsets[p] # o
    /\ \A p, q \in Positions : offsets[p] = o /\ offsets[q] = o => p = q
    /\ \A i \in DOMAIN reports[o] :
         LET report == reports[o][i]
         IN  report.inPlace =>
               /\ report.position = Head(given[o])
               /\ config.api = "message" => report.commitOf = Head(given[o])

\* And it does come: an opaque whose commit rdkafka has taken on is passed back,
\* unless another commit() at its position has replaced it meanwhile.
OpaqueComesBack ==
  \A o \in Opaques :
    (Committing /\ \E i \in DOMAIN requests : requests[i].opaque = o)
      ~> \/ reports[o] # <<>>
         \/ \E later \in o + 1 .. calls : Head(given[later]) = Head(given[o])

\* CONFIGURATION.md:13, "allow the application to reprocess a message following an
\* exception": a message whose receiver threw is not persisted on its own account,
\* neither by corokafka nor by rdkafka itself, unless the application committed it.
ThrownIsNotPersisted ==
  \A m \in threw :
    config.onException \/ (\E o \in DOMAIN given : m \in Range(given[o]))
      \/ (~persisted[m] /\ \A i \in DOMAIN requests :
                            \A e \in Range(requests[i].entries) : e.message # m)

===============================================================================
