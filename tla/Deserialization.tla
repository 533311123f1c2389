---------------------------- MODULE Deserialization ----------------------------
(***************************************************************************)
(* What ConsumerManagerImpl makes of one message of rdkafka, and what the  *)
(* accessors of ReceivedMessage and HeaderPack then tell the receiver.     *)
(*                                                                         *)
(* A message is what matters of it: whether it carries an error of rdkafka *)
(* or its key, its payload and each of its raw headers decode.  A decoded  *)
(* header is the position of the raw one it comes from, 0 an empty         *)
(* boost::any.  CallbackInvoker turns the exception of an application's    *)
(* decoder into an empty one.                                              *)
(***************************************************************************)
EXTENDS ConsumerSetup, SequencesExt

CONSTANTS
  HeaderNames,   \* of the headers the topic declares, in order
  UnknownNames,  \* of headers a message may carry that the topic does not declare
  LowerCase      \* of each name, as tolower() makes it

ASSUME HeaderAssumption ==
  /\ ToSet(HeaderNames) \cap UnknownNames = {}
  /\ HeaderNames \in Seq(DOMAIN LowerCase) /\ "" \in DOMAIN LowerCase

RawHeaders == [name : ToSet(HeaderNames) \union UnknownNames, decodes : BOOLEAN]

Messages(maxHeaders) ==
  {[error |-> FALSE, key |-> k, payload |-> p, headers |-> h] :
     k \in BOOLEAN, p \in BOOLEAN, h \in SeqOf(RawHeaders, maxHeaders)}
  \union {[error |-> TRUE, key |-> FALSE, payload |-> FALSE, headers |-> <<>>]}

\* A default-constructed DeserializedMessage.
NotDeserialized ==
  [key |-> FALSE, payload |-> FALSE, headers |-> <<>>,
   error |-> "none", sources |-> {}, headerNum |-> -1]

Flagged(result, error, source) ==
  [result EXCEPT !.error = error, !.sources = @ \union {source}]

\* What the preprocessor drops.
Dropped == Flagged(NotDeserialized, "BAD_MSG", "preprocessor")

------------------------------------------------------------------------------
(* deserializeMessage                                                       *)

Declared(name) == \E p \in DOMAIN HeaderNames : HeaderNames[p] = name

\* The first of some positions, 0 if there is none.
First(positions) == IF positions = {} THEN 0 ELSE Min(positions)

\* The entry of a name in the map of deserializers, where the first one stays.
Position(name) == First({p \in DOMAIN HeaderNames : HeaderNames[p] = name})

\* A header that spoils the message: the loop over the headers breaks.
SpoiltBy(state, error) ==
  [result |-> [Flagged(state.result, error, "header") EXCEPT !.headerNum = state.num],
   num |-> state.num, broken |-> TRUE]

\* Faulty variant: of two headers with one name the first is kept.
PutFirst(headers, name, value) ==
  [headers EXCEPT ![Position(name)] =
     IF @.name = name THEN @ ELSE [name |-> name, value |-> value]]

\* A header takes the place of an earlier one with its name.
Put(headers, name, value) ==
  [headers EXCEPT ![Position(name)] = [name |-> name, value |-> value]]

\* The loop at the raw header i: state is what it has made of those before.
TakeHeader(raw, i, skipUnknown, state) ==
  LET name  == raw[i].name
      value == IF raw[i].decodes THEN i ELSE 0
      taken == [state EXCEPT !.result.headers = Put(@, name, value)]
  IN  CASE state.broken -> state
        [] ~state.broken /\ ~Declared(name) ->
             IF skipUnknown THEN state ELSE SpoiltBy(state, "NOT_IMPLEMENTED")
        [] ~state.broken /\ Declared(name) ->
             IF value = 0 THEN SpoiltBy(taken, "VALUE_DESERIALIZATION")
             ELSE [taken EXCEPT !.num = @ + 1]

\* The loop over the raw headers.
TakeHeaders(raw, skipUnknown, start) ==
  LET after[i \in 0 .. Len(raw)] ==
        IF i = 0 THEN start ELSE TakeHeader(raw, i, skipUnknown, after[i - 1])
  IN  after[Len(raw)]

\* Each part that does not decode is flagged, and the last one names the error: key,
\* headers, payload.
DeserializeMessage(message, skipUnknown) ==
  LET keyed   == [NotDeserialized EXCEPT !.key = message.key, !.payload = message.payload,
                    !.headers = [p \in DOMAIN HeaderNames |-> [name |-> "", value |-> 0]]]
      flagged == IF message.key THEN keyed ELSE Flagged(keyed, "KEY_DESERIALIZATION", "key")
      headed  == TakeHeaders(message.headers, skipUnknown,
                   [result |-> flagged, num |-> 0, broken |-> FALSE]).result
  IN  IF message.error THEN Flagged(NotDeserialized, "kafka", "kafka")
      ELSE IF message.payload THEN headed
      ELSE Flagged(headed, "VALUE_DESERIALIZATION", "payload")

------------------------------------------------------------------------------
(* ReceivedMessage and HeaderPack.  "throws" is no value of any message.    *)

\* The constructor flags the error of rdkafka if nothing else has been flagged.
Received(message, result) ==
  IF message.error /\ result.error = "none" THEN Flagged(result, "kafka", "kafka") ELSE result

\* validate...Error(): an accessor throws for a message that was dropped, or is none,
\* and for the parts of its own that did not decode.
Valid(received, source) == received.sources \cap {"preprocessor", "kafka", source} = {}

\* To cast an empty boost::any throws as well.
GetKey(received) == IF Valid(received, "key") /\ received.key THEN "key" ELSE "throws"

GetPayload(received) ==
  IF Valid(received, "payload") /\ received.payload THEN "payload" ELSE "throws"

GetError(received)              == received.error
GetHeaderNumWithError(received) == received.headerNum

\* HeaderPack::getAt() and get().  std::deque::at() throws where the pack has no such
\* position, and so does the cast of an empty boost::any: 0 stands for an exception.
GetAt(received, p) == IF p \in DOMAIN received.headers THEN received.headers[p].value ELSE 0

IsHeaderValidAt(received, p) ==
  IF p \notin DOMAIN received.headers THEN "throws"
  ELSE IF GetAt(received, p) = 0 THEN "invalid" ELSE "valid"

GetHeaderAt(received, p) ==
  IF Valid(received, "header") /\ IsHeaderValidAt(received, p) = "valid"
  THEN GetAt(received, p) ELSE 0

\* StringEqualCompare.  The map of deserializers minds the case, the pack does not.
SameName(name, other) == LowerCase[name] = LowerCase[other]

NumValidHeaders(received) == Cardinality({p \in DOMAIN received.headers : GetAt(received, p) # 0})

\* HeaderPack::getImpl().  By its name it is the first header that has it, and the end
\* of the pack, which is dereferenced, where none has.
FirstNamed(received, name) ==
  First({p \in DOMAIN received.headers : SameName(received.headers[p].name, name)})

\* getHeaders(), and get() by name and position.
GetHeaderNamedAt(received, name, p) ==
  IF Valid(received, "header") /\ SameName(received.headers[p].name, name)
  THEN GetAt(received, p) ELSE 0

\* getHeaders(), and get() by name, of a name that the message has.
GetHeader(received, name) ==
  IF Valid(received, "header") THEN GetAt(received, FirstNamed(received, name)) ELSE 0

------------------------------------------------------------------------------
(* What the accessors ought to tell of a message, without a loop            *)

\* The raw headers that spoil a message.
Spoilt(message, skipUnknown) ==
  {i \in DOMAIN message.headers :
     IF Declared(message.headers[i].name) THEN ~message.headers[i].decodes ELSE ~skipUnknown}

\* The raw headers that getHeaderAt(p) may be about.  A name that is declared twice
\* counts at the first position.
HeadersAt(message, p) ==
  {i \in DOMAIN message.headers : Position(message.headers[i].name) = p}

\* The name that the pack has at a position: of a header that is not there, an empty one.
NameAt(message, p) == IF HeadersAt(message, p) = {} THEN "" ELSE HeaderNames[p]

\* Key, payload and headers are there exactly if they have decoded and the message
\* is one; of several headers with a name it is the last; a header that the message
\* has is found by its name and its position, and by its name alone unless the pack has
\* that name at another position, or one that differs from it in nothing but the case.
ValuesTold(message, skipUnknown, received) ==
  LET whole == ~message.error /\ "preprocessor" \notin received.sources
      clean == whole /\ Spoilt(message, skipUnknown) = {}
  IN  /\ GetKey(received) # "throws" <=> whole /\ message.key
      /\ GetPayload(received) # "throws" <=> whole /\ message.payload
      /\ \A p \in DOMAIN HeaderNames :
           LET at == HeadersAt(message, p)
           IN  /\ GetHeaderAt(received, p) = (IF clean /\ at # {} THEN Max(at) ELSE 0)
               /\ GetHeaderNamedAt(received, HeaderNames[p], p) = GetHeaderAt(received, p)
               /\ clean /\ at # {} /\ (\A q \in DOMAIN HeaderNames \ {p} :
                    ~SameName(NameAt(message, q), HeaderNames[p]))
                    => GetHeader(received, HeaderNames[p]) = Max(at)
      /\ clean => NumValidHeaders(received) =
                    Cardinality({p \in DOMAIN HeaderNames : HeadersAt(message, p) # {}})

\* An error is told exactly if something is wrong; and getHeaderNumWithError(),
\* "the number of the header which contains an error", is the number of the first
\* one, unless an unknown header has been passed over before it.
ErrorsTold(message, skipUnknown, received) ==
  LET spoilt == Spoilt(message, skipUnknown)
      whole  == ~message.error /\ "preprocessor" \notin received.sources
  IN  /\ GetError(received) = "none" <=> whole /\ message.key /\ message.payload /\ spoilt = {}
      /\ whole /\ spoilt = {} => GetHeaderNumWithError(received) = -1
      /\ whole /\ spoilt # {} /\ (\A i \in 1 .. Min(spoilt) : Declared(message.headers[i].name)
                                                              \/ i = Min(spoilt))
           => GetHeaderNumWithError(received) = Min(spoilt) - 1

===============================================================================
