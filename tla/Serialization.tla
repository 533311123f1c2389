---------------------------- MODULE Serialization ----------------------------
(***************************************************************************)
(* What ProducerManagerImpl makes of a key, a payload and the headers that *)
(* are given to send() or post(), up to the message that a consumer of the *)
(* same topic polls.  A part is what the application's serialize() makes   *)
(* of it: bytes, no bytes, or an exception; a NullHeader stands for a      *)
(* header that is left out.                                                *)
(***************************************************************************)
EXTENDS Deserialization

Parts == {"bytes", "empty", "throws"}

\* matchAllTypes(): as many headers as the topic declares, any of them a NullHeader.
HandedIn ==
  [key : Parts, payload : Parts, headers : [DOMAIN HeaderNames -> Parts \union {"null"}]]

\* Faulty variant: the index of the name is not advanced at a NullHeader.
SerializeHeadersInARow(parts) ==
  LET serialized == SelectSeq(parts, LAMBDA part : part # "null")
  IN  [i \in DOMAIN serialized |-> [name |-> HeaderNames[i], part |-> serialized[i]]]

\* The header at position p has the topic's name for that position, whatever was left
\* out before it.
SerializeHeader(parts, p, serialized) ==
  IF parts[p] = "null" THEN serialized
  ELSE Append(serialized, [name |-> HeaderNames[p], part |-> parts[p]])

SerializeHeaders(parts) ==
  LET upTo[p \in 0 .. Len(parts)] ==
        IF p = 0 THEN <<>> ELSE SerializeHeader(parts, p, upTo[p - 1])
  IN  upTo[Len(parts)]

HeadersSerialize(given) ==
  \A p \in DOMAIN given.headers : given.headers[p] \notin {"empty", "throws"}

\* send() takes a part without bytes for one that failed.
SerializeMessage(given) ==
  given.key = "bytes" /\ given.payload = "bytes" /\ HeadersSerialize(given)

\* post() sends an empty key or payload on, but no empty header.
SerializeCoro(given) ==
  given.key # "throws" /\ given.payload # "throws" /\ HeadersSerialize(given)

\* The message as it is polled.  It is up to the application whether its deserializers
\* accept what its serializers have made.  "given" is for properties only.
Polled(given) ==
  LET raw == SerializeHeaders(given.headers)
  IN  {[error |-> FALSE, key |-> k, payload |-> p, given |-> given,
        headers |-> [i \in DOMAIN raw |-> [name |-> raw[i].name, decodes |-> accepted[i]]]] :
         k \in BOOLEAN, p \in BOOLEAN, accepted \in [DOMAIN raw -> BOOLEAN]}

SentMessages ==
  UNION {Polled(given) : given \in {g \in HandedIn : SerializeMessage(g) \/ SerializeCoro(g)}}

IsSent(message) == "given" \in DOMAIN message

------------------------------------------------------------------------------

\* How many headers were sent up to position p.
SentUpTo(given, p) == Cardinality({q \in 1 .. p : given.headers[q] # "null"})

DeclaredOnce(p) == \A q \in DOMAIN HeaderNames \ {p} : HeaderNames[q] # HeaderNames[p]

\* getHeaderAt(p) gives back the header that was given at position p, if the message
\* and its headers are sound, and throws if a NullHeader was; and a consumer of the
\* topic never meets a header that it does not know.  A name that is declared twice is
\* excused.
GivenBack(message, received) ==
  LET sound == /\ "preprocessor" \notin received.sources
               /\ \A i \in DOMAIN message.headers : message.headers[i].decodes
  IN  /\ GetError(received) # "NOT_IMPLEMENTED"
      /\ \A p \in {q \in DOMAIN HeaderNames : DeclaredOnce(q)} :
           GetHeaderAt(received, p) =
             IF sound /\ message.given.headers[p] # "null" THEN SentUpTo(message.given, p)
                                                          ELSE 0

===============================================================================
