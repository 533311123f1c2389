------------------------- MODULE MCBatchDeserializer -------------------------
EXTENDS BatchDeserializer

\* One name is declared twice, and one differs from it in its case.
MCHeaderNames == <<"x", "X", "x">>
MCLowerCase   == [name \in {"x", "X", "u", ""} |-> IF name = "X" THEN "x" ELSE name]

\* Each message comes out differently, so that none can be taken for another: a
\* header twice, an undeclared one before one that does not decode, an error of
\* rdkafka, and neither key nor payload.
MCReadBatch ==
  LET Raw(name, decodes) == [name |-> name, decodes |-> decodes]
      Decoded(key, headers) == [error |-> FALSE, key |-> key, payload |-> key, headers |-> headers]
  IN  <<Decoded(TRUE, <<Raw("x", TRUE), Raw("x", TRUE)>>),
        Decoded(TRUE, <<Raw("u", TRUE), Raw("X", FALSE)>>),
        [error |-> TRUE, key |-> FALSE, payload |-> FALSE, headers |-> <<>>],
        Decoded(FALSE, <<Raw("X", TRUE)>>)>>

===============================================================================
