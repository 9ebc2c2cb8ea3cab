------------------------- MODULE MCQuoteAcceptance -------------------------
(* Two quotes, three requests (r1 and r2 accept the same quote with         *)
(* different material), two idempotency keys.                               *)
EXTENDS QuoteAcceptance

CONSTANTS q1, q2, r1, r2, r3

MCQuoteOf == [r \in Requests |-> IF r = r3 THEN q2 ELSE q1]
MCIssuedAt == [q \in {q1, q2} |-> 0]
MCExpiresAt == [q \in {q1, q2} |-> IF q = q1 THEN 1 ELSE 2]
=============================================================================
