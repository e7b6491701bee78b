------------------------------ MODULE MCSubmit ------------------------------
(***************************************************************************)
(* Small instances of Submit.  Requests r1 and r2 submit the same          *)
(* certificate, r3 another one whose chain shares an issuer.               *)
(***************************************************************************)
EXTENDS Submit

CONSTANTS r1, r2, r3, f1, f2, b1, b2, c1, c2

Cert(f, b, ch) == [fp |-> f, body |-> b, chain |-> ch]

\* Two copies of one certificate and another certificate.
CopiesAndOther ==
    [r \in Request |-> IF r = r3 THEN Cert(f2, b2, {c1, c2})
                                 ELSE Cert(f1, b1, {c1})]

\* One precertificate under two chains whose issuers have different keys.
TwoIssuerKeys ==
    [r \in Request |-> IF r = r1 THEN Cert(f1, b1, {c1})
                       ELSE IF r = r2 THEN Cert(f1, b2, {c2})
                       ELSE Cert(f2, b2, {c2})]
=============================================================================
