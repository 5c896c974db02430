--------------------------- MODULE MCControlPlane ---------------------------
(***************************************************************************)
(* Small instances of ControlPlane for TLC.                                *)
(***************************************************************************)
EXTENDS ControlPlane, TLC

Valid == {"app", "hop", "gen"}
Names == Valid \cup {"a_b"}      \* and one that is no subdomain

Signed(id, name, exp, prot, authentic) ==
  [signed |-> TRUE, authentic |-> authentic, sub |-> name, exp |-> exp, id |-> id,
   prot |-> prot]
Static(v) == [signed |-> FALSE, value |-> v]

\* "hop" is reserved to two token IDs, one of which was revoked.
MCCfg ==
  NewAuthenticatorWith(
    [tokens |-> {Static("dev")}, authFile |-> [t \in {Static("bound")} |-> "app"],
     reservedFile |-> <<[name |-> "hop", ids |-> {"tok_o"}]>>,
     reserved |-> <<[name |-> "hop", ids |-> {"tok_r"}]>>,
     signing |-> TRUE, revoked |-> {"tok_r"}])

Hello(tok, name, prot, tls) ==
  [version |-> TRUE, token |-> tok, subdomain |-> name, protected |-> prot, tls |-> tls]

Owner == Signed("tok_o", NoName, 1, TRUE, TRUE)      \* expires after time 1
Scoped == Signed("tok_s", "app", 1, FALSE, TRUE)
ScopedHop == Signed("tok_x", "hop", 0, FALSE, TRUE)
Revoked == Signed("tok_r", NoName, 0, FALSE, TRUE)
Forged == Signed("tok_o", NoName, 0, FALSE, FALSE)
ScopedBad == Signed("tok_b", "a_b", 0, FALSE, TRUE)

\* The owner of "hop" over TLS and not; a scoped token that asks for another name;
\* a token that is revoked, forged, scoped to a name reserved to another or to one
\* that is no subdomain; static tokens, free and bound, one of which asks for a name
\* that is none; a client of another version.
AdmissionHellos ==
  {Hello(Owner, "hop", FALSE, TRUE), Hello(Owner, "hop", FALSE, FALSE),
   Hello(Scoped, "gen", FALSE, TRUE), Hello(ScopedHop, NoName, FALSE, TRUE),
   Hello(Revoked, "hop", FALSE, TRUE), Hello(Forged, "hop", FALSE, TRUE),
   Hello(ScopedBad, NoName, FALSE, TRUE), Hello(Static("dev"), "a_b", FALSE, FALSE),
   Hello(Static("dev"), "hop", FALSE, TRUE), Hello(Static("dev"), NoName, TRUE, FALSE),
   Hello(Static("bound"), NoName, FALSE, FALSE), Hello(Static("bound"), "gen", FALSE, FALSE),
   [Hello(Static("dev"), "app", FALSE, FALSE) EXCEPT !.version = FALSE]}

\* Clients that compete for one name: runs of one token, and another token, for which
\* it is generated.
TakeoverHellos ==
  {Hello(Scoped, "app", TRUE, FALSE), Hello(Static("dev"), NoName, TRUE, FALSE)}
MandateHellos == {Hello(Owner, "hop", FALSE, TRUE)}

\* Asks for a token of any name, for longer than allowed, of a reserved name, with a
\* wrong password, and with a lifetime that is none.
Ask(ok, name, ttl) == [password |-> ok, sub |-> name, ttl |-> ttl]
MCTokenAsks ==
  {Ask(TRUE, NoName, 0), Ask(TRUE, NoName, 9), Ask(TRUE, "hop", 1),
   Ask(FALSE, "app", 0), Ask(TRUE, "app", -1)}

\* A token is issued, if at all, at the first instant.
FairEarlyIssue == Init /\ [][Next /\ (issued' # issued => now = 1)]_vars /\ Fairness

Symmetry == Permutations(Conn)
=============================================================================
