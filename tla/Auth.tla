-------------------------------- MODULE Auth --------------------------------
(***************************************************************************)
(* The server's Authenticator and the signed tokens it accepts, as         *)
(* operators over a configuration cfg, a token and the time at which the   *)
(* token is parsed.                                                        *)
(*                                                                         *)
(* A signed token is abstracted to its claims and to whether its HMAC      *)
(* verifies:                                                               *)
(*   [signed |-> TRUE, authentic, sub, exp, id, prot]                      *)
(* and any other string to [signed |-> FALSE, value], of which NoToken is  *)
(* the empty one.  NoName is the empty subdomain.  A configuration is what *)
(* NewAuthenticatorWith builds:                                            *)
(*   tokens         the accepted static tokens                             *)
(*   reserved       static token -> the name the auth file binds it to     *)
(*   reservedNames  reserved name -> the token IDs that may hold it        *)
(*   signing        a signing key is set                                   *)
(*   revoked        revoked token IDs                                      *)
(***************************************************************************)
EXTENDS Integers, Sequences, FiniteSets

NoName == "-"
NoID == "no-id"
NoToken == [signed |-> FALSE, value |-> "-"]

\* parseReserved: lines of a name and its token IDs, merged by name.
ParseReserved(lines) ==
  [n \in {lines[i].name : i \in 1 .. Len(lines)} |->
     UNION {lines[i].ids : i \in {j \in 1 .. Len(lines) : lines[j].name = n}}]

\* NewAuthenticatorWith: static tokens come from a list and from the auth file,
\* which binds each of its tokens to a name; reserved names from a file and a flag.
NewAuthenticatorWith(o) ==
  [tokens |-> o.tokens \cup DOMAIN o.authFile,
   reserved |-> o.authFile,
   reservedNames |-> ParseReserved(o.reservedFile \o o.reserved),
   signing |-> o.signing,
   revoked |-> o.revoked]

\* What NewAuthenticatorWith refuses to start with: an invalid name in one of its
\* files, a reserved name no token could claim, or one the auth file gives to a
\* static token.  parseReserved takes nothing but token IDs, of which NoID is none.
ConfigOK(cfg, valid) ==
  /\ \A t \in DOMAIN cfg.reserved : cfg.reserved[t] \in valid
  /\ \A n \in DOMAIN cfg.reservedNames : n \in valid /\ NoID \notin cfg.reservedNames[n]
  /\ DOMAIN cfg.reservedNames # {} =>
       /\ cfg.signing
       /\ \A t \in DOMAIN cfg.reserved : cfg.reserved[t] \notin DOMAIN cfg.reservedNames

OpenMode(cfg) == cfg.tokens = {} /\ ~cfg.signing

\* Authenticator.isSigned.
IsSigned(cfg, tok) == cfg.signing /\ tok.signed

\* token.Parse succeeds: authentic, with an ID, and not expired at time t.
Parses(tok, t) ==
  /\ tok.authentic
  /\ tok.id # NoID
  /\ tok.exp # 0 => t <= tok.exp

\* Authenticator.Check.
Check(cfg, tok, t) ==
  \/ OpenMode(cfg)
  \/ IsSigned(cfg, tok) /\ Parses(tok, t) /\ tok.id \notin cfg.revoked
  \/ ~IsSigned(cfg, tok) /\ tok # NoToken /\ tok \in cfg.tokens

\* Authenticator.ReservedSubdomain.
ReservedSubdomain(cfg, tok, t) ==
  IF IsSigned(cfg, tok)
  THEN IF Parses(tok, t) THEN tok.sub ELSE NoName
  ELSE IF tok \in DOMAIN cfg.reserved THEN cfg.reserved[tok] ELSE NoName

\* Authenticator.CheckSubdomain; valid is proto.ValidSubdomain.
CheckSubdomain(cfg, tok, requested, valid, t) ==
  LET free == requested = NoName \/ valid IN
  IF IsSigned(cfg, tok)
  THEN Parses(tok, t) /\ (IF tok.sub # NoName THEN requested = tok.sub ELSE free)
  ELSE IF tok \in DOMAIN cfg.reserved
       THEN requested \in {NoName, cfg.reserved[tok]}
       ELSE free

\* Authenticator.TokenID.
TokenID(cfg, tok, t) ==
  IF IsSigned(cfg, tok) /\ Parses(tok, t) /\ tok.id \notin cfg.revoked THEN tok.id ELSE NoID

\* Authenticator.IsReserved.
IsReserved(cfg, name) == name \in DOMAIN cfg.reservedNames

\* Authenticator.CheckReserved: ok, refused, or refused because of plaintext.
CheckReserved(cfg, tok, name, overTLS, t) ==
  IF ~IsReserved(cfg, name) THEN "ok"
  ELSE IF TokenID(cfg, tok, t) \notin cfg.reservedNames[name] THEN "reserved"
  ELSE IF ~overTLS THEN "tls_required"
  ELSE "ok"

\* token.MintWith, as handleTokenIssue calls it: a token of identifier id that
\* expires at exp, with no prot claim.
Mint(id, name, exp) ==
  [signed |-> TRUE, authentic |-> TRUE, sub |-> name, exp |-> exp, id |-> id, prot |-> FALSE]

\* Authenticator.ProtectedByToken.
ProtectedByToken(cfg, tok, t) == IsSigned(cfg, tok) /\ Parses(tok, t) /\ tok.prot
=============================================================================
