------------------------------ MODULE WebHelpers ------------------------------
(***************************************************************************)
(* Pure helpers of the web layer (src/web.rs), checked against reference  *)
(* definitions over bounded inputs: the access-control decision of        *)
(* AccessControlMiddleware and the XML escaping of escape().              *)
(*                                                                         *)
(* The state is one input, chosen by Init and kept by every step; each    *)
(* property compares the code's operator with its reference on it.       *)
(***************************************************************************)
EXTENDS Integers, Sequences, SequencesExt

CONSTANTS
    Peers,   \* peer addresses: <<"v4", octets>>, <<"v6", segments>>, <<"unix">>
    Texts,   \* strings, as sequences of one-character strings
    Errors   \* error kinds a handler returns

VARIABLE input

-----------------------------------------------------------------------------
(* Access control                                                          *)

V4(o) == <<"v4", o>>
V6(s) == <<"v6", s>>
Unix == <<"unix">>

\* is_private_ipv4_addr: Ipv4Addr::is_loopback (127/8), is_private (10/8,
\* 172.16/12, 192.168/16) and is_link_local (169.254/16).
IsPrivateIpv4Addr(o) ==
    \/ o[1] = 127
    \/ o[1] = 10
    \/ o[1] = 172 /\ o[2] \in 16..31
    \/ o[1] = 192 /\ o[2] = 168
    \/ o[1] = 169 /\ o[2] = 254

\* is_private_ipv6_addr: Ipv6Addr::to_ipv4 turns ::a.b.c.d (IPv4-compatible)
\* and ::ffff:a.b.c.d (IPv4-mapped) into a.b.c.d and every other address
\* into None, which is not private.
IsPrivateIpv6Addr(s) ==
    /\ \A i \in 1..5 : s[i] = 0
    /\ s[6] \in {0, 65535}
    /\ IsPrivateIpv4Addr(<<s[7] \div 256, s[7] % 256, s[8] \div 256, s[8] % 256>>)

\* is_private_ip_addr
IsPrivateIpAddr(ip) ==
    IF ip[1] = "v4" THEN IsPrivateIpv4Addr(ip[2]) ELSE IsPrivateIpv6Addr(ip[2])

\* AccessControlMiddleware::call: a peer without an IP address (a UNIX
\* domain socket) is allowed; otherwise the address must be private.
AccessAllowed(peer) ==
    IF peer = Unix THEN TRUE ELSE IsPrivateIpAddr(peer)

\* Section 6 of the specification: loopback, private and link-local IPv4
\* (10/8, 172.16/12, 192.168/16, 127/8, 169.254/16), the IPv6 loopback,
\* IPv4-mapped private addresses, and UNIX domain peers are allowed.
SpecAllowed(peer) ==
    \/ peer = Unix
    \/ peer[1] = "v4" /\ IsPrivateIpv4Addr(peer[2])
    \/ peer = V6(<<0, 0, 0, 0, 0, 0, 0, 1>>)
    \/ /\ peer[1] = "v6"
       /\ SubSeq(peer[2], 1, 6) = <<0, 0, 0, 0, 0, 65535>>
       /\ IsPrivateIpv4Addr(<<peer[2][7] \div 256, peer[2][7] % 256,
                              peer[2][8] \div 256, peer[2][8] % 256>>)

-----------------------------------------------------------------------------
(* escape                                                                  *)

Special == {"<", ">", "&", "'", "\""}

Entity(ch) ==
    CASE ch = ">"  -> <<"&", "g", "t", ";">>
      [] ch = "<"  -> <<"&", "l", "t", ";">>
      [] ch = "&"  -> <<"&", "a", "m", "p", ";">>
      [] ch = "'"  -> <<"&", "#", "3", "9", ";">>
      [] ch = "\"" -> <<"&", "q", "u", "o", "t", ";">>

\* The text between two positions, pile_o_bits[last..i] (0-based, i excluded).
Slice(s, from, to) == SubSeq(s, from + 1, to)

\* A mutant: `last` is set to the special character's own position.
RECURSIVE EscapeLoopNoSkip(_, _, _, _)
EscapeLoopNoSkip(s, i, last, out) ==
    IF i = Len(s)
    THEN IF last < Len(s) THEN out \o Slice(s, last, Len(s)) ELSE out
    ELSE IF s[i + 1] \in Special
         THEN EscapeLoopNoSkip(s, i + 1, i,
                               out \o Slice(s, last, i) \o Entity(s[i + 1]))
         ELSE EscapeLoopNoSkip(s, i + 1, last, out)

\* The loop of Escape::fmt over the bytes of s, writing the text since the
\* last special character and then the entity; the tail is written after it.
RECURSIVE EscapeLoop(_, _, _, _)
EscapeLoop(s, i, last, out) ==
    IF i = Len(s)
    THEN IF last < Len(s) THEN out \o Slice(s, last, Len(s)) ELSE out
    ELSE IF s[i + 1] \in Special
         THEN EscapeLoop(s, i + 1, i + 1,
                         out \o Slice(s, last, i) \o Entity(s[i + 1]))
         ELSE EscapeLoop(s, i + 1, last, out)

Escape(s) == EscapeLoop(s, 0, 0, <<>>)

\* Reference: every special character replaced by its entity, every other
\* character kept.
EscapeRef(s) ==
    FlattenSeq([i \in 1..Len(s) |-> IF s[i] \in Special THEN Entity(s[i]) ELSE <<s[i]>>])

-----------------------------------------------------------------------------
(* error_response                                                          *)

\* ResponseError::error_response: the HTTP status of each error kind; the
\* kinds without an arm of their own are 500.
ErrorStatus(e) ==
    CASE e = "StreamingTimedOut" -> 408
      [] e \in {"TunerUnavailable", "ChannelNotFound", "ServiceNotFound",
                "ProgramNotFound", "RecordNotFound"} -> 404
      [] e = "OutOfRange" -> 416
      [] e = "NoContent" -> 204
      [] e = "AccessDenied" -> 403
      [] OTHER -> 500

\* Section 6: 404 for the not-found kinds, 416 for out-of-range, 204 for no
\* content, 408 for the streaming timeout, 403 for access denied, 500 for
\* other errors (the kinds are those of section 7).
NotFoundKinds ==
    {"ChannelNotFound", "ServiceNotFound", "ProgramNotFound", "RecordNotFound",
     "SessionNotFound"}

SpecStatus(e) ==
    CASE e \in NotFoundKinds -> 404
      [] e = "OutOfRange" -> 416
      [] e = "NoContent" -> 204
      [] e = "StreamingTimedOut" -> 408
      [] e = "AccessDenied" -> 403
      [] OTHER -> 500

-----------------------------------------------------------------------------

Init ==
    input \in {<<"peer", p>> : p \in Peers} \cup {<<"text", t>> : t \in Texts}
               \cup {<<"error", e>> : e \in Errors}

Next == UNCHANGED input

Spec == Init /\ [][Next]_input

-----------------------------------------------------------------------------
(* Properties                                                              *)

\* escape() writes exactly the reference escaping of its input: no
\* character lost or repeated around the special characters, whatever
\* their positions and neighbours.
EscapeMatchesReference ==
    input[1] = "text" => Escape(input[2]) = EscapeRef(input[2])

\* AccessControlMiddleware lets a peer in exactly when section 6 of the
\* specification allows it.
AccessMatchesSpec ==
    input[1] = "peer" => (AccessAllowed(input[2]) <=> SpecAllowed(input[2]))

\* A handler's error is answered with the status section 6 gives its kind.
StatusMatchesSpec ==
    input[1] = "error" => ErrorStatus(input[2]) = SpecStatus(input[2])

=============================================================================
