---------------------------- MODULE MCWebHelpers ----------------------------
(* Bounded inputs for checking WebHelpers with TLC.                       *)
EXTENDS WebHelpers

\* First and second octets on both sides of every private range boundary;
\* the last two octets do not take part in any test.
FirstOctets == {0, 8, 10, 126, 127, 169, 172, 192}
SecondOctets == {0, 1, 15, 16, 31, 32, 168, 254}
MCV4 == {<<a, b, 0, 1>> : a \in FirstOctets, b \in SecondOctets}

\* IPv6 prefixes (the first six segments): IPv4-compatible, IPv4-mapped,
\* and prefixes to_ipv4 rejects (link-local, documentation, a non-zero
\* fifth segment).
V6Prefixes == {<<0, 0, 0, 0, 0, 0>>, <<0, 0, 0, 0, 0, 65535>>,
             <<65152, 0, 0, 0, 0, 0>>, <<8193, 3512, 0, 0, 0, 0>>,
             <<0, 0, 0, 0, 1, 65535>>}
MCV6 == {p \o <<o[1] * 256 + o[2], o[3] * 256 + o[4]>> : p \in V6Prefixes, o \in MCV4}

MCPeers == {V4(o) : o \in MCV4} \cup {V6(s) : s \in MCV6} \cup {Unix}

\* Every string of up to four characters over a plain letter and the
\* special characters in two neighbouring combinations.
MCTexts == BoundedSeq({"a", "<", "&", "\""}, 4)
\* The error kinds of section 7 a web handler can return: SessionNotFound
\* comes only from StopStreaming, which has no reply.
MCErrors ==
    {"StreamingTimedOut", "TunerUnavailable", "ChannelNotFound",
     "ServiceNotFound", "ProgramNotFound", "RecordNotFound", "ClockNotSynced",
     "OutOfRange", "NoContent", "AccessDenied", "CommandFailed",
     "InvalidFilter", "IoError", "Other"}
=============================================================================
