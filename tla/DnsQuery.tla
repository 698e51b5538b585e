------------------------------- MODULE DnsQuery -------------------------------
(***************************************************************************)
(* One resolve through the configured name servers (dns.rs): which are     *)
(* asked and in which order, the messages, the transports, and the order   *)
(* in which the addresses are tried. A byte is a number; a host is a       *)
(* sequence of labels and a label a sequence of bytes. Positions count     *)
(* from 1.                                                                 *)
(***************************************************************************)
EXTENDS Integers, Sequences, SequencesExt, FiniteSets

CONSTANTS
  Configs,         \* configs: the servers and the query strategy
  Hosts,           \* names to resolve
  RecordSets,      \* sequences of records a server answers with
  SystemAnswers,   \* sequences of addresses the system's resolver answers with
  MaxDatagram,     \* bytes of a UDP answer that are read
  MaxSteps,        \* labels and pointers of a name that are followed
  None

VARIABLES
  resolver,     \* "asks", "orders" or "done"
  dns,          \* the config
  host,
  asked,        \* how many queries have been made
  query_id,
  addrs,        \* what the resolve returns, <<>> for an error
  meant         \* history: what the first server with an answer meant

resolve_vars == <<resolver, dns, host, asked, query_id, addrs, meant>>

-----------------------------------------------------------------------------
U16(n) == <<n \div 256, n % 256>>
U16At(b, i) == b[i] * 256 + b[i + 1]

RECURSIVE Trimmed(_)
Trimmed(h) == IF Len(h) > 1 /\ Last(h) = <<>> THEN Trimmed(Front(h)) ELSE h

EncodedName(h) == FlattenSeq([i \in DOMAIN h |-> <<Len(h[i])>> \o h[i]]) \o <<0>>

\* <<>> for a name that cannot be asked for.
encode_query(id, h, qtype) ==
  IF \E i \in DOMAIN Trimmed(h) : Len(Trimmed(h)[i]) \notin 1 .. 63 THEN <<>>
  ELSE U16(id) \o U16(256) \o U16(1) \o U16(0) \o U16(0) \o U16(0)
         \o EncodedName(Trimmed(h)) \o U16(qtype) \o U16(1)

\* No position: what is read there is cut short or goes round in circles.
Nowhere == 0

\* Where the name at a position ends: at its end, or behind its first pointer.
RECURSIVE NameFrom(_, _, _, _)
NameFrom(b, cursor, end, steps) ==
  IF steps = 0 \/ cursor > Len(b) THEN Nowhere
  ELSE IF b[cursor] >= 192
       THEN IF cursor = Len(b) THEN Nowhere
            ELSE NameFrom(b, 1 + (b[cursor] - 192) * 256 + b[cursor + 1],
                          IF end = None THEN cursor + 2 ELSE end, steps - 1)
  ELSE IF b[cursor] = 0 THEN IF end = None THEN cursor + 1 ELSE end
  ELSE IF cursor + b[cursor] > Len(b) THEN Nowhere
  ELSE NameFrom(b, cursor + 1 + b[cursor], end, steps - 1)

read_name(b, offset) == IF offset = Nowhere THEN Nowhere ELSE NameFrom(b, offset, None, MaxSteps)

Left(b, at) == Len(b) - at + 1

\* Behind the question whose name ends at a position.
QuestionAt(b, at) == IF at = Nowhere \/ Left(b, at) < 4 THEN Nowhere ELSE at + 4

DataLen(b, at) == U16At(b, at + 8)

\* Mutant: the class of a record is not looked at.
TakesAnyClass(b, at, qtype) ==
  U16At(b, at) = qtype /\ <<qtype, DataLen(b, at)>> \in {<<1, 4>>, <<28, 16>>}

Takes(b, at, qtype) ==
  /\ U16At(b, at + 2) = 1 /\ U16At(b, at) = qtype
  /\ <<qtype, DataLen(b, at)>> \in {<<1, 4>>, <<28, 16>>}

\* The record whose name ends at a position.
RecordAt(b, at, ips, qtype) ==
  IF at = Nowhere \/ Left(b, at) < 10 THEN [next |-> Nowhere, ips |-> <<>>]
  ELSE IF Left(b, at + 10) < DataLen(b, at) THEN [next |-> Nowhere, ips |-> <<>>]
  ELSE [next |-> at + 10 + DataLen(b, at),
        ips |-> IF Takes(b, at, qtype)
                THEN Append(ips, SubSeq(b, at + 10, at + 9 + DataLen(b, at))) ELSE ips]

Times(n) == [i \in 1 .. n |-> i]

\* The addresses of a message, none for one that is refused.
parse_response(b, id, qtype) ==
  IF Len(b) < 12 \/ U16At(b, 1) # id \/ b[3] < 128 \/ b[4] % 16 # 0 THEN <<>>
  ELSE FoldLeft(LAMBDA r, i : RecordAt(b, read_name(b, r.next), r.ips, qtype),
                [next |-> FoldLeft(LAMBDA at, i : QuestionAt(b, read_name(b, at)), 13, Times(U16At(b, 5))),
                 ips |-> <<>>],
                Times(U16At(b, 7))).ips

-----------------------------------------------------------------------------
(* A name server. A record is [owner, type, class, data]; its owner is      *)
(* written out, points to the question, or points to itself.                *)

OwnerOf(r, h, at) ==
  CASE r.owner = "name" -> EncodedName(h)
    [] r.owner = "pointer" -> <<192, 12>>
    [] r.owner = "circle" -> U16(192 * 256 + at - 1)

RECURSIVE Written(_, _, _)
Written(b, h, records) ==
  IF records = <<>> THEN b
  ELSE LET r == Head(records)
       IN Written(b \o OwnerOf(r, h, Len(b) + 1) \o U16(r.type) \o U16(r.class) \o <<0, 0, 0, 9>>
                    \o U16(Len(r.data)) \o r.data, h, Tail(records))

Response(query, id, flags, h, records) ==
  Written(U16(id) \o flags \o U16(1) \o U16(Len(records)) \o U16(0) \o U16(0) \o SubSeq(query, 13, Len(query)),
          h, records)

Sound == <<129, 128>>
Failure == <<129, 131>>

\* What a server means by its records: the addresses of the type it was asked for.
Meaning(records, qtype) ==
  LET those == SelectSeq(records, LAMBDA r : r.type = qtype /\ r.class = 1)
  IN [i \in DOMAIN those |-> those[i].data]

\* What a server may send: a sound message, whole or cut, that of another query,
\* or a failure; with what it means, which is nothing unless it arrives whole.
Sendings(query, id, qtype, h) ==
  UNION { LET whole == Response(query, id, Sound, h, records)
              usable == \A i \in DOMAIN records : records[i].owner # "circle"
          IN {[bytes |-> whole, means |-> IF usable THEN Meaning(records, qtype) ELSE <<>>]}
             \cup {[bytes |-> SubSeq(whole, 1, n), means |-> <<>>] : n \in 0 .. Len(whole) - 1}
             \cup {[bytes |-> Response(query, (id + 1) % 65536, Sound, h, records), means |-> <<>>],
                   [bytes |-> Response(query, id, Failure, h, records), means |-> <<>>]}
        : records \in RecordSets }

-----------------------------------------------------------------------------
(* The resolve.                                                            *)

select_servers(c, h) ==
  LET matched == SelectSeq(c.servers, LAMBDA s : h \in s.domains)
  IN IF matched # <<>> THEN matched ELSE SelectSeq(c.servers, LAMBDA s : s.domains = {})

query_types(strategy) ==
  CASE strategy \in {"useipv6", "ipv6"} -> <<28>>
    [] strategy \in {"useipv6v4", "ipv6v4"} -> <<28, 1>>
    [] strategy \in {"asis", "useip", "useipv4v6", "ipv4v6"} -> <<1, 28>>
    [] OTHER -> <<1>>

query_strategy_prefers_ipv6(strategy) == strategy \in {"useipv6", "ipv6", "useipv6v4", "ipv6v4"}

Init ==
  /\ dns \in Configs /\ host \in Hosts
  /\ resolver = "asks" /\ asked = 0
  /\ query_id = 65535
  /\ addrs = <<>> /\ meant = <<>>

system_resolve ==
  /\ resolver = "asks" /\ dns.servers = <<>>
  /\ \E a \in SystemAnswers : addrs' = a /\ meant' = a
  /\ resolver' = "orders"
  /\ UNCHANGED <<dns, host, asked, query_id>>

Types == query_types(dns.strategy)
Server == select_servers(dns, host)[(asked \div Len(Types)) + 1]
Type == Types[(asked % Len(Types)) + 1]

\* A query is over: with addresses, or the next one is due.
Answered(ips, means) ==
  /\ asked' = asked + 1
  /\ query_id' = (query_id + 1) % 65536
  /\ addrs' = ips
  /\ meant' = IF meant = <<>> THEN means ELSE meant
  /\ resolver' = IF ips # <<>> THEN "orders" ELSE "asks"
  /\ UNCHANGED <<dns, host>>

\* dns_server_endpoint, dns_server_addr
Reachable(s) == s.scheme \in {"", "udp", "tcp"} /\ s.known

query_udp_dns(query) ==
  \E m \in Sendings(query, query_id, Type, Trimmed(host)) :
    Answered(parse_response(SubSeq(m.bytes, 1, IF Len(m.bytes) < MaxDatagram THEN Len(m.bytes) ELSE MaxDatagram),
                            query_id, Type),
             IF Len(m.bytes) <= MaxDatagram THEN m.means ELSE <<>>)

\* The stream carries the length of the message first: it comes whole, or the
\* query fails.
query_tcp_dns(query) ==
  \E m \in Sendings(query, query_id, Type, Trimmed(host)) :
    Answered(parse_response(m.bytes, query_id, Type), m.means)

query_dns_server ==
  /\ resolver = "asks" /\ dns.servers # <<>>
  /\ asked < Len(select_servers(dns, host)) * Len(Types)
  /\ \E query \in {encode_query(query_id, host, Type)} :
       IF query = <<>> \/ ~Reachable(Server) THEN Answered(<<>>, <<>>)
       ELSE \/ Answered(<<>>, <<>>)     \* no connection, no answer in time, or half of one
            \/ Server.scheme # "tcp" /\ query_udp_dns(query)
            \/ Server.scheme = "tcp" /\ query_tcp_dns(query)

\* No server had an address.
Unresolved ==
  /\ resolver = "asks" /\ dns.servers # <<>>
  /\ asked = Len(select_servers(dns, host)) * Len(Types)
  /\ resolver' = "done"
  /\ UNCHANGED <<dns, host, asked, query_id, addrs, meant>>

-----------------------------------------------------------------------------
Is4(a) == Len(a) = 4

RECURSIVE Interleaved(_, _, _)
Interleaved(first, second, out) ==
  IF first = <<>> \/ second = <<>> THEN out \o first \o second
  ELSE Interleaved(second, Tail(first), Append(out, Head(first)))

happy_eyeballs_order(a, prioritize_ipv6) ==
  LET ipv4 == SelectSeq(a, Is4)
      ipv6 == SelectSeq(a, LAMBDA x : ~Is4(x))
  IN IF prioritize_ipv6 THEN Interleaved(ipv6, ipv4, <<>>) ELSE Interleaved(ipv4, ipv6, <<>>)

connect_tcp_addrs ==
  /\ resolver = "orders"
  /\ addrs' = happy_eyeballs_order(addrs, query_strategy_prefers_ipv6(dns.strategy))
  /\ resolver' = "done"
  /\ UNCHANGED <<dns, host, asked, query_id, meant>>

\* Another config comes into force; the resolve goes on with its own.
configure ==
  /\ resolver = "orders" /\ dns' \in Configs
  /\ UNCHANGED <<resolver, host, asked, query_id, addrs, meant>>

Next == configure \/ system_resolve \/ query_dns_server \/ Unresolved \/ connect_tcp_addrs

Spec == Init /\ [][Next]_resolve_vars

-----------------------------------------------------------------------------
Mixed(s, n) == {Is4(s[i]) : i \in n .. Len(s)} = BOOLEAN

\* What is tried is what the first server with an answer meant, each address once
\* and those of a family in the order they came in; while there are addresses of
\* both families they take turns, the preferred family first. Broken, foreign and
\* failing messages count for nothing, wherever they break.
AnswersAreTaken ==
  resolver = "done" =>
    /\ SelectSeq(addrs, Is4) = SelectSeq(meant, Is4)
    /\ SelectSeq(addrs, LAMBDA x : ~Is4(x)) = SelectSeq(meant, LAMBDA x : ~Is4(x))
    /\ Mixed(addrs, 1) => Is4(addrs[1]) # query_strategy_prefers_ipv6(dns.strategy)
    /\ \A i \in 2 .. Len(addrs) : Mixed(addrs, i - 1) => Is4(addrs[i]) # Is4(addrs[i - 1])
=============================================================================
