----------------------------- MODULE SecureFetch -----------------------------
(***************************************************************************)
(* SecureHttpClient::get_with_headers (application/network.rs): one HTTPS  *)
(* fetch of the resolver, which follows redirects.  Every hop is looked up *)
(* in the DNS again, must be permitted by the trusted host/path profile    *)
(* and must be new; a hop to another origin goes without the credential    *)
(* and without the extra headers, and so does every hop after it.  The     *)
(* whole answer is read before it is decoded (RustlsTransport,             *)
(* decode_http1).                                                          *)
(*                                                                         *)
(* A URL is its parts, with the port it means; a path is its segments.     *)
(* What goes over the wire are tokens: a byte of a body, the size line of  *)
(* a chunk, a line end.  TLS authenticates the server and notices a        *)
(* connection that is cut, so an answer can only be short because the      *)
(* server ends it early.  An answer without length or chunks ends where    *)
(* the server says, and is taken for whole.                                *)
(***************************************************************************)
EXTENDS Naturals, FiniteSets, Sequences

CONSTANTS
  Urls,             \* [scheme, host, port, path, named, plain]
  OfficialHosts,    \* [origin, prefixes], the built-in profile
  ConfiguredHosts,  \* those of the configuration's resolver section
  MaxRedirects,     \* MAX_REDIRECTS
  MaxBody,          \* HttpLimits::max_response_bytes
  DnsAnswers,       \* what a lookup may answer: sets of addresses
  Proxy             \* an HTTP CONNECT proxy is configured

\* normalize_prefix refuses a configuration with any other prefix.
SafePrefix(prefix) == \A i \in DOMAIN prefix : prefix[i] \notin {".", ".."}

Octets == {n \in Nat : n < 256}
Segments == {n \in Nat : n < 65536}
V4 == [1 .. 4 -> Octets]
V6 == [1 .. 8 -> Segments]

\* The order of IpAddr.
Precedes(a, b) ==
  \/ Len(a) < Len(b)
  \/ /\ Len(a) = Len(b)
     /\ \E i \in DOMAIN a : a[i] < b[i] /\ \A j \in 1 .. i - 1 : a[j] = b[j]

\* A lookup answers with a list, of which, unless it is empty, one address is
\* the first.
ASSUME FetchAssumption ==
  /\ MaxRedirects \in Nat
  /\ MaxBody \in Nat
  /\ Urls # {}
  /\ DnsAnswers # {}
  /\ \A addresses \in DnsAnswers :
       /\ \A a \in addresses : a \in V4 \/ a \in V6
       /\ addresses # {} =>
            \E a \in addresses : \A b \in addresses \ {a} : Precedes(a, b)
  /\ Proxy \in BOOLEAN
  /\ \A host \in ConfiguredHosts : \A p \in host.prefixes : SafePrefix(p)

-----------------------------------------------------------------------------
(***************************************************************************)
(* Where a request may go.                                                 *)
(***************************************************************************)

\* canonical_origin.
OriginOf(u) == <<u.host, u.port>>

\* parse_https: a DNS name that is not the local host, no credentials, fragment
\* or escape in it.
ParseHttps(u) == u.scheme = "https" /\ u.named /\ u.plain

\* trusted_resolver_hosts: a configured host without prefixes is trusted whole.
TrustedHosts ==
  OfficialHosts \cup
    {[host EXCEPT !.prefixes = IF host.prefixes = {} THEN {<<>>} ELSE host.prefixes] :
       host \in ConfiguredHosts}

Under(prefix, path) ==
  Len(prefix) <= Len(path) /\ SubSeq(path, 1, Len(prefix)) = prefix

Trusted ==
  {u \in Urls :
     /\ ParseHttps(u)
     /\ \E host \in TrustedHosts :
          host.origin = OriginOf(u) /\ \E p \in host.prefixes : Under(p, u.path)}

ForbiddenV4(a, b, c, d) ==
  \/ a \in {0, 10, 127}
  \/ a = 100 /\ b \in 64 .. 127
  \/ a = 169 /\ b = 254
  \/ a = 172 /\ b \in 16 .. 31
  \/ a = 192 /\ b = 0 /\ c \in {0, 2}
  \/ a = 192 /\ b = 88 /\ c = 99
  \/ a = 192 /\ b = 168
  \/ a = 198 /\ b \in {18, 19}
  \/ a = 198 /\ b = 51 /\ c = 100
  \/ a = 203 /\ b = 0 /\ c = 113
  \/ a >= 224
  \/ <<a, b, c, d>> = <<255, 255, 255, 255>>

Mapped(a) == a[6] = 65535 /\ \A i \in 1 .. 5 : a[i] = 0

\* forbidden_v6, its masks as divisions.
ForbiddenV6(a) ==
  IF Mapped(a)
  THEN ForbiddenV4(a[7] \div 256, a[7] % 256, a[8] \div 256, a[8] % 256)
  ELSE \/ a[1] \div 8192 # 1
       \/ a[1] = 8193 /\ (a[2] \in {3512, 0, 2} \/ a[2] \div 16 = 1)
       \/ a[1] = 8194
       \/ a[1] \div 16 = 1023

Forbidden(a) ==
  IF Len(a) = 4 THEN ForbiddenV4(a[1], a[2], a[3], a[4]) ELSE ForbiddenV6(a)

\* select_pinned_address: one forbidden address spoils the answer.
Selectable(addresses) ==
  addresses # {} /\ \A a \in addresses : ~Forbidden(a)

PinnedAddress(addresses) ==
  CHOOSE a \in addresses : \A b \in addresses \ {a} : Precedes(a, b)

\* validate_request_headers, and the headers the resolver asks with.
Reserved == {"host", "content-length", "transfer-encoding", "connection",
             "proxy-authorization", "proxy-connection", "user-agent"}
RequestHeaders == {<<>>, <<"accept">>, <<"accept", "authorization">>}
ValidHeaders(credential, names) ==
  /\ \A i, j \in DOMAIN names : names[i] = names[j] => i = j
  /\ \A i \in DOMAIN names :
       /\ names[i] \notin Reserved
       /\ names[i] = "authorization" => ~credential

-----------------------------------------------------------------------------
(***************************************************************************)
(* What comes back: decode_http1.                                          *)
(***************************************************************************)
Byte(i) == <<"byte", i>>
Size(n) == <<"size", n>>
LineEnd == <<"end", 0>>

Has(headers, name) == \E i \in DOMAIN headers : headers[i][1] = name
Value(headers, name) ==
  headers[CHOOSE i \in DOMAIN headers : headers[i][1] = name][2]

\* decode_http1_head: complete and within its limit, every line a header, none
\* of them twice, and a status there is.
HeadDecodes(answer) ==
  /\ answer.head = "whole"
  /\ answer.status \in 100 .. 599
  /\ \A i, j \in DOMAIN answer.headers :
       answer.headers[i][1] = answer.headers[j][1] => i = j

\* A slip: a body that ends early is what there is of it.
DecodeFixed_Short(answer) ==
  {body \in {answer.body} :
     /\ Len(body) <= MaxBody
     /\ Has(answer.headers, "content-length") =>
          Len(body) <= Value(answer.headers, "content-length")}

\* decode_fixed_body: the body, or none.
DecodeFixed(answer) ==
  {body \in {answer.body} :
     /\ Len(body) <= MaxBody
     /\ Has(answer.headers, "content-length") =>
          Len(body) = Value(answer.headers, "content-length")}

\* decode_chunked: likewise, from[at] being what the chunks from there on hold.
DecodeChunked(answer) ==
  LET wire == answer.body
      from[at \in 1 .. Len(wire) + 1] ==
        IF at + 1 > Len(wire) \/ wire[at][1] # "size" \/ wire[at + 1] # LineEnd THEN {}
        ELSE LET n == wire[at][2]
                 end == at + 2 + n
             IN  IF n = 0
                 THEN IF SubSeq(wire, end, Len(wire)) = <<LineEnd>> THEN {<<>>} ELSE {}
                 ELSE IF end > Len(wire) \/ wire[end] # LineEnd THEN {}
                 ELSE {SubSeq(wire, at + 2, end - 1) \o rest : rest \in from[end + 1]}
  IN  {body \in from[1] : Len(body) <= MaxBody}

Decoded(answer) ==
  LET coded == Has(answer.headers, "transfer-encoding")
  IN  IF \/ ~HeadDecodes(answer)
         \/ Has(answer.headers, "content-encoding")
         \/ coded /\ Has(answer.headers, "content-length")
      THEN {}
      ELSE IF ~coded THEN DecodeFixed(answer)
      ELSE IF Value(answer.headers, "transfer-encoding") = "chunked"
      THEN DecodeChunked(answer)
      ELSE {}

\* What get_with_headers makes of an answer; a body goes with the one that
\* the server meant.
Outcome(answer) ==
  IF Decoded(answer) = {} THEN [kind |-> "refused"]
  ELSE IF answer.status \in {301, 302, 303, 307, 308}
  THEN [kind |-> IF Has(answer.headers, "location") THEN "redirect" ELSE "refused"]
  ELSE IF answer.status \in 200 .. 299
  THEN [kind |-> "body", body |-> CHOOSE b \in Decoded(answer) : TRUE,
        meant |-> answer.meant]
  ELSE [kind |-> "refused"]

-----------------------------------------------------------------------------
(***************************************************************************)
(* The servers: a body that fits and one that does not, in one piece, in   *)
(* one chunk or in two, cut off anywhere or followed by more, under headers *)
(* that say so or contradict it.                                           *)
(***************************************************************************)
Chunk(bytes) == <<Size(Len(bytes)), LineEnd>> \o bytes \o <<LineEnd>>
LastChunk == <<Size(0), LineEnd, LineEnd>>
Chunked(bytes) ==
  {Chunk(bytes) \o LastChunk} \cup
    {Chunk(SubSeq(bytes, 1, k)) \o Chunk(SubSeq(bytes, k + 1, Len(bytes))) \o LastChunk :
       k \in 1 .. Len(bytes) - 1}

Cuts(wire) == {SubSeq(wire, 1, k) : k \in 0 .. Len(wire)} \cup {Append(wire, Byte(0))}

Framed(bytes) ==
  {[headers |-> <<>>, body |-> bytes]} \cup
    [headers : {<< <<"content-length", Len(bytes)>> >>}, body : Cuts(bytes)] \cup
    [headers : {<< <<"transfer-encoding", "chunked">> >>},
     body : UNION {Cuts(wire) : wire \in Chunked(bytes)}]

Extras == {<<"location", "elsewhere">>, <<"content-encoding", "gzip">>,
           <<"content-length", 1>>, <<"transfer-encoding", "gzip">>}

WireAnswers ==
  UNION {
    {[head |-> head, status |-> status, headers |-> frame.headers \o extra,
      body |-> frame.body, meant |-> bytes] :
       head \in {"whole", "incomplete", "malformed"}, status \in {200, 302, 404},
       frame \in Framed(bytes), extra \in {<<>>} \cup {<<e>> : e \in Extras}} :
    bytes \in {[i \in 1 .. n |-> Byte(i)] : n \in {MaxBody, MaxBody + 1}}}

Outcomes == {Outcome(answer) : answer \in WireAnswers}

\* establish_proxy_tunnel: a proxy answers CONNECT with a bare 200.
TunnelOpens(answer) ==
  /\ HeadDecodes(answer)
  /\ answer.status = 200
  /\ ~Has(answer.headers, "transfer-encoding")
  /\ Has(answer.headers, "content-length") => Value(answer.headers, "content-length") = 0

ProxyAnswers ==
  [head : {"whole", "incomplete"}, status : {200, 407},
   headers : {<<>>, << <<"content-length", 0>> >>, << <<"content-length", 1>> >>,
              << <<"transfer-encoding", "chunked">> >>}]

-----------------------------------------------------------------------------
VARIABLES
  exchange,      \* "idle", "connect", "waiting", "ok" or "failed"
  home,          \* the URL the caller asked for
  url,           \* RedirectState::url
  credentials,   \* RedirectState::credentials
  forward,       \* forward_headers
  visited,       \* RedirectState::visited
  redirects,     \* RedirectState::redirects
  received,      \* the body that was accepted, and what the server meant
  sent           \* history: the requests this fetch has put on the wire

redirectVars == <<url, credentials, visited, redirects>>
fetchVars == <<exchange, home, redirectVars, forward, received, sent>>

\* A fetch that has not begun has no URL.
NoUrl == CHOOSE u \in Urls : TRUE

Nothing == [body |-> <<>>, meant |-> <<>>]

FetchInit ==
  /\ exchange = "idle"
  /\ home = NoUrl /\ url = NoUrl
  /\ credentials = FALSE /\ forward = FALSE
  /\ visited = {} /\ redirects = 0
  /\ received = Nothing /\ sent = {}

-----------------------------------------------------------------------------
\* The loop is left, and what it kept with it.
Return(result, body) ==
  /\ exchange' = result
  /\ received' = body
  /\ home' = NoUrl /\ url' = NoUrl
  /\ credentials' = FALSE /\ forward' = FALSE
  /\ visited' = {} /\ redirects' = 0
  /\ sent' = {}

\* RedirectState::new: what is not permitted is not asked for.
BeginFetch(u, credential, names) ==
  /\ exchange = "idle"
  /\ exchange' = IF ValidHeaders(credential, names) /\ u \in Trusted
                 THEN "connect" ELSE "failed"
  /\ home' = u
  /\ url' = u
  /\ credentials' = credential
  /\ forward' = TRUE
  /\ visited' = {u}
  /\ redirects' = 0
  /\ sent' = {}
  /\ UNCHANGED received

\* request_bytes: what goes over the wire to the address.
Request(address) ==
  [url |-> url, address |-> address, credential |-> credentials, headers |-> forward]

\* The DNS answer passes select_pinned_address, a proxy opens its tunnel, and
\* the request goes out.
Connect(addresses, opening) ==
  /\ exchange = "connect"
  /\ Selectable(addresses)
  /\ Proxy => TunnelOpens(opening)
  /\ exchange' = "waiting"
  /\ sent' = sent \cup {Request(PinnedAddress(addresses))}
  /\ UNCHANGED <<home, redirectVars, forward, received>>

\* An address or the tunnel is refused, or the transport gives up.
ConnectFails ==
  /\ exchange = "connect"
  /\ Return("failed", Nothing)

\* RedirectState::next accepts the target.
Permits(target) ==
  /\ redirects < MaxRedirects
  /\ target \in Trusted
  /\ target \notin visited

\* A slip: a hop to another origin goes without the credential, but with the
\* caller's headers.
FollowRedirect_KeepsHeaders(target) ==
  /\ exchange = "waiting"
  /\ \E outcome \in Outcomes : outcome.kind = "redirect"
  /\ Permits(target)
  /\ url' = target
  /\ credentials' = (credentials /\ OriginOf(target) = OriginOf(url))
  /\ visited' = visited \cup {target}
  /\ redirects' = redirects + 1
  /\ exchange' = "connect"
  /\ UNCHANGED <<home, forward, received, sent>>

FollowRedirect(target) ==
  /\ exchange = "waiting"
  /\ \E outcome \in Outcomes : outcome.kind = "redirect"
  /\ Permits(target)
  /\ url' = target
  /\ credentials' = (credentials /\ OriginOf(target) = OriginOf(url))
  /\ forward' = (forward /\ OriginOf(target) = OriginOf(url))
  /\ visited' = visited \cup {target}
  /\ redirects' = redirects + 1
  /\ exchange' = "connect"
  /\ UNCHANGED <<home, received, sent>>

\* Too many hops, a target that is not permitted or was visited, an answer that
\* is not taken.
AnswerRefused ==
  /\ exchange = "waiting"
  /\ \E outcome \in Outcomes : outcome.kind \in {"redirect", "refused"}
  /\ Return("failed", Nothing)

AnswerAccepted ==
  /\ exchange = "waiting"
  /\ \E outcome \in Outcomes :
       /\ outcome.kind = "body"
       /\ Return("ok", [body |-> outcome.body, meant |-> outcome.meant])

\* The caller takes the answer.
EndFetch ==
  /\ exchange \in {"ok", "failed"}
  /\ Return("idle", Nothing)

\* The process is gone, and the loop with it.
Abort == Return("idle", Nothing)

FetchStep ==
  \/ \E addresses \in DnsAnswers, opening \in ProxyAnswers : Connect(addresses, opening)
  \/ ConnectFails
  \/ \E target \in Urls : FollowRedirect(target)
  \/ AnswerRefused

FetchNext ==
  \/ \E u \in Urls, credential \in BOOLEAN, names \in RequestHeaders :
       BeginFetch(u, credential, names)
  \/ FetchStep
  \/ AnswerAccepted
  \/ EndFetch
  \/ Abort

-----------------------------------------------------------------------------
Requests == [url : Urls, address : UNION DnsAnswers, credential : BOOLEAN,
             headers : BOOLEAN]

FetchTypeOK ==
  /\ exchange \in {"idle", "connect", "waiting", "ok", "failed"}
  /\ home \in Urls /\ url \in Urls
  /\ credentials \in BOOLEAN /\ forward \in BOOLEAN
  /\ visited \subseteq Urls
  /\ redirects \in 0 .. MaxRedirects
  /\ sent \subseteq Requests

\* SecureHttpClient::get_with_headers (network.rs:816-865): whatever the
\* servers answer, the credential and the caller's headers are only ever sent
\* to the origin the caller asked; a chain that leaves it and comes back has
\* lost them.
SecretsStayHome ==
  \A r \in sent :
    r.credential \/ r.headers => OriginOf(r.url) = OriginOf(home)

\* RedirectState::next (network.rs:928-960): no request leaves the profile,
\* and a fetch is at most one request and MaxRedirects hops.
FetchIsBounded ==
  /\ {r.url : r \in sent} \subseteq Trusted
  /\ {r.url : r \in sent} \subseteq visited
  /\ Cardinality(visited) <= MaxRedirects + 1

\* The special-purpose blocks of IANA's IPv4 registry and the classes D and E,
\* by the ranges of the two halves of an address.
SpecialV4 ==
  {[high |-> <<0, 255>>, low |-> <<0, 65535>>],            \* 0.0.0.0/8
   [high |-> <<2560, 2815>>, low |-> <<0, 65535>>],        \* 10.0.0.0/8
   [high |-> <<25664, 25727>>, low |-> <<0, 65535>>],      \* 100.64.0.0/10
   [high |-> <<32512, 32767>>, low |-> <<0, 65535>>],      \* 127.0.0.0/8
   [high |-> <<43518, 43518>>, low |-> <<0, 65535>>],      \* 169.254.0.0/16
   [high |-> <<44048, 44063>>, low |-> <<0, 65535>>],      \* 172.16.0.0/12
   [high |-> <<49152, 49152>>, low |-> <<0, 255>>],        \* 192.0.0.0/24
   [high |-> <<49152, 49152>>, low |-> <<512, 767>>],      \* 192.0.2.0/24
   [high |-> <<49240, 49240>>, low |-> <<25344, 25599>>],  \* 192.88.99.0/24
   [high |-> <<49320, 49320>>, low |-> <<0, 65535>>],      \* 192.168.0.0/16
   [high |-> <<50706, 50707>>, low |-> <<0, 65535>>],      \* 198.18.0.0/15
   [high |-> <<50739, 50739>>, low |-> <<25600, 25855>>],  \* 198.51.100.0/24
   [high |-> <<51968, 51968>>, low |-> <<28928, 29183>>],  \* 203.0.113.0/24
   [high |-> <<57344, 65535>>, low |-> <<0, 65535>>]}      \* 224.0.0.0/3

Within(n, bounds) == bounds[1] <= n /\ n <= bounds[2]

GlobalV4(high, low) ==
  \A block \in SpecialV4 : ~Within(high, block.high) \/ ~Within(low, block.low)

\* 2000::/3 without Teredo, benchmarking, ORCHID, the documentation and 6to4;
\* an address that stands for one of IPv4 is that one.
Global(a) ==
  IF Len(a) = 4 THEN GlobalV4(256 * a[1] + a[2], 256 * a[3] + a[4])
  ELSE IF Mapped(a) THEN GlobalV4(a[7], a[8])
  ELSE /\ Within(a[1], <<8192, 16383>>)
       /\ a[1] = 8193 =>
            a[2] # 0 /\ a[2] # 3512 /\ ~Within(a[2], <<16, 31>>)
       /\ a[1] = 8193 /\ a[2] = 2 => a[3] # 0
       /\ a[1] # 8194
       /\ a[1] = 16383 => a[2] >= 4096

\* select_pinned_address: every request goes to an address of the hop's own
\* lookup that is globally reachable, as are all others of that lookup.
FetchIsConfined ==
  /\ SecretsStayHome
  /\ FetchIsBounded
  /\ \A r \in sent : Global(r.address)

\* decode_http1: a body that is accepted is the one the server meant, however
\* it was framed and wherever it was cut off.
AnswersAreWhole == exchange = "ok" => received.body = received.meant
=============================================================================
