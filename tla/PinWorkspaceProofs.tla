-------------------------- MODULE PinWorkspaceProofs --------------------------
(***************************************************************************)
(* What `resolve` and `fix` do and never do, whatever the servers answer   *)
(* and whenever they are killed: proved for every set of URLs, origins and *)
(* trusted hosts, and every set of workflow files.                         *)
(***************************************************************************)
EXTENDS PinWorkspace, FiniteSetTheorems, SequenceTheorems, TLAPS

InFlight == exchange \in {"connect", "waiting"}

\* What makes SecretsStayHome and FetchIsBounded inductive: a secret still
\* held is held at home, and what was visited is counted.
FetchInv ==
  /\ FetchTypeOK
  /\ IsFiniteSet(visited) /\ Cardinality(visited) <= redirects + 1
  /\ InFlight => url \in visited /\ visited \subseteq Trusted
  /\ credentials \/ forward => OriginOf(url) = OriginOf(home)
  /\ \A r \in sent : r.url \in visited /\ r.url \in Trusted
  /\ \A r \in sent : Global(r.address)
  /\ SecretsStayHome

LEMMA TrustedAreUrls == Trusted \subseteq Urls
BY DEF Trusted

LEMMA FetchInvHolds ==
  ASSUME FetchInit
  PROVE  FetchInv
<1>1. IsFiniteSet(visited) /\ Cardinality(visited) <= redirects + 1
  <2>1. visited = {} /\ redirects = 0
    BY DEF FetchInit
  <2>2. IsFiniteSet({}) /\ Cardinality({}) = 0
    BY FS_EmptySet
  <2> QED
    BY <2>1, <2>2
<1>2. FetchTypeOK
  <2>1. redirects \in 0 .. MaxRedirects
    BY FetchAssumption DEF FetchInit
  <2>2. /\ credentials \in BOOLEAN /\ forward \in BOOLEAN
        /\ sent \subseteq Requests /\ visited \subseteq Urls
    BY DEF FetchInit
  <2>3. NoUrl \in Urls
    BY FetchAssumption DEF NoUrl
  <2> QED
    BY <2>1, <2>2, <2>3 DEF FetchInit, FetchTypeOK
<1> QED
  BY <1>1, <1>2 DEF FetchInit, FetchInv, SecretsStayHome, InFlight

LEMMA ReturnKeepsInv ==
  ASSUME FetchInv, NEW result \in {"idle", "ok", "failed"}, NEW body, Return(result, body)
  PROVE  FetchInv'
<1>1. (IsFiniteSet(visited) /\ Cardinality(visited) <= redirects + 1)'
  <2>1. visited' = {} /\ redirects' = 0
    BY DEF Return
  <2>2. IsFiniteSet({}) /\ Cardinality({}) = 0
    BY FS_EmptySet
  <2> QED
    BY <2>1, <2>2
<1>2. FetchTypeOK'
  <2>1. (redirects \in 0 .. MaxRedirects)'
    BY FetchAssumption DEF Return
  <2>2. (/\ credentials \in BOOLEAN /\ forward \in BOOLEAN
         /\ sent \subseteq Requests /\ visited \subseteq Urls)'
    BY DEF Return
  <2>3. NoUrl \in Urls
    BY FetchAssumption DEF NoUrl
  <2> QED
    BY <2>1, <2>2, <2>3 DEF Return, FetchInv, FetchTypeOK
<1> QED
  BY <1>1, <1>2 DEF Return, FetchInv, SecretsStayHome, InFlight

LEMMA OctetBounds ==
  ASSUME NEW n \in Octets
  PROVE  n \in Int /\ n >= 0 /\ n <= 255
BY DEF Octets

\* forbidden_v4, against the registry: what it lets through is in no block.
LEMMA AllowedV4IsGlobal ==
  ASSUME NEW a \in Octets, NEW b \in Octets, NEW c \in Octets, NEW d \in Octets,
         ~ForbiddenV4(a, b, c, d),
         NEW high \in Nat, high = 256 * a + b, NEW low \in Nat, low = 256 * c + d
  PROVE  GlobalV4(high, low)
<1>0. /\ a \in Int /\ a >= 0 /\ a <= 255 /\ b \in Int /\ b >= 0 /\ b <= 255
      /\ c \in Int /\ c >= 0 /\ c <= 255 /\ d \in Int /\ d >= 0 /\ d <= 255
  BY OctetBounds
<1>1. /\ a # 0 /\ a # 10 /\ a # 127 /\ ~(a = 100 /\ b \in 64 .. 127)
      /\ ~(a = 169 /\ b = 254) /\ ~(a = 172 /\ b \in 16 .. 31)
      /\ ~(a = 192 /\ b = 0 /\ c = 0) /\ ~(a = 192 /\ b = 0 /\ c = 2)
      /\ ~(a = 192 /\ b = 88 /\ c = 99)
      /\ ~(a = 192 /\ b = 168) /\ ~(a = 198 /\ b = 18) /\ ~(a = 198 /\ b = 19)
      /\ ~(a = 198 /\ b = 51 /\ c = 100) /\ ~(a = 203 /\ b = 0 /\ c = 113)
      /\ ~(a >= 224)
  BY DEF ForbiddenV4
<1>2. high < 57344
  BY <1>0, <1>1
<1>3. high > 255
  BY <1>0, <1>1
<1>4. high < 2560 \/ high > 2815
  BY <1>0, <1>1
<1>5. high < 32512 \/ high > 32767
  BY <1>0, <1>1
<1>6. high < 25664 \/ high > 25727
  BY <1>0, <1>1
<1>7. high # 43518
  BY <1>0, <1>1
<1>8. high < 44048 \/ high > 44063
  BY <1>0, <1>1
<1>9. high # 49320
  BY <1>0, <1>1
<1>10. high # 50706 /\ high # 50707
  <2>1. high # 50706
    BY <1>0, <1>1
  <2>2. high # 50707
    BY <1>0, <1>1
  <2> QED
    BY <2>1, <2>2
<1>11. ASSUME high = 49152 PROVE low > 255 /\ (low < 512 \/ low > 767)
  <2>1. a = 192 /\ b = 0
    BY <1>0, <1>11
  <2>2. c # 0 /\ c # 2
    BY <1>1, <2>1
  <2> QED
    BY <1>0, <2>2
<1>12. ASSUME high = 49240 PROVE low < 25344 \/ low > 25599
  <2>1. a = 192 /\ b = 88
    BY <1>0, <1>12
  <2>2. c # 99
    BY <1>1, <2>1
  <2> QED
    BY <1>0, <2>2
<1>13. ASSUME high = 50739 PROVE low < 25600 \/ low > 25855
  <2>1. a = 198 /\ b = 51
    BY <1>0, <1>13
  <2>2. c # 100
    BY <1>1, <2>1
  <2> QED
    BY <1>0, <2>2
<1>14. ASSUME high = 51968 PROVE low < 28928 \/ low > 29183
  <2>1. a = 203 /\ b = 0
    BY <1>0, <1>14
  <2>2. c # 113
    BY <1>1, <2>1
  <2> QED
    BY <1>0, <2>2
<1>15. ASSUME NEW block \in SpecialV4, Within(high, block.high), Within(low, block.low)
       PROVE  FALSE
  <2> DEFINE h == block.high
             l == block.low
  <2>0. h[1] <= high /\ high <= h[2] /\ l[1] <= low /\ low <= l[2]
    BY <1>15 DEF Within
  <2>1. CASE block = [high |-> <<0, 255>>, low |-> <<0, 65535>>]
    BY <1>3, <2>0, <2>1
  <2>2. CASE block = [high |-> <<2560, 2815>>, low |-> <<0, 65535>>]
    BY <1>4, <2>0, <2>2
  <2>3. CASE block = [high |-> <<25664, 25727>>, low |-> <<0, 65535>>]
    BY <1>6, <2>0, <2>3
  <2>4. CASE block = [high |-> <<32512, 32767>>, low |-> <<0, 65535>>]
    BY <1>5, <2>0, <2>4
  <2>5. CASE block = [high |-> <<43518, 43518>>, low |-> <<0, 65535>>]
    BY <1>7, <2>0, <2>5
  <2>6. CASE block = [high |-> <<44048, 44063>>, low |-> <<0, 65535>>]
    BY <1>8, <2>0, <2>6
  <2>7. CASE block = [high |-> <<49152, 49152>>, low |-> <<0, 255>>]
    BY <1>11, <2>0, <2>7
  <2>8. CASE block = [high |-> <<49152, 49152>>, low |-> <<512, 767>>]
    BY <1>11, <2>0, <2>8
  <2>9. CASE block = [high |-> <<49240, 49240>>, low |-> <<25344, 25599>>]
    BY <1>12, <2>0, <2>9
  <2>10. CASE block = [high |-> <<49320, 49320>>, low |-> <<0, 65535>>]
    BY <1>9, <2>0, <2>10
  <2>11. CASE block = [high |-> <<50706, 50707>>, low |-> <<0, 65535>>]
    BY <1>10, <2>0, <2>11
  <2>12. CASE block = [high |-> <<50739, 50739>>, low |-> <<25600, 25855>>]
    BY <1>13, <2>0, <2>12
  <2>13. CASE block = [high |-> <<51968, 51968>>, low |-> <<28928, 29183>>]
    BY <1>14, <2>0, <2>13
  <2>14. CASE block = [high |-> <<57344, 65535>>, low |-> <<0, 65535>>]
    BY <1>2, <2>0, <2>14
  <2> QED
    BY <2>1, <2>2, <2>3, <2>4, <2>5, <2>6, <2>7, <2>8,
       <2>9, <2>10, <2>11, <2>12, <2>13, <2>14 DEF SpecialV4
<1> QED
  BY <1>15 DEF GlobalV4

LEMMA SegmentBounds ==
  ASSUME NEW n \in Segments
  PROVE  n \in Nat /\ n >= 0 /\ n <= 65535
BY DEF Segments

\* The two halves of an address of IPv4 are its octets.
LEMMA OctetsOfHalves ==
  ASSUME NEW n \in Segments
  PROVE  /\ n \div 256 \in Octets /\ n % 256 \in Octets
         /\ n = 256 * (n \div 256) + (n % 256)
<1>1. n \in Nat /\ n >= 0 /\ n <= 65535
  BY SegmentBounds
<1>2. n = 256 * (n \div 256) + (n % 256)
  BY <1>1
<1>3. n % 256 \in Octets
  BY <1>1 DEF Octets
<1>4. n \div 256 \in Octets
  BY <1>1 DEF Octets
<1> QED
  BY <1>2, <1>3, <1>4

\* What the masks of forbidden_v6 leave of the first two segments.
LEMMA AllowedSegments ==
  ASSUME NEW m \in Segments, NEW n \in Segments,
         m \div 8192 = 1, m # 8194, m \div 16 # 1023,
         m = 8193 => n # 3512 /\ n # 0 /\ n # 2 /\ n \div 16 # 1
  PROVE  /\ Within(m, <<8192, 16383>>) /\ m # 8194 /\ m # 16383
         /\ m = 8193 => n # 0 /\ n # 2 /\ n # 3512 /\ ~Within(n, <<16, 31>>)
<1>1. m \in Nat /\ n \in Nat
  BY SegmentBounds
<1>2. Within(m, <<8192, 16383>>)
  BY <1>1 DEF Within
<1>3. n \div 16 # 1 => ~Within(n, <<16, 31>>)
  BY <1>1 DEF Within
<1>4. m # 16383
  OBVIOUS
<1> QED
  BY <1>2, <1>3, <1>4

LEMMA AllowedV6IsGlobal ==
  ASSUME NEW a \in V6, ~ForbiddenV6(a)
  PROVE  IF Mapped(a) THEN GlobalV4(a[7], a[8])
         ELSE /\ Within(a[1], <<8192, 16383>>)
              /\ a[1] = 8193 => a[2] # 0 /\ a[2] # 3512 /\ ~Within(a[2], <<16, 31>>)
              /\ a[1] = 8193 /\ a[2] = 2 => a[3] # 0
              /\ a[1] # 8194
              /\ a[1] = 16383 => a[2] >= 4096
<1>1. a[1] \in Segments /\ a[2] \in Segments /\ a[7] \in Segments /\ a[8] \in Segments
  BY DEF V6
<1>2. ASSUME Mapped(a) PROVE GlobalV4(a[7], a[8])
  <2> DEFINE p == a[7] \div 256
             q == a[7] % 256
             r == a[8] \div 256
             s == a[8] % 256
  <2>1. ~ForbiddenV4(p, q, r, s)
    BY <1>2 DEF ForbiddenV6
  <2>2. a[7] \in Nat /\ a[8] \in Nat
    BY <1>1, SegmentBounds
  <2>3. /\ p \in Octets /\ q \in Octets /\ a[7] = 256 * p + q
        /\ r \in Octets /\ s \in Octets /\ a[8] = 256 * r + s
    BY <1>1, OctetsOfHalves
  <2> HIDE DEF p, q, r, s
  <2> QED
    BY <2>1, <2>2, <2>3, AllowedV4IsGlobal
<1>3. ASSUME ~Mapped(a)
      PROVE  /\ Within(a[1], <<8192, 16383>>) /\ a[1] # 8194 /\ a[1] # 16383
             /\ a[1] = 8193 => a[2] # 0 /\ a[2] # 2 /\ a[2] # 3512
                                        /\ ~Within(a[2], <<16, 31>>)
  <2>1. a[1] \div 8192 = 1 /\ a[1] # 8194 /\ a[1] \div 16 # 1023
    BY <1>3 DEF ForbiddenV6
  <2>2. a[1] = 8193 => a[2] # 3512 /\ a[2] # 0 /\ a[2] # 2 /\ a[2] \div 16 # 1
    BY <1>3 DEF ForbiddenV6
  <2> QED
    BY <1>1, <2>1, <2>2, AllowedSegments
<1> QED
  BY <1>2, <1>3

LEMMA AllowedIsGlobal ==
  ASSUME NEW a, a \in V4 \/ a \in V6, ~Forbidden(a)
  PROVE  Global(a)
<1>1. CASE a \in V4
  <2>1. /\ Len(a) = 4
        /\ a[1] \in Octets /\ a[2] \in Octets /\ a[3] \in Octets /\ a[4] \in Octets
    BY <1>1 DEF V4
  <2>2. ~ForbiddenV4(a[1], a[2], a[3], a[4])
    BY <2>1 DEF Forbidden
  <2>3. \A m, n \in Octets : 256 * m + n \in Nat
    BY DEF Octets
  <2>4. GlobalV4(256 * a[1] + a[2], 256 * a[3] + a[4])
    BY <2>1, <2>2, <2>3, AllowedV4IsGlobal
  <2> QED
    BY <2>1, <2>4 DEF Global
<1>2. CASE a \in V6
  <2>1. Len(a) = 8
    BY <1>2 DEF V6
  <2>2. ~ForbiddenV6(a)
    BY <2>1 DEF Forbidden
  <2> QED
    BY <1>2, <2>1, <2>2, AllowedV6IsGlobal DEF Global
<1> QED
  BY <1>1, <1>2

\* select_pinned_address.
LEMMA PinnedIsGlobal ==
  ASSUME NEW addresses \in DnsAnswers, Selectable(addresses)
  PROVE  /\ PinnedAddress(addresses) \in UNION DnsAnswers
         /\ Global(PinnedAddress(addresses))
<1>1. PICK a \in addresses : \A b \in addresses \ {a} : Precedes(a, b)
  BY FetchAssumption DEF Selectable
<1>2. PinnedAddress(addresses) \in addresses
  BY <1>1 DEF PinnedAddress
<1> QED
  BY <1>2, AllowedIsGlobal, FetchAssumption DEF Selectable

\* The redirect loop keeps its invariant.
LEMMA FetchInvKept ==
  ASSUME FetchInv, [FetchNext]_fetchVars
  PROVE  FetchInv'
<1> USE FetchAssumption, TrustedAreUrls
<1>1. CASE UNCHANGED fetchVars
  BY <1>1 DEF fetchVars, redirectVars, FetchInv, FetchTypeOK, SecretsStayHome,
              InFlight, Requests
<1>2. ASSUME NEW u \in Urls, NEW credential \in BOOLEAN, NEW names \in RequestHeaders,
             BeginFetch(u, credential, names)
      PROVE  FetchInv'
  <2>1. IsFiniteSet({u}) /\ Cardinality({u}) = 1
    BY FS_Singleton
  <2>2. FetchTypeOK'
    BY <1>2 DEF BeginFetch, FetchInv, FetchTypeOK, Requests
  <2>3. (InFlight => url \in visited /\ visited \subseteq Trusted)'
    BY <1>2 DEF BeginFetch, InFlight
  <2> QED
    BY <1>2, <2>1, <2>2, <2>3 DEF BeginFetch, FetchInv, SecretsStayHome
<1>3. ASSUME NEW addresses \in DnsAnswers, NEW opening, Connect(addresses, opening)
      PROVE  FetchInv'
  <2>1. url \in visited /\ visited \subseteq Trusted
    BY <1>3 DEF Connect, FetchInv, InFlight
  <2>5. /\ PinnedAddress(addresses) \in UNION DnsAnswers
        /\ Global(PinnedAddress(addresses))
    BY <1>3, PinnedIsGlobal DEF Connect
  <2>6. sent' = sent \cup {[url |-> url, address |-> PinnedAddress(addresses),
                          credential |-> credentials, headers |-> forward]}
    BY <1>3 DEF Connect, Request
  <2>2. FetchTypeOK'
    BY <1>3, <2>5, <2>6 DEF Connect, FetchInv, FetchTypeOK, redirectVars, Requests
  <2>7. (\A r \in sent : Global(r.address))'
    BY <2>5, <2>6 DEF FetchInv
  <2>3. SecretsStayHome'
    BY <1>3, <2>6 DEF Connect, FetchInv, SecretsStayHome, redirectVars
  <2>4. (\A r \in sent : r.url \in visited /\ r.url \in Trusted)'
    BY <1>3, <2>1, <2>6 DEF Connect, FetchInv, redirectVars
  <2> QED
    BY <1>3, <2>1, <2>2, <2>3, <2>4, <2>7
       DEF Connect, FetchInv, redirectVars, InFlight
<1>4. ASSUME NEW target \in Urls, FollowRedirect(target)
      PROVE  FetchInv'
  <2>1. /\ IsFiniteSet(visited')
        /\ Cardinality(visited') = Cardinality(visited) + 1
    BY <1>4, FS_AddElement DEF FollowRedirect, Permits, FetchInv
  <2>2. Cardinality(visited) \in Nat
    BY FS_CardinalityType DEF FetchInv
  <2>3. (Cardinality(visited) <= redirects + 1)'
    BY <1>4, <2>1, <2>2 DEF FollowRedirect, FetchInv, FetchTypeOK
  <2>4. FetchTypeOK'
    BY <1>4 DEF FollowRedirect, Permits, FetchInv, FetchTypeOK
  <2>5. (InFlight => url \in visited /\ visited \subseteq Trusted)'
    BY <1>4 DEF FollowRedirect, Permits, FetchInv, InFlight
  <2>6. (credentials \/ forward => OriginOf(url) = OriginOf(home))'
    BY <1>4 DEF FollowRedirect, FetchInv, FetchTypeOK
  <2>7. (\A r \in sent : r.url \in visited /\ r.url \in Trusted)'
    BY <1>4 DEF FollowRedirect, FetchInv
  <2>8. SecretsStayHome'
    BY <1>4 DEF FollowRedirect, FetchInv, SecretsStayHome
  <2>9. (\A r \in sent : Global(r.address))'
    BY <1>4 DEF FollowRedirect, FetchInv
  <2> QED
    BY <2>1, <2>3, <2>4, <2>5, <2>6, <2>7, <2>8, <2>9 DEF FetchInv
<1>5. CASE ConnectFails \/ AnswerRefused \/ AnswerAccepted \/ EndFetch \/ Abort
  BY <1>5, ReturnKeepsInv
     DEF ConnectFails, AnswerRefused, AnswerAccepted, EndFetch, Abort
<1> QED
  BY <1>1, <1>2, <1>3, <1>4, <1>5 DEF FetchNext, FetchStep

\* The two commands, the editor and the moving tags do nothing to a fetch that
\* its own loop would not do.
LEMMA WorkspaceStepIsFetchStep ==
  ASSUME [Next]_vars
  PROVE  [FetchNext]_fetchVars
<1>1. CASE UNCHANGED vars
  BY <1>1 DEF vars, resolveVars
<1>2. ASSUME NEW n \in Moving, MoveTag(n)
      PROVE  UNCHANGED fetchVars
  BY <1>2 DEF MoveTag, resolveVars
<1>3. ASSUME NEW u \in BOOLEAN, NEW n \in BOOLEAN, ResolveStart(u, n)
      PROVE  UNCHANGED fetchVars
  BY <1>3 DEF ResolveStart
<1>4. ASSUME ResolveStep
      PROVE  [FetchNext]_fetchVars
  <2>1. ASSUME NEW r \in References,
               \/ SkipLocal(r) \/ ReuseEntry(r) \/ StayOffline(r)
               \/ StartFetching(r) \/ RefuseReference(r)
               \/ LockFetched(r) \/ LockRefused(r)
        PROVE  UNCHANGED fetchVars
    BY <2>1 DEF SkipLocal, ReuseEntry, StayOffline, StartFetching,
                RefuseReference, LockFetched, LockRefused
  <2>2. ASSUME NEW r \in References,
               \/ ServerAnswers(r) \/ FetchFails(r)
               \/ GotAnswer(r) \/ NoSource(r)
        PROVE  FetchNext
    BY <2>2 DEF ServerAnswers, FetchFails, GotAnswer, NoSource, FetchNext
  <2>3. ASSUME NEW r \in References, Ask(r)
        PROVE  FetchNext
    <3>4. HeadersOf(r) \in RequestHeaders
      BY DEF HeadersOf, RequestHeaders
    <3> DEFINE u == UrlOf[KindOf[r.name]][resolve]
    <3>1. u \in Urls
      BY <2>3, ResolveAssumption DEF Ask, References
    <3>2. Carries(r, u) \in BOOLEAN
      BY DEF Carries
    <3>3. BeginFetch(u, Carries(r, u), HeadersOf(r))
      BY <2>3 DEF Ask
    <3> QED
      BY <3>1, <3>2, <3>3, <3>4 DEF FetchNext
  <2>4. CASE ExchangeStep
    BY <2>4 DEF ExchangeStep, FetchNext
  <2>5. CASE ReadLock \/ \E f \in Files : ReadSource(f)
    BY <2>5 DEF ReadLock, ReadSource
  <2>6. CASE KeepLock \/ CreateLock \/ WriteLock \/ ReplaceLock
             \/ LockWriteFails
    BY <2>6 DEF KeepLock, CreateLock, WriteLock, ReplaceLock, LockWriteFails,
                EndWith
  <2> QED
    BY <1>4, <2>1, <2>2, <2>3, <2>4, <2>5, <2>6 DEF ResolveStep
<1>5. CASE ResolveKilled
  BY <1>5 DEF ResolveKilled, FetchNext
<1>6. ASSUME UNCHANGED <<remote, resolveVars, edits>>
      PROVE  UNCHANGED fetchVars
  BY <1>6 DEF resolveVars
<1>7. ASSUME NEW f \in Files, NEW text \in Drafts, Edit(f, text)
      PROVE  UNCHANGED fetchVars
  BY <1>7 DEF Edit, resolveVars
<1> QED
  BY <1>1, <1>2, <1>3, <1>4, <1>5, <1>6, <1>7
     DEF Next, Resolving, Fixing

THEOREM FetchInvariant == Spec => []FetchInv
<1>1. Init => FetchInv
  BY FetchInvHolds DEF Init, ResolveInit
<1>2. FetchInv /\ [Next]_vars => FetchInv'
  BY WorkspaceStepIsFetchStep, FetchInvKept
<1> QED
  BY <1>1, <1>2, PTL DEF Spec

\* SecureHttpClient::get_with_headers, over any chain of redirects: credential
\* and headers are sent to the origin the caller asked, and nowhere else.
THEOREM SecretsNeverLeave == Spec => []SecretsStayHome
<1>1. FetchInv => SecretsStayHome
  BY DEF FetchInv
<1> QED
  BY <1>1, FetchInvariant, PTL

\* RedirectState::next: a fetch asks trusted hosts only, and ends.
THEOREM FetchesAreBounded == Spec => []FetchIsBounded
<1>1. FetchInv => FetchIsBounded
  <2> SUFFICES ASSUME FetchInv PROVE FetchIsBounded
    OBVIOUS
  <2>1. Cardinality(visited) \in Nat
    BY FS_CardinalityType DEF FetchInv
  <2>2. Cardinality(visited) <= MaxRedirects + 1
    BY <2>1, FetchAssumption DEF FetchInv, FetchTypeOK
  <2> QED
    BY <2>2 DEF FetchInv, FetchIsBounded
<1> QED
  BY <1>1, FetchInvariant, PTL

\* select_pinned_address: every request goes to an address that is in no
\* special-purpose block.
THEOREM RequestsGoOutside == Spec => [](\A r \in sent : Global(r.address))
<1>1. FetchInv => \A r \in sent : Global(r.address)
  BY DEF FetchInv
<1> QED
  BY <1>1, FetchInvariant, PTL

\* A fetch is confined in all these ways at once.
THEOREM FetchesAreConfined == Spec => []FetchIsConfined
<1>1. SecretsStayHome /\ FetchIsBounded /\ (\A r \in sent : Global(r.address))
        => FetchIsConfined
  BY DEF FetchIsConfined
<1> QED
  BY <1>1, SecretsNeverLeave, FetchesAreBounded, RequestsGoOutside, PTL

-----------------------------------------------------------------------------
(***************************************************************************)
(* decode_http1: a body that is accepted is the one the server meant.      *)
(***************************************************************************)

\* The lemma about recursion over a size; the constants of graphs play no part.
Growth == INSTANCE GraphProofs WITH StringLimit <- 1, Atom <- {}

\* What the chunks of a body from a place on hold, by decode_chunked.
Tokens == {"byte", "size", "end"} \X Nat
Places(wire) == 1 .. Len(wire) + 1
ChunksFrom(wire, from, at) ==
  IF at + 1 > Len(wire) \/ wire[at][1] # "size" \/ wire[at + 1] # LineEnd THEN {}
  ELSE LET n == wire[at][2]
           end == at + 2 + n
       IN  IF n = 0
           THEN IF SubSeq(wire, end, Len(wire)) = <<LineEnd>> THEN {<<>>} ELSE {}
           ELSE IF end > Len(wire) \/ wire[end] # LineEnd THEN {}
           ELSE {SubSeq(wire, at + 2, end - 1) \o rest : rest \in from[end + 1]}
\* from[at] is what the chunks from there on hold, as decode_chunked finds it.
IsDecoding(wire, from) == \A at \in Places(wire) : from[at] = ChunksFrom(wire, from, at)

\* The recursion of decode_chunked ends: every chunk read leaves less to read.
LEMMA ChunksAreDecoded ==
  ASSUME NEW answer, answer.body \in Seq(Tokens)
  PROVE  \E from : /\ IsDecoding(answer.body, from)
                   /\ DecodeChunked(answer) = {body \in from[1] : Len(body) <= MaxBody}
<1> DEFINE wire == answer.body
           D == Places(wire)
           V == SUBSET Seq(Tokens)
           size == [at \in D |-> Len(wire) + 1 - at]
           next == [p \in [D -> V] \X D |-> ChunksFrom(wire, p[1], p[2])]
           Step(f) == [at \in D |-> ChunksFrom(wire, f, at)]
           from == CHOOSE f : f = Step(f)
<1>1. wire \in Seq(Tokens) /\ Len(wire) \in Nat /\ \A i \in 1 .. Len(wire) : wire[i] \in Tokens
  OBVIOUS
<1> HIDE DEF wire
<1>2. \A at \in D : at \in Int /\ 1 <= at /\ at <= Len(wire) + 1
  BY <1>1 DEF Places
<1>3. ASSUME NEW at \in D, at + 1 <= Len(wire)
      PROVE  wire[at][2] \in Nat
  BY <1>1, <1>2, <1>3 DEF Tokens
<1>4. ASSUME NEW f \in [D -> V], NEW at \in D
      PROVE  ChunksFrom(wire, f, at) \in V
  <2> DEFINE n == wire[at][2]
             end == at + 2 + n
  <2>1. CASE at + 1 > Len(wire) \/ wire[at][1] # "size" \/ wire[at + 1] # LineEnd
    BY <2>1 DEF ChunksFrom
  <2>2. CASE ~(at + 1 > Len(wire) \/ wire[at][1] # "size" \/ wire[at + 1] # LineEnd)
    <3>1. n \in Nat /\ end \in Int /\ at \in Int /\ 1 <= at
      BY <1>1, <1>2, <1>3, <2>2
    <3>2. CASE n = 0
      BY <2>2, <3>2 DEF ChunksFrom
    <3>3. CASE n # 0 /\ (end > Len(wire) \/ wire[end] # LineEnd)
      BY <2>2, <3>3 DEF ChunksFrom
    <3>4. CASE n # 0 /\ ~(end > Len(wire) \/ wire[end] # LineEnd)
      <4>1. ChunksFrom(wire, f, at) = {SubSeq(wire, at + 2, end - 1) \o rest : rest \in f[end + 1]}
        BY <2>2, <3>4 DEF ChunksFrom
      <4>2. end + 1 \in D
        BY <1>1, <3>1, <3>4 DEF Places
      <4> HIDE DEF n, end
      <4>3. SubSeq(wire, at + 2, end - 1) \in Seq(Tokens)
        <5>1. at + 2 \in 1 .. Len(wire) + 1 /\ end - 1 \in Nat /\ end - 1 <= Len(wire)
          BY <1>1, <3>1, <3>4 DEF end
        <5> QED BY <1>1, <3>1, <5>1
      <4>4. f[end + 1] \in V
        BY <4>2
      <4> DEFINE part == SubSeq(wire, at + 2, end - 1)
                 rests == f[end + 1]
      <4>5. part \in Seq(Tokens) /\ rests \in SUBSET Seq(Tokens)
        BY <4>3, <4>4
      <4>6. ChunksFrom(wire, f, at) = {part \o rest : rest \in rests}
        BY <4>1
      <4> HIDE DEF D, part, rests
      <4>7. \A rest \in rests : part \o rest \in Seq(Tokens)
        BY <4>5
      <4> QED BY <4>6, <4>7
    <3> QED BY <3>2, <3>3, <3>4
  <2> QED BY <2>1, <2>2
<1>5. ASSUME NEW f \in [D -> V], NEW h \in [D -> V], NEW at \in D,
             \A y \in D : size[y] < size[at] => f[y] = h[y]
      PROVE  ChunksFrom(wire, f, at) = ChunksFrom(wire, h, at)
  <2> DEFINE n == wire[at][2]
             end == at + 2 + n
  <2>1. CASE at + 1 > Len(wire)
    BY <2>1 DEF ChunksFrom
  <2>2. CASE at + 1 <= Len(wire) /\ n # 0 /\ end <= Len(wire)
    <3>1. n \in Nat /\ n > 0 /\ at \in Int /\ 1 <= at
      BY <1>2, <1>3, <2>2
    <3>2. end + 1 \in D /\ size[end + 1] < size[at]
      BY <1>1, <2>2, <3>1 DEF Places
    <3>3. f[end + 1] = h[end + 1]
      BY <1>5, <3>2
    <3> QED BY <3>3 DEF ChunksFrom
  <2>3. CASE at + 1 <= Len(wire) /\ (n = 0 \/ ~(end <= Len(wire)))
    <3>1. n \in Nat /\ at \in Int /\ end \in Int
      BY <1>2, <1>3, <2>3
    <3> QED BY <1>1, <2>3, <3>1 DEF ChunksFrom
  <2> QED BY <1>1, <1>2, <2>1, <2>2, <2>3
<1>6. Growth!Recursion(D, V, size, Len(wire), next)
  <2>1. V # {} /\ size \in [D -> Nat] /\ Len(wire) \in Nat /\ \A x \in D : size[x] <= Len(wire)
    BY <1>1, <1>2
  <2> HIDE DEF size, D, V
  <2>2. next \in [[D -> V] \X D -> V]
    BY <1>4
  <2>3. \A f, h \in [D -> V] : \A x \in D :
           (\A y \in D : size[y] < size[x] => f[y] = h[y]) => next[<<f, x>>] = next[<<h, x>>]
    BY <1>5
  <2> QED BY <2>1, <2>2, <2>3 DEF Growth!Recursion
<1> HIDE DEF size, D, V
<1>7. PICK f \in [D -> V] : \A x \in D : f[x] = next[<<f, x>>]
  <2> HIDE DEF next
  <2> QED BY <1>6, Growth!RecursionExists
<1>8. f = Step(f)
  <2>1. \A x \in D : f[x] = ChunksFrom(wire, f, x)
    BY <1>7
  <2> QED BY <2>1
<1>9. from = Step(from)
  <2> HIDE DEF Step
  <2> QED BY <1>8
<1>10. DecodeChunked(answer) = {body \in from[1] : Len(body) <= MaxBody}
  BY DEF DecodeChunked, ChunksFrom, wire, D, Places
<1> HIDE DEF from
<1>11. \A at \in D : from[at] = ChunksFrom(wire, from, at)
  BY <1>9
<1> QED BY <1>10, <1>11 DEF IsDecoding, D, wire

\* A chunk of the body on the wire, and a wire that was cut off or goes on.
HasChunk(wire, at, part) ==
  /\ part \in Seq(Tokens) /\ at \in Nat /\ at >= 1 /\ at + 2 + Len(part) <= Len(wire)
  /\ wire[at] = Size(Len(part))
  /\ \A i \in 1 .. Len(part) : wire[at + 1 + i] = part[i]
CutOf(cut, wire) ==
  /\ cut \in Seq(Tokens) /\ wire \in Seq(Tokens)
  /\ \A i \in 1 .. Len(wire) : i <= Len(cut) => cut[i] = wire[i]

ReadOn(cut, from, body, part, next) ==
  next <= Len(cut) + 1 /\ \E rest \in from[next] : body = part \o rest

\* A chunk that is not empty is read whole, or refused.
LEMMA ReadChunk ==
  ASSUME NEW wire, NEW cut, CutOf(cut, wire), NEW from, IsDecoding(cut, from),
         NEW part, NEW at, HasChunk(wire, at, part), part # <<>>, at <= Len(cut) + 1,
         NEW body, body \in from[at], NEW next, next = at + Len(part) + 3
  PROVE  ReadOn(cut, from, body, part, next)
<1> DEFINE n == Len(part)
           end == at + 2 + n
           read == SubSeq(cut, at + 2, end - 1)
<1>1. /\ Len(cut) \in Nat /\ Len(wire) \in Nat /\ n \in Nat /\ n # 0 /\ at \in Nat /\ at >= 1
      /\ end <= Len(wire)
  BY DEF HasChunk, CutOf
<1>2. body \in ChunksFrom(cut, from, at)
  BY <1>1 DEF IsDecoding, Places
<1>3. at + 1 <= Len(cut)
  <2>1. ~(at + 1 > Len(cut))
    <3>1. ASSUME at + 1 > Len(cut) PROVE ChunksFrom(cut, from, at) = {}
      BY <3>1 DEF ChunksFrom
    <3> QED BY <1>2, <3>1
  <2> QED BY <1>1, <2>1
<1>4. cut[at] = Size(n)
  <2>1. wire[at] = Size(n)
    BY DEF HasChunk
  <2>2. at \in 1 .. Len(wire) /\ at <= Len(cut)
    BY <1>1, <1>3
  <2>3. cut[at] = wire[at]
    BY <2>2 DEF CutOf
  <2> QED BY <2>1, <2>3
<1>5. cut[at][2] = n
  BY <1>4 DEF Size
<1> HIDE DEF n
<1>6. end <= Len(cut) /\ \E rest \in from[end + 1] : body = read \o rest
  <2> DEFINE m == cut[at][2]
             stop == at + 2 + m
  <2>1. CASE m = 0 \/ stop > Len(cut) \/ cut[stop] # LineEnd
    <3>1. stop > Len(cut) \/ cut[stop] # LineEnd
      BY <1>1, <1>5, <2>1
    <3>2. m # 0
      BY <1>1, <1>5
    <3> QED BY <1>2, <3>1, <3>2 DEF ChunksFrom
  <2>2. CASE m # 0 /\ ~(stop > Len(cut) \/ cut[stop] # LineEnd)
    <3>1. body \in {SubSeq(cut, at + 2, stop - 1) \o rest : rest \in from[stop + 1]}
      BY <1>2, <2>2 DEF ChunksFrom
    <3>2. stop = end
      BY <1>5
    <3>3. end <= Len(cut)
      BY <1>1, <2>2, <3>2
    <3> HIDE DEF stop, m, end
    <3> QED BY <3>1, <3>2, <3>3
  <2> QED BY <2>1, <2>2
<1>7. ASSUME NEW i \in 1 .. n PROVE cut[at + 1 + i] = part[i]
  <2>1. at + 1 + i \in 1 .. Len(wire) /\ at + 1 + i <= Len(cut)
    <3>1. end <= Len(cut)
      BY <1>6
    <3> QED BY <1>1, <3>1
  <2>2. wire[at + 1 + i] = part[i]
    <3>1. \A j \in 1 .. n : wire[at + 1 + j] = part[j]
      BY DEF HasChunk, n
    <3> QED BY <3>1
  <2> QED BY <2>1, <2>2 DEF CutOf
<1>8. read = part
  <2>1. at + 2 \in 1 .. Len(cut) + 1 /\ end - 1 \in Nat /\ end - 1 <= Len(cut) /\ end - 1 >= at + 1
    BY <1>1, <1>6
  <2>2. Len(read) = n /\ \A i \in 1 .. n : read[i] = cut[at + 1 + i]
    BY <1>1, <2>1 DEF CutOf
  <2>3. read \in Seq(Tokens) /\ part \in Seq(Tokens) /\ Len(part) = n
    BY <1>1, <2>1 DEF CutOf, HasChunk, n
  <2> HIDE DEF read
  <2> QED BY <1>7, <2>2, <2>3
<1>9. end + 1 = at + Len(part) + 3 /\ end + 1 <= Len(cut) + 1
  BY <1>1, <1>6 DEF n
<1> HIDE DEF read
<1> QED BY <1>6, <1>8, <1>9 DEF ReadOn

\* The empty chunk ends the body.
LEMMA ReadLast ==
  ASSUME NEW wire, NEW cut, CutOf(cut, wire), NEW from, IsDecoding(cut, from),
         NEW at, HasChunk(wire, at, <<>>), at <= Len(cut) + 1, NEW body, body \in from[at]
  PROVE  body = <<>>
<1>1. /\ Len(cut) \in Nat /\ Len(wire) \in Nat /\ at \in Nat /\ at >= 1 /\ at <= Len(wire)
      /\ wire[at] = Size(0)
  BY DEF HasChunk, CutOf
<1>2. body \in ChunksFrom(cut, from, at)
  BY <1>1 DEF IsDecoding, Places
<1>3. at + 1 <= Len(cut)
  BY <1>1, <1>2 DEF ChunksFrom
<1>4. cut[at] = Size(0)
  BY <1>1, <1>3 DEF CutOf
<1>5. cut[at][2] = 0
  BY <1>4 DEF Size
<1> QED BY <1>1, <1>2, <1>3, <1>5 DEF ChunksFrom

\* What is where in two lists that are joined.
IsJoin(T, r, p, q) ==
  /\ r \in Seq(T) /\ Len(r) = Len(p) + Len(q) /\ Len(p) \in Nat /\ Len(q) \in Nat
  /\ \A i \in 1 .. Len(p) : r[i] = p[i]
  /\ \A i \in 1 .. Len(q) : r[Len(p) + i] = q[i]
LEMMA Joined ==
  ASSUME NEW T, NEW p \in Seq(T), NEW q \in Seq(T)
  PROVE  IsJoin(T, p \o q, p, q)
<1>1. Len(p) \in Nat /\ Len(q) \in Nat /\ p \o q \in Seq(T) /\ Len(p \o q) = Len(p) + Len(q)
  OBVIOUS
<1>2. \A i \in 1 .. Len(p) + Len(q) : (p \o q)[i] = IF i <= Len(p) THEN p[i] ELSE q[i - Len(p)]
  OBVIOUS
<1>3. ASSUME NEW i \in 1 .. Len(p) PROVE (p \o q)[i] = p[i]
  BY <1>1, <1>2
<1>4. ASSUME NEW i \in 1 .. Len(q) PROVE (p \o q)[Len(p) + i] = q[i]
  <2>1. Len(p) + i \in 1 .. Len(p) + Len(q) /\ ~(Len(p) + i <= Len(p)) /\ (Len(p) + i) - Len(p) = i
    BY <1>1
  <2> QED BY <1>2, <2>1
<1> QED BY <1>1, <1>3, <1>4 DEF IsJoin

\* A chunk at the head of a wire, and what is behind it.
LEMMA ChunkIsThere ==
  ASSUME NEW part \in Seq(Tokens), NEW rest \in Seq(Tokens)
  PROVE  /\ Chunk(part) \o rest \in Seq(Tokens)
         /\ Len(Chunk(part) \o rest) = Len(part) + 3 + Len(rest)
         /\ HasChunk(Chunk(part) \o rest, 1, part)
         /\ \A i \in 1 .. Len(rest) : (Chunk(part) \o rest)[Len(part) + 3 + i] = rest[i]
<1> DEFINE head == <<Size(Len(part)), LineEnd>>
           tail == <<LineEnd>>
           a == head \o part
           b == a \o tail
           c == b \o rest
<1>1. /\ Len(part) \in Nat /\ Len(rest) \in Nat
      /\ head \in Seq(Tokens) /\ Len(head) = 2 /\ head[1] = Size(Len(part))
      /\ tail \in Seq(Tokens) /\ Len(tail) = 1
  <2>1. Len(part) \in Nat /\ Len(rest) \in Nat
    OBVIOUS
  <2>2. \A n \in Nat : Size(n) \in Tokens
    BY DEF Tokens, Size
  <2>3. LineEnd \in Tokens
    BY DEF Tokens, LineEnd
  <2>4. Size(Len(part)) \in Tokens
    BY <2>1, <2>2
  <2> QED BY <2>1, <2>3, <2>4
<1> HIDE DEF head, tail
<1>2. /\ a \in Seq(Tokens) /\ Len(a) = 2 + Len(part) /\ a[1] = head[1]
      /\ \A i \in 1 .. Len(part) : a[2 + i] = part[i]
  <2>1. IsJoin(Tokens, a, head, part)
    BY <1>1, Joined
  <2> HIDE DEF a
  <2> QED BY <1>1, <2>1 DEF IsJoin
<1> HIDE DEF a
<1>3. /\ b \in Seq(Tokens) /\ Len(b) = 3 + Len(part)
      /\ \A i \in 1 .. 2 + Len(part) : b[i] = a[i]
  <2>1. IsJoin(Tokens, b, a, tail)
    BY <1>1, <1>2, Joined
  <2> HIDE DEF b
  <2> QED BY <1>1, <1>2, <2>1 DEF IsJoin
<1> HIDE DEF b
<1>4. /\ c \in Seq(Tokens) /\ Len(c) = Len(part) + 3 + Len(rest)
      /\ \A i \in 1 .. 3 + Len(part) : c[i] = b[i]
      /\ \A i \in 1 .. Len(rest) : c[Len(part) + 3 + i] = rest[i]
  <2>1. IsJoin(Tokens, c, b, rest)
    BY <1>1, <1>3, Joined
  <2>2. Len(b) = Len(part) + 3
    BY <1>1, <1>3
  <2> HIDE DEF c
  <2> QED BY <1>1, <2>1, <2>2 DEF IsJoin
<1>5. Chunk(part) \o rest = c
  BY DEF Chunk, a, b, head, tail
<1> HIDE DEF c
<1>6. HasChunk(c, 1, part)
  <2>1. c[1] = Size(Len(part))
    BY <1>1, <1>2, <1>3, <1>4
  <2>2. ASSUME NEW i \in 1 .. Len(part) PROVE c[1 + 1 + i] = part[i]
    <3>1. 2 + i \in 1 .. 2 + Len(part) /\ 2 + i \in 1 .. 3 + Len(part)
      BY <1>1
    <3>2. c[2 + i] = part[i]
      <4>1. c[2 + i] = b[2 + i]
        BY <1>4, <3>1
      <4>2. b[2 + i] = a[2 + i]
        BY <1>3, <3>1
      <4>3. a[2 + i] = part[i]
        BY <1>2
      <4> QED BY <4>1, <4>2, <4>3
    <3>3. 1 + 1 + i = 2 + i
      OBVIOUS
    <3> HIDE DEF c
    <3> QED BY <3>2, <3>3
  <2> QED BY <1>1, <1>4, <2>1, <2>2 DEF HasChunk
<1> QED BY <1>4, <1>5, <1>6

\* What the rest of a wire carries the wire carries behind its first chunk.
LEMMA ChunkIsBehind ==
  ASSUME NEW part \in Seq(Tokens), NEW rest \in Seq(Tokens), NEW at, NEW other,
         HasChunk(rest, at, other)
  PROVE  HasChunk(Chunk(part) \o rest, Len(part) + 3 + at, other)
<1> DEFINE wire == Chunk(part) \o rest
           k == Len(part) + 3
<1>1. /\ Len(wire) = k + Len(rest) /\ k \in Nat /\ Len(rest) \in Nat
      /\ \A i \in 1 .. Len(rest) : wire[k + i] = rest[i]
  BY ChunkIsThere
<1> HIDE DEF wire, k
<1>2. /\ other \in Seq(Tokens) /\ Len(other) \in Nat /\ at \in Nat /\ at >= 1
      /\ at + 2 + Len(other) <= Len(rest) /\ rest[at] = Size(Len(other))
      /\ \A i \in 1 .. Len(other) : rest[at + 1 + i] = other[i]
  BY DEF HasChunk
<1>3. wire[k + at] = Size(Len(other))
  BY <1>1, <1>2
<1>4. ASSUME NEW i \in 1 .. Len(other) PROVE wire[k + at + 1 + i] = other[i]
  <2>1. at + 1 + i \in 1 .. Len(rest) /\ k + at + 1 + i = k + (at + 1 + i)
    BY <1>1, <1>2
  <2> QED BY <1>1, <1>2, <2>1
<1>5. k + at \in Nat /\ k + at >= 1 /\ k + at + 2 + Len(other) <= Len(wire)
  BY <1>1, <1>2
<1>6. HasChunk(wire, k + at, other)
  BY <1>2, <1>3, <1>4, <1>5 DEF HasChunk
<1> QED BY <1>6 DEF wire, k

\* A body of so many bytes, and the cuts of a wire.
Body(n) == [i \in 1 .. n |-> Byte(i)]

LEMMA BodiesAreTokens ==
  ASSUME NEW n \in Nat
  PROVE  Body(n) \in Seq(Tokens) /\ Len(Body(n)) = n
<1>1. \A i \in 1 .. n : Byte(i) \in Tokens
  BY DEF Tokens, Byte
<1>2. Body(n) \in [1 .. n -> Tokens]
  BY <1>1 DEF Body
<1>3. Body(n) \in Seq(Tokens)
  BY <1>2
<1>4. DOMAIN Body(n) = 1 .. n
  BY DEF Body
<1> QED BY <1>3, <1>4

\* A cut of the right length is the wire.
LEMMA CutsOf ==
  ASSUME NEW wire \in Seq(Tokens), NEW cut \in Cuts(wire)
  PROVE  /\ CutOf(cut, wire)
         /\ Len(cut) = Len(wire) => cut = wire
<1>0. Len(wire) \in Nat
  OBVIOUS
<1>1. CASE \E k \in 0 .. Len(wire) : cut = SubSeq(wire, 1, k)
  <2>1. PICK k \in 0 .. Len(wire) : cut = SubSeq(wire, 1, k)
    BY <1>1
  <2>2. \A i \in 1 .. k : wire[i] \in Tokens
    BY <1>0
  <2>3. /\ cut \in Seq(Tokens) /\ Len(cut) = IF 1 <= k THEN k - 1 + 1 ELSE 0
        /\ \A i \in 1 .. k - 1 + 1 : cut[i] = wire[1 + i - 1]
    BY <1>0, <2>1, <2>2, SubSeqProperties
  <2>4. Len(cut) = k /\ \A i \in 1 .. k : cut[i] = wire[i]
    BY <2>3
  <2>5. CutOf(cut, wire)
    BY <2>3, <2>4 DEF CutOf
  <2>6. ASSUME k = Len(wire) PROVE cut = wire
    BY <2>3, <2>4, <2>6
  <2> QED BY <2>4, <2>5, <2>6
<1>2. CASE cut = Append(wire, Byte(0))
  <2>1. Byte(0) \in Tokens
    BY DEF Tokens, Byte
  <2>2. /\ cut \in Seq(Tokens) /\ Len(cut) = Len(wire) + 1
        /\ \A i \in 1 .. Len(wire) : cut[i] = wire[i]
    BY <1>0, <1>2, <2>1
  <2> QED BY <1>0, <2>2 DEF CutOf
<1> QED BY <1>1, <1>2 DEF Cuts

\* Chunks are made of tokens.
LEMMA ChunksAreTokens ==
  /\ \A part \in Seq(Tokens) : Chunk(part) \in Seq(Tokens)
  /\ LastChunk \in Seq(Tokens) /\ HasChunk(LastChunk, 1, <<>>)
<1>1. Size(0) \in Tokens /\ LineEnd \in Tokens /\ \A n \in Nat : Size(n) \in Tokens
  BY DEF Tokens, LineEnd, Size
<1>2. ASSUME NEW part \in Seq(Tokens) PROVE Chunk(part) \in Seq(Tokens)
  <2> DEFINE head == <<Size(Len(part)), LineEnd>>
             tail == <<LineEnd>>
  <2>1. head \in Seq(Tokens) /\ tail \in Seq(Tokens)
    BY <1>1
  <2>2. Chunk(part) = head \o part \o tail
    BY DEF Chunk
  <2> HIDE DEF head, tail
  <2> QED BY <2>1, <2>2
<1>3. LastChunk \in Seq(Tokens) /\ Len(LastChunk) = 3 /\ LastChunk[1] = Size(0)
  BY <1>1 DEF LastChunk
<1>4. HasChunk(LastChunk, 1, <<>>)
  BY <1>3 DEF HasChunk
<1> QED BY <1>2, <1>3, <1>4

\* Two parts of a list make the list.
AreParts(T, s, a, b) ==
  /\ a \in Seq(T) /\ b \in Seq(T) /\ a # <<>> /\ b # <<>>
  /\ Len(a) \in Nat /\ Len(b) \in Nat /\ a \o b = s
LEMMA PartsJoin ==
  ASSUME NEW T, NEW s \in Seq(T), NEW k \in 1 .. Len(s) - 1
  PROVE  AreParts(T, s, SubSeq(s, 1, k), SubSeq(s, k + 1, Len(s)))
<1> DEFINE a == SubSeq(s, 1, k)
           b == SubSeq(s, k + 1, Len(s))
           n == Len(s)
<1>1. n \in Nat /\ k \in Nat /\ k >= 1 /\ k < n /\ \A i \in 1 .. n : s[i] \in T
  OBVIOUS
<1> HIDE DEF n
<1>2. a \in Seq(T) /\ Len(a) = k /\ \A i \in 1 .. k : a[i] = s[i]
  <2>1. /\ a \in Seq(T) /\ Len(a) = IF 1 <= k THEN k - 1 + 1 ELSE 0
        /\ \A i \in 1 .. k - 1 + 1 : a[i] = s[1 + i - 1]
    BY <1>1, SubSeqProperties
  <2> HIDE DEF a
  <2> QED BY <1>1, <2>1
<1>3. b \in Seq(T) /\ Len(b) = n - k /\ \A i \in 1 .. n - k : b[i] = s[k + i]
  <2>1. /\ b \in Seq(T) /\ Len(b) = IF k + 1 <= n THEN n - (k + 1) + 1 ELSE 0
        /\ \A i \in 1 .. n - (k + 1) + 1 : b[i] = s[k + 1 + i - 1]
    BY <1>1, SubSeqProperties DEF n
  <2> HIDE DEF b
  <2> QED BY <1>1, <2>1
<1> HIDE DEF a, b
<1>4. IsJoin(T, a \o b, a, b)
  BY <1>2, <1>3, Joined
<1> DEFINE c == a \o b
<1>5. c \in Seq(T) /\ Len(c) = n
  BY <1>1, <1>2, <1>3, <1>4 DEF IsJoin
<1>6. ASSUME NEW i \in 1 .. n PROVE c[i] = s[i]
  <2>1. CASE i <= k
    BY <1>2, <1>4, <2>1 DEF IsJoin
  <2>2. CASE i > k
    <3>1. i - k \in 1 .. n - k /\ k + (i - k) = i
      BY <1>1, <2>2
    <3>2. c[k + (i - k)] = b[i - k] /\ b[i - k] = s[k + (i - k)]
      BY <1>2, <1>3, <1>4, <3>1 DEF IsJoin
    <3> DEFINE j == k + (i - k)
    <3>3. j = i /\ c[j] = s[j]
      BY <3>1, <3>2
    <3> HIDE DEF c, j
    <3> QED BY <3>3
  <2>3. i <= k \/ i > k
    BY <1>1
  <2> HIDE DEF c
  <2> QED BY <2>1, <2>2, <2>3
<1> HIDE DEF c
<1>7. c = s
  BY <1>5, <1>6 DEF n
<1>8. a # <<>> /\ b # <<>>
  BY <1>1, <1>2, <1>3
<1>9. AreParts(T, s, a, b)
  BY <1>1, <1>2, <1>3, <1>7, <1>8 DEF AreParts, c
<1> QED BY <1>9 DEF a, b, n

\* Whatever is decoded of a body in one chunk or in two, cut off anywhere or
\* followed by more, is the body.
LEMMA ChunksAreWhole ==
  ASSUME NEW n \in Nat, NEW wire \in Chunked(Body(n)), NEW cut \in Cuts(wire),
         NEW from, IsDecoding(cut, from), NEW body \in from[1]
  PROVE  body = Body(n)
<1> DEFINE B == Body(n)
<1>1. B \in Seq(Tokens) /\ Len(B) = n
  BY BodiesAreTokens
<1>2. LastChunk \in Seq(Tokens) /\ HasChunk(LastChunk, 1, <<>>)
  BY ChunksAreTokens
<1> HIDE DEF B
<1>3. CASE wire = Chunk(B) \o LastChunk
  <2>1. HasChunk(wire, 1, B) /\ wire \in Seq(Tokens)
    BY <1>1, <1>2, <1>3, ChunkIsThere
  <2>2. CutOf(cut, wire) /\ Len(cut) \in Nat
    BY <2>1, CutsOf DEF CutOf
  <2>3. CASE B = <<>>
    BY <2>1, <2>2, <2>3, ReadLast DEF B
  <2>4. CASE B # <<>>
    <3>1. ReadOn(cut, from, body, B, Len(B) + 3 + 1)
      <4>1. 1 <= Len(cut) + 1 /\ Len(B) + 3 + 1 = 1 + Len(B) + 3
        BY <1>1, <2>2
      <4> QED BY <2>1, <2>2, <2>4, <4>1, ReadChunk
    <3>2. PICK rest \in from[Len(B) + 3 + 1] : body = B \o rest
      BY <3>1 DEF ReadOn
    <3>3. HasChunk(wire, Len(B) + 3 + 1, <<>>)
      BY <1>1, <1>2, <1>3, ChunkIsBehind
    <3>4. rest = <<>>
      <4>1. Len(B) + 3 + 1 <= Len(cut) + 1
        BY <3>1 DEF ReadOn
      <4> QED BY <2>2, <3>2, <3>3, <4>1, ReadLast
    <3>5. B \o <<>> = B
      BY <1>1
    <3> QED BY <3>2, <3>4, <3>5 DEF B
  <2> QED BY <2>3, <2>4
<1>4. CASE \E k \in 1 .. Len(B) - 1 :
             wire = Chunk(SubSeq(B, 1, k)) \o Chunk(SubSeq(B, k + 1, Len(B))) \o LastChunk
  <2>1. PICK k \in 1 .. Len(B) - 1 :
             wire = Chunk(SubSeq(B, 1, k)) \o Chunk(SubSeq(B, k + 1, Len(B))) \o LastChunk
    BY <1>4
  <2> DEFINE a == SubSeq(B, 1, k)
             b == SubSeq(B, k + 1, Len(B))
             tail == Chunk(b) \o LastChunk
  <2>2. /\ a \in Seq(Tokens) /\ b \in Seq(Tokens) /\ a # <<>> /\ b # <<>>
        /\ Len(a) \in Nat /\ Len(b) \in Nat /\ a \o b = B
    <3>1. AreParts(Tokens, B, a, b)
      BY <1>1, PartsJoin
    <3> HIDE DEF a, b
    <3> QED BY <3>1 DEF AreParts
  <2> HIDE DEF a, b
  <2>3. /\ tail \in Seq(Tokens) /\ HasChunk(tail, 1, b)
        /\ HasChunk(tail, Len(b) + 3 + 1, <<>>)
    BY <1>2, <2>2, ChunkIsThere, ChunkIsBehind
  <2>4. wire = Chunk(a) \o tail
    <3>1. Chunk(a) \in Seq(Tokens) /\ Chunk(b) \in Seq(Tokens)
      BY <2>2, ChunksAreTokens
    <3> QED BY <1>2, <2>1, <3>1, ConcatAssociative DEF a, b
  <2> HIDE DEF tail
  <2>5. /\ wire \in Seq(Tokens) /\ HasChunk(wire, 1, a)
        /\ HasChunk(wire, Len(a) + 3 + 1, b)
        /\ HasChunk(wire, Len(a) + 3 + (Len(b) + 3 + 1), <<>>)
    BY <2>2, <2>3, <2>4, ChunkIsThere, ChunkIsBehind
  <2>6. CutOf(cut, wire) /\ Len(cut) \in Nat
    BY <2>5, CutsOf DEF CutOf
  <2> DEFINE second == Len(a) + 3 + 1
             third == Len(a) + 3 + (Len(b) + 3 + 1)
  <2>7. /\ 1 <= Len(cut) + 1 /\ second = 1 + Len(a) + 3
        /\ third = second + Len(b) + 3
    BY <2>2, <2>6
  <2> HIDE DEF second, third
  <2>8. HasChunk(wire, second, b) /\ HasChunk(wire, third, <<>>)
    BY <2>5 DEF second, third
  <2>9. ReadOn(cut, from, body, a, second)
    BY <2>2, <2>5, <2>6, <2>7, ReadChunk
  <2>10. PICK y \in from[second] : body = a \o y
    BY <2>9 DEF ReadOn
  <2>11. ReadOn(cut, from, y, b, third)
    <3>1. second <= Len(cut) + 1
      BY <2>9 DEF ReadOn
    <3> QED BY <2>2, <2>6, <2>7, <2>8, <2>10, <3>1, ReadChunk
  <2>12. PICK z \in from[third] : y = b \o z
    BY <2>11 DEF ReadOn
  <2>13. z = <<>>
    <3>1. third <= Len(cut) + 1
      BY <2>11 DEF ReadOn
    <3> QED BY <2>6, <2>8, <2>12, <3>1, ReadLast
  <2>14. b \o <<>> = b
    BY <2>2
  <2> QED BY <2>2, <2>10, <2>12, <2>13, <2>14 DEF B
<1> QED BY <1>3, <1>4 DEF Chunked, B

\* So is a body in chunks.
LEMMA ChunkedIsTokens ==
  ASSUME NEW n \in Nat, NEW wire \in Chunked(Body(n))
  PROVE  wire \in Seq(Tokens)
<1> DEFINE B == Body(n)
<1>1. B \in Seq(Tokens) /\ Len(B) \in Nat
  BY BodiesAreTokens
<1>2. LastChunk \in Seq(Tokens) /\ \A part \in Seq(Tokens) : Chunk(part) \in Seq(Tokens)
  BY ChunksAreTokens
<1> HIDE DEF B
<1>3. CASE wire = Chunk(B) \o LastChunk
  BY <1>1, <1>2, <1>3
<1>4. CASE \E k \in 1 .. Len(B) - 1 :
             wire = Chunk(SubSeq(B, 1, k)) \o Chunk(SubSeq(B, k + 1, Len(B))) \o LastChunk
  <2>1. PICK k \in 1 .. Len(B) - 1 :
             wire = Chunk(SubSeq(B, 1, k)) \o Chunk(SubSeq(B, k + 1, Len(B))) \o LastChunk
    BY <1>4
  <2> DEFINE a == SubSeq(B, 1, k)
             b == SubSeq(B, k + 1, Len(B))
  <2>2. AreParts(Tokens, B, a, b)
    BY <1>1, PartsJoin
  <2> HIDE DEF a, b
  <2>3. a \in Seq(Tokens) /\ b \in Seq(Tokens)
    BY <2>2 DEF AreParts
  <2>4. Chunk(a) \in Seq(Tokens) /\ Chunk(b) \in Seq(Tokens)
    BY <1>2, <2>3
  <2>5. wire = Chunk(a) \o Chunk(b) \o LastChunk
    BY <2>1 DEF a, b
  <2> QED BY <1>2, <2>4, <2>5
<1> QED BY <1>3, <1>4 DEF Chunked, B

\* The first header of an answer is what its frame says.
LEMMA FrameHeads ==
  ASSUME NEW h, NEW extra, extra = <<>> \/ \E e \in Extras : extra = <<e>>
  PROVE  1 \in DOMAIN (<<h>> \o extra) /\ (<<h>> \o extra)[1] = h
<1> DEFINE T == {h} \cup Extras
           p == <<h>>
<1>1. p \in Seq(T) /\ Len(p) = 1 /\ p[1] = h
  OBVIOUS
<1>2. extra \in Seq(T)
  <2> HIDE DEF T
  <2>1. CASE extra = <<>>
    BY <2>1
  <2>2. CASE \E e \in Extras : extra = <<e>>
    <3>1. PICK e \in Extras : extra = <<e>>
      BY <2>2
    <3>2. e \in T
      BY DEF T
    <3> QED BY <3>1, <3>2
  <2> QED BY <2>1, <2>2
<1> HIDE DEF T, p
<1>3. IsJoin(T, p \o extra, p, extra)
  BY <1>1, <1>2, Joined
<1> DEFINE r == p \o extra
<1>4. r \in Seq(T) /\ Len(r) = 1 + Len(extra) /\ Len(extra) \in Nat /\ r[1] = p[1]
  BY <1>1, <1>3 DEF IsJoin
<1> HIDE DEF r
<1>5. 1 \in DOMAIN r
  BY <1>4
<1> QED BY <1>1, <1>4, <1>5 DEF r, p

\* A header that is there once has one value.
LEMMA OneValue ==
  ASSUME NEW headers, NEW name, NEW value,
         NEW i \in DOMAIN headers, headers[i][1] = name, headers[i][2] = value,
         \A k, j \in DOMAIN headers : headers[k][1] = headers[j][1] => k = j
  PROVE  Has(headers, name) /\ Value(headers, name) = value
<1> DEFINE c == CHOOSE j \in DOMAIN headers : headers[j][1] = name
<1>1. c \in DOMAIN headers /\ headers[c][1] = name
  OBVIOUS
<1>2. c = i
  BY <1>1
<1> QED BY <1>2 DEF Has, Value

\* Whatever decode_http1 makes of an answer is the body the server meant.
IsWhole(answer) == \A body \in Decoded(answer) : body = answer.meant
Framing(n, frame) ==
  \/ frame = [headers |-> <<>>, body |-> Body(n)]
  \/ frame.headers = << <<"content-length", n>> >> /\ frame.body \in Cuts(Body(n))
  \/ /\ frame.headers = << <<"transfer-encoding", "chunked">> >>
     /\ \E wire \in Chunked(Body(n)) : frame.body \in Cuts(wire)
Extends(extra) == extra = <<>> \/ \E e \in Extras : extra = <<e>>
IsFramed(answer, n, frame, extra) ==
  /\ Framing(n, frame) /\ Extends(extra)
  /\ answer.headers = frame.headers \o extra
  /\ answer.body = frame.body /\ answer.meant = Body(n)

\* The frames of a body.
LEMMA FramesOf ==
  ASSUME NEW n \in Nat, NEW frame \in Framed(Body(n))
  PROVE  Framing(n, frame)
<1>1. Len(Body(n)) = n
  BY BodiesAreTokens
<1> DEFINE B == Body(n)
<1> HIDE DEF B
<1>2. CASE frame = [headers |-> <<>>, body |-> B]
  BY <1>2 DEF Framing, B
<1>3. CASE frame \in [headers : {<< <<"content-length", Len(B)>> >>}, body : Cuts(B)]
  <2>1. frame.headers = << <<"content-length", Len(B)>> >> /\ frame.body \in Cuts(B)
    BY <1>3
  <2>2. Len(B) = n
    BY <1>1 DEF B
  <2> QED BY <2>1, <2>2 DEF Framing, B
<1>4. CASE frame \in [headers : {<< <<"transfer-encoding", "chunked">> >>},
                      body : UNION {Cuts(wire) : wire \in Chunked(B)}]
  <2>1. /\ frame.headers = << <<"transfer-encoding", "chunked">> >>
        /\ frame.body \in UNION {Cuts(wire) : wire \in Chunked(B)}
    BY <1>4
  <2>2. \E wire \in Chunked(B) : frame.body \in Cuts(wire)
    BY <2>1
  <2> QED BY <2>1, <2>2 DEF Framing, B
<1> QED BY <1>2, <1>3, <1>4 DEF Framed, B

\* An answer is a frame with one header more, or none.
LEMMA AnswerOf ==
  ASSUME NEW answer \in WireAnswers
  PROVE  \E n \in Nat : \E frame, extra : IsFramed(answer, n, frame, extra)
<1> DEFINE Made(head, status, frame, extra, bytes) ==
             [head |-> head, status |-> status, headers |-> frame.headers \o extra,
              body |-> frame.body, meant |-> bytes]
           OfBytes(bytes) ==
             {Made(head, status, frame, extra, bytes) :
                head \in {"whole", "incomplete", "malformed"}, status \in {200, 302, 404},
                frame \in Framed(bytes), extra \in {<<>>} \cup {<<e>> : e \in Extras}}
           Bodies == {[i \in 1 .. n |-> Byte(i)] : n \in {MaxBody, MaxBody + 1}}
<1>1. PICK bytes \in Bodies : answer \in OfBytes(bytes)
  <2>1. WireAnswers = UNION {OfBytes(bytes) : bytes \in Bodies}
    BY SMT DEF WireAnswers
  <2> HIDE DEF OfBytes, Bodies
  <2> QED BY <2>1
<1>2. PICK n \in {MaxBody, MaxBody + 1} : bytes = Body(n)
  BY DEF Body
<1> HIDE DEF Made
<1>3. PICK frame \in Framed(bytes), extra \in {<<>>} \cup {<<e>> : e \in Extras} :
         \E head, status : answer = Made(head, status, frame, extra, bytes)
  BY <1>1, SMT
<1>4. PICK head, status : answer = Made(head, status, frame, extra, bytes)
  BY <1>3
<1>5. /\ answer.headers = frame.headers \o extra
      /\ answer.body = frame.body /\ answer.meant = bytes
  BY <1>4 DEF Made
<1>6. n \in Nat
  BY FetchAssumption
<1>7. Framing(n, frame)
  BY <1>2, <1>6, FramesOf
<1>8. Extends(extra)
  BY DEF Extends
<1> QED BY <1>2, <1>5, <1>6, <1>7, <1>8 DEF IsFramed

\* By the frame: the length that is stated, or the chunks, tell a cut.
LEMMA AcceptedIsMeant ==
  ASSUME NEW answer \in WireAnswers
  PROVE  IsWhole(answer)
<1> SUFFICES ASSUME NEW body \in Decoded(answer) PROVE body = answer.meant
  BY DEF IsWhole
<1>n. PICK n \in Nat : \E frame, extra : IsFramed(answer, n, frame, extra)
  BY AnswerOf
<1>f. PICK frame, extra : IsFramed(answer, n, frame, extra)
  BY <1>n
<1>1. /\ Framing(n, frame) /\ Extends(extra)
      /\ answer.headers = frame.headers \o extra
      /\ answer.body = frame.body /\ answer.meant = Body(n)
  BY <1>f DEF IsFramed
<1> DEFINE headers == answer.headers
           coded == Has(headers, "transfer-encoding")
<1>2. /\ \A i, j \in DOMAIN headers : headers[i][1] = headers[j][1] => i = j
      /\ ~(coded /\ Has(headers, "content-length"))
      /\ ~coded => body \in DecodeFixed(answer)
      /\ coded => /\ Value(headers, "transfer-encoding") = "chunked"
                  /\ body \in DecodeChunked(answer)
  BY DEF Decoded, HeadDecodes
<1>3. CASE frame = [headers |-> <<>>, body |-> Body(n)]
  <2>1. headers = extra
    <3>1. frame.headers = <<>>
      BY <1>3
    <3>2. <<>> \o extra = extra
      BY <1>1 DEF Extends
    <3> QED BY <1>1, <3>1, <3>2
  <2>2. ~coded
    <3> SUFFICES ASSUME coded PROVE FALSE
      OBVIOUS
    <3>1. PICK i \in DOMAIN extra : extra[i][1] = "transfer-encoding"
      BY <2>1 DEF Has
    <3>2. PICK e \in Extras : extra = <<e>>
      BY <1>1, <3>1 DEF Extends
    <3>3. extra[i] = e
      BY <3>1, <3>2
    <3>4. e[1] = "transfer-encoding" /\ e[2] = "gzip"
      BY <3>1, <3>3 DEF Extras
    <3>5. Value(headers, "transfer-encoding") = "gzip"
      <4>1. i \in DOMAIN headers /\ headers[i][1] = "transfer-encoding" /\ headers[i][2] = "gzip"
        BY <2>1, <3>1, <3>3, <3>4
      <4> HIDE DEF headers
      <4> QED BY <1>2, <4>1, OneValue
    <3> QED BY <1>2, <3>5
  <2>3. body = answer.body
    BY <1>2, <2>2 DEF DecodeFixed
  <2> QED BY <1>1, <1>3, <2>3
<1>4. CASE frame.headers = << <<"content-length", n>> >> /\ frame.body \in Cuts(Body(n))
  <2> DEFINE h == <<"content-length", n>>
  <2>1. 1 \in DOMAIN headers /\ headers[1] = h
    <3> HIDE DEF h
    <3>1. headers = <<h>> \o extra
      BY <1>1, <1>4 DEF h
    <3>2. extra = <<>> \/ \E e \in Extras : extra = <<e>>
      BY <1>1 DEF Extends
    <3> QED BY <3>1, <3>2, FrameHeads
  <2>2. h[1] = "content-length" /\ h[2] = n
    OBVIOUS
  <2>3. Has(headers, "content-length") /\ Value(headers, "content-length") = n
    <3> HIDE DEF headers, h
    <3> QED BY <1>2, <2>1, <2>2, OneValue
  <2>4. body = answer.body /\ Len(body) = n
    BY <1>2, <2>3 DEF DecodeFixed
  <2>5. Body(n) \in Seq(Tokens) /\ Len(Body(n)) = n
    BY BodiesAreTokens
  <2>6. body \in Cuts(Body(n))
    BY <1>1, <1>4, <2>4
  <2>7. body = Body(n)
    BY <2>4, <2>5, <2>6, CutsOf
  <2> QED BY <1>1, <2>7
<1>5. CASE /\ frame.headers = << <<"transfer-encoding", "chunked">> >>
           /\ \E wire \in Chunked(Body(n)) : frame.body \in Cuts(wire)
  <2> DEFINE h == <<"transfer-encoding", "chunked">>
  <2>1. 1 \in DOMAIN headers /\ headers[1] = h
    <3> HIDE DEF h
    <3>1. headers = <<h>> \o extra
      BY <1>1, <1>5 DEF h
    <3>2. extra = <<>> \/ \E e \in Extras : extra = <<e>>
      BY <1>1 DEF Extends
    <3> QED BY <3>1, <3>2, FrameHeads
  <2>2. h[1] = "transfer-encoding"
    OBVIOUS
  <2>3. coded
    BY <2>1, <2>2 DEF Has
  <2>4. body \in DecodeChunked(answer)
    BY <1>2, <2>3
  <2>5. PICK wire \in Chunked(Body(n)) : frame.body \in Cuts(wire)
    BY <1>5
  <2> DEFINE cut == answer.body
  <2>6. cut \in Cuts(wire)
    BY <1>1, <2>5
  <2>7. wire \in Seq(Tokens)
    BY ChunkedIsTokens
  <2>8. cut \in Seq(Tokens)
    BY <2>6, <2>7, CutsOf DEF CutOf
  <2>9. PICK from : /\ IsDecoding(cut, from)
                    /\ DecodeChunked(answer) = {b \in from[1] : Len(b) <= MaxBody}
    BY <2>8, ChunksAreDecoded
  <2>10. body \in from[1]
    BY <2>4, <2>9
  <2> HIDE DEF cut
  <2>11. body = Body(n)
    BY <2>6, <2>9, <2>10, ChunksAreWhole
  <2> QED BY <1>1, <2>11
<1> QED BY <1>1, <1>3, <1>4, <1>5 DEF Framing

\* What get_with_headers makes of an answer is whole.
LEMMA OutcomeIsWhole ==
  ASSUME NEW outcome \in Outcomes, outcome.kind = "body"
  PROVE  outcome.body = outcome.meant
<1>1. PICK answer \in WireAnswers : outcome = Outcome(answer)
  BY DEF Outcomes
<1> DEFINE read == Decoded(answer)
           taken == CHOOSE b \in read : TRUE
<1>2. IsWhole(answer)
  BY AcceptedIsMeant
<1> HIDE DEF read
<1>3. read # {} /\ outcome.body = taken /\ outcome.meant = answer.meant
  <2>1. read # {}
    <3> SUFFICES ASSUME read = {} PROVE FALSE
      OBVIOUS
    <3>1. outcome = [kind |-> "refused"]
      BY <1>1 DEF Outcome, read
    <3> QED BY <3>1
  <2>2. outcome = [kind |-> "body", body |-> taken, meant |-> answer.meant]
    <3>1. CASE answer.status \in {301, 302, 303, 307, 308}
      <4>1. outcome.kind \in {"redirect", "refused"}
        BY <1>1, <2>1, <3>1 DEF Outcome, read
      <4> QED BY <4>1
    <3>2. CASE answer.status \notin {301, 302, 303, 307, 308} /\ answer.status \in 200 .. 299
      BY <1>1, <2>1, <3>2 DEF Outcome, read
    <3>3. CASE answer.status \notin {301, 302, 303, 307, 308} /\ answer.status \notin 200 .. 299
      <4>1. outcome = [kind |-> "refused"]
        BY <1>1, <2>1, <3>3 DEF Outcome, read
      <4> QED BY <4>1
    <3> QED BY <3>1, <3>2, <3>3
  <2> QED BY <2>1, <2>2
<1>4. taken \in read
  BY <1>3
<1> QED BY <1>2, <1>3, <1>4 DEF IsWhole, read

\* Only an answer that is accepted ends a fetch well.
LEMMA WholenessKept ==
  ASSUME AnswersAreWhole, [FetchNext]_fetchVars
  PROVE  AnswersAreWhole'
<1>1. CASE UNCHANGED fetchVars
  BY <1>1 DEF fetchVars, AnswersAreWhole
<1>2. ASSUME NEW u \in Urls, NEW credential \in BOOLEAN, NEW names \in RequestHeaders,
             BeginFetch(u, credential, names)
      PROVE  AnswersAreWhole'
  <2>1. exchange' \in {"connect", "failed"}
    BY <1>2 DEF BeginFetch
  <2> QED BY <2>1 DEF AnswersAreWhole
<1>3. ASSUME NEW addresses \in DnsAnswers, NEW opening \in ProxyAnswers,
             Connect(addresses, opening)
      PROVE  AnswersAreWhole'
  BY <1>3 DEF Connect, AnswersAreWhole
<1>4. CASE ConnectFails
  BY <1>4 DEF ConnectFails, Return, AnswersAreWhole
<1>5. ASSUME NEW target \in Urls, FollowRedirect(target)
      PROVE  AnswersAreWhole'
  BY <1>5 DEF FollowRedirect, AnswersAreWhole
<1>6. CASE AnswerRefused
  BY <1>6 DEF AnswerRefused, Return, AnswersAreWhole
<1>7. CASE AnswerAccepted
  <2>1. PICK outcome \in Outcomes :
           outcome.kind = "body" /\ Return("ok", [body |-> outcome.body, meant |-> outcome.meant])
    BY <1>7 DEF AnswerAccepted
  <2>2. outcome.body = outcome.meant
    BY <2>1, OutcomeIsWhole
  <2>3. received' = [body |-> outcome.body, meant |-> outcome.meant]
    BY <2>1 DEF Return
  <2> QED BY <2>2, <2>3 DEF AnswersAreWhole
<1>8. CASE EndFetch \/ Abort
  BY <1>8 DEF EndFetch, Abort, Return, AnswersAreWhole
<1> QED
  BY <1>1, <1>2, <1>3, <1>4, <1>5, <1>6, <1>7, <1>8 DEF FetchNext, FetchStep

\* decode_fixed_body, decode_chunked: however a body is framed and wherever its
\* wire is cut off or runs on, a fetch that ends well returns the body meant.
THEOREM BodiesAreWhole == Spec => []AnswersAreWhole
<1>1. Init => AnswersAreWhole
  BY DEF Init, ResolveInit, FetchInit, AnswersAreWhole
<1>2. AnswersAreWhole /\ [Next]_vars => AnswersAreWhole'
  BY WorkspaceStepIsFetchStep, WholenessKept
<1> QED
  BY <1>1, <1>2, PTL DEF Spec

-----------------------------------------------------------------------------
(***************************************************************************)
(* The lock.                                                               *)
(***************************************************************************)

Records == [revision : {Tag} \cup Revisions, content : {Tag} \cup Revisions,
            summary : {Tag} \cup Revisions]
GenuineLock(l) ==
  /\ l \in [References -> Records]
  /\ \A r \in References : Snapshot(r, l[r])

\* What is known of the dependency under way, by the requests it is through.
HasRevision ==
  \/ resolve \in {"archive", "source", "alternative", "contents", "merge"}
  \/ /\ resolve \in {"commit", "versions", "manifest", "direct"}
     /\ exchange = "ok"
HasContent ==
  \/ resolve \in {"source", "alternative", "merge"}
  \/ /\ resolve \in {"archive", "contents", "manifest", "direct"}
     /\ exchange = "ok"
FetchedFor(r) ==
  /\ r.at # Tag => fetched.revision \in {Tag, r.at}
  /\ HasRevision => fetched.revision # Tag
  /\ HasContent => fetched.content = fetched.revision
  /\ fetched.summary \in {Tag, fetched.revision}
  /\ resolve \in {"commit", "versions"} => fetched.summary = Tag

TypeInv ==
  /\ remote \in [Names -> Revisions]
  /\ fetched \in Records
  /\ DOMAIN disk = {LockPath} \cup Files
  /\ DOMAIN temporary = {"resolve", "fix"}
  /\ resolve \in RequestStages \/ exchange = "idle"

TemporaryInv ==
  /\ temporary["resolve"].state \in {"empty", "synced"} =>
       resolve = "write" /\ temporary["resolve"].path = LockPath
  /\ temporary["resolve"].state = "synced" =>
       temporary["resolve"].content = current
  /\ temporary["fix"].state \in {"empty", "synced"} =>
       temporary["fix"].path \in Files

Keeps(l) == \A r \in References : disk[LockPath][r] # NoEntry => l[r] # NoEntry

FetchedInv ==
  resolve \in RequestStages \cup {"merge"} =>
    \A r \in References : IsNext(r) => FetchedFor(r)
KeepsInv ==
  resolve \in RequestStages \cup {"dependency", "merge", "write"} =>
    Keeps(current)

\* What makes EntriesAreSnapshots and LockNeverForgets inductive.
LockInv ==
  /\ TypeInv
  /\ TemporaryInv
  /\ GenuineLock(disk[LockPath])
  /\ GenuineLock(current)
  /\ FetchedInv
  /\ KeepsInv

\* resolve_dependencies works on one dependency at a time.
LEMMA NextIsUnique ==
  ASSUME NEW r \in References, NEW s \in References, IsNext(r), IsNext(s)
  PROVE  r = s
<1>1. /\ r.name \in Nat /\ s.name \in Nat
      /\ r.at \in Nat /\ s.at \in Nat
  <2>1. Names \subseteq Nat /\ {Tag} \cup Revisions \subseteq Nat
    BY LockAssumption DEF Tag, Revisions
  <2> QED
    BY <2>1 DEF References
<1>2. r.name = s.name /\ r.at = s.at
  BY <1>1 DEF IsNext
<1> QED
  BY <1>2 DEF References

LEMMA EmptyLockIsGenuine == GenuineLock(EmptyLock) /\ NoEntry \in Records
BY DEF GenuineLock, EmptyLock, NoEntry, Records, Snapshot

\* The paths of the workflow files are not the lock's.
LEMMA LockIsNoFile == LockPath \notin Files
BY LockAssumption DEF LockPath, Files

LEMMA LockInvHolds ==
  ASSUME Init
  PROVE  LockInv
<1>1. /\ resolve = "idle" /\ exchange = "idle" /\ current = EmptyLock /\ fetched = NoEntry
      /\ remote = [n \in Names |-> 1]
      /\ temporary = [w \in {"resolve", "fix"} |-> NoFile]
  BY DEF Init, ResolveInit, FetchInit
<1>2. PICK texts \in StartTexts, start \in StartLocks :
        disk = [p \in {LockPath} \cup Files |->
                  IF p = LockPath THEN start ELSE texts[p]]
  BY DEF Init
<1>3. 1 \in Revisions
  BY LockAssumption DEF Revisions
<1>4. TypeInv
  BY <1>1, <1>2, <1>3, EmptyLockIsGenuine DEF TypeInv
<1>5. TemporaryInv
  BY <1>1 DEF TemporaryInv, NoFile
<1>6. disk[LockPath] = start
  BY <1>2
<1>7. GenuineLock(start)
  <2>1. Entries \cup {NoEntry} \subseteq Records
    BY DEF Entries, Records, NoEntry
  <2>2. start \in [References -> Records]
    BY <2>1, WorkspaceAssumption DEF Locks
  <2> QED
    BY <2>2, WorkspaceAssumption DEF GenuineLock
<1>8. FetchedInv /\ KeepsInv
  BY <1>1 DEF FetchedInv, KeepsInv, RequestStages
<1> QED
  BY <1>1, <1>4, <1>5, <1>6, <1>7, <1>8, EmptyLockIsGenuine DEF LockInv

\* A step that leaves the disk alone and has no dependency under way after it.
LEMMA BetweenDependencies ==
  ASSUME LockInv,
         UNCHANGED <<remote, diskVars>>,
         GenuineLock(current)', (fetched \in Records)', (exchange = "idle")',
         (resolve \notin RequestStages \cup {"merge"})',
         resolve = "write" => UNCHANGED <<resolve, current>>,
         KeepsInv'
  PROVE  LockInv'
<1>1. TypeInv'
  BY DEF LockInv, TypeInv, diskVars
<1>2. TemporaryInv'
  BY DEF LockInv, TemporaryInv, diskVars
<1>3. FetchedInv'
  BY DEF FetchedInv
<1> QED
  BY <1>1, <1>2, <1>3 DEF LockInv, GenuineLock, diskVars

\* A step of the fetch of one dependency.
LEMMA DuringFetch ==
  ASSUME LockInv,
         \A r \in References : IsNext(r) => FetchedFor(r)',
         UNCHANGED <<remote, diskVars, current, todo>>,
         (fetched \in Records)',
         resolve \in RequestStages \cup {"dependency", "merge"},
         (resolve \in RequestStages \cup {"merge"})',
         (resolve \in RequestStages \/ exchange = "idle")'
  PROVE  LockInv'
<1>1. TypeInv'
  BY DEF LockInv, TypeInv, diskVars
<1>2. TemporaryInv'
  BY DEF LockInv, TemporaryInv, diskVars, RequestStages
<1>3. \A r \in References : IsNext(r)' => IsNext(r)
  BY DEF IsNext
<1>4. FetchedInv'
  BY <1>3 DEF FetchedInv
<1>5. KeepsInv'
  BY DEF LockInv, KeepsInv, Keeps, diskVars
<1> QED
  BY <1>1, <1>2, <1>4, <1>5 DEF LockInv, GenuineLock, diskVars

LEMMA OfOneDependency ==
  ASSUME LockInv,
         NEW r \in References, IsNext(r), FetchedFor(r)',
         UNCHANGED <<remote, diskVars, current, todo>>,
         (fetched \in Records)',
         resolve \in RequestStages \cup {"dependency", "merge"},
         (resolve \in RequestStages \cup {"merge"})',
         (resolve \in RequestStages \/ exchange = "idle")'
  PROVE  LockInv'
<1>1. \A s \in References : IsNext(s) => FetchedFor(s)'
  BY NextIsUnique
<1> QED
  BY <1>1, DuringFetch

-----------------------------------------------------------------------------
LEMMA StartKeepsLock ==
  ASSUME LockInv, NEW u, NEW n, ResolveStart(u, n)
  PROVE  LockInv'
<1>1. /\ UNCHANGED <<remote, diskVars, exchange, current, fetched>>
      /\ resolve \in {"idle", "ended"} /\ resolve' = "sources"
  BY DEF ResolveStart, fetchVars, fetchedVars
<1>2. exchange = "idle"
  BY <1>1 DEF LockInv, TypeInv, RequestStages
<1>3. KeepsInv'
  BY <1>1 DEF KeepsInv, RequestStages
<1> QED
  BY <1>1, <1>2, <1>3, BetweenDependencies
     DEF LockInv, TypeInv, GenuineLock, RequestStages

LEMMA ReadKeepsLock ==
  ASSUME LockInv, ReadLock \/ \E f \in Files : ReadSource(f)
  PROVE  LockInv'
<1>1. /\ UNCHANGED <<remote, diskVars, exchange, fetched>>
      /\ resolve = "sources" /\ resolve' \in {"sources", "dependency"}
      /\ current' = IF resolve' = "sources" THEN current ELSE disk[LockPath]
  BY DEF ReadLock, ReadSource, fetchVars, fetchedVars
<1>2. exchange = "idle"
  BY <1>1 DEF LockInv, TypeInv, RequestStages
<1>3. GenuineLock(current)'
  BY <1>1 DEF LockInv, GenuineLock
<1>4. KeepsInv'
  BY <1>1 DEF KeepsInv, Keeps, diskVars, RequestStages
<1> QED
  BY <1>1, <1>2, <1>3, <1>4, BetweenDependencies
     DEF LockInv, TypeInv, RequestStages

LEMMA LocalStepKeepsLock ==
  ASSUME LockInv, NEW r \in References,
         SkipLocal(r) \/ ReuseEntry(r) \/ StayOffline(r)
  PROVE  LockInv'
<1>1. /\ UNCHANGED <<remote, diskVars, exchange, current, fetched, resolve>>
      /\ resolve = "dependency"
  BY DEF SkipLocal, ReuseEntry, StayOffline, fetchVars, fetchedVars
<1>2. exchange = "idle"
  BY <1>1 DEF LockInv, TypeInv, RequestStages
<1>3. KeepsInv'
  BY <1>1 DEF LockInv, KeepsInv, Keeps, diskVars
<1> QED
  BY <1>1, <1>2, <1>3, BetweenDependencies
     DEF LockInv, TypeInv, GenuineLock, RequestStages

LEMMA StartFetchingKeepsLock ==
  ASSUME LockInv, NEW r \in References, StartFetching(r)
  PROVE  LockInv'
<1>1. /\ UNCHANGED <<remote, diskVars, exchange, current, todo>>
      /\ IsNext(r) /\ resolve = "dependency" /\ resolve' = FirstStage(r)
  BY DEF StartFetching, fetchVars
<1>2. exchange = "idle"
  BY <1>1 DEF LockInv, TypeInv, RequestStages
<1>3. FirstStage(r) \in
        {"commit", "versions", "direct", "token", "manifest", "merge"}
  BY DEF FirstStage
<1>4. CASE FirstStage(r) = "merge"
  <2>1. r.at \in Revisions /\ r.at # Tag
    BY <1>4, LockAssumption DEF FirstStage, References, Tag, Revisions
  <2>2. fetched' = [revision |-> r.at, content |-> r.at, summary |-> Tag]
    BY <1>4 DEF StartFetching
  <2>3. fetched' \in Records /\ FetchedFor(r)'
    BY <2>1, <2>2, <1>1, <1>4 DEF Records, FetchedFor, HasRevision, HasContent
  <2> QED
    BY <2>3, <1>1, <1>2, <1>4, OfOneDependency
<1>5. CASE FirstStage(r) # "merge"
  <2>1. fetched' = NoEntry
    BY <1>5 DEF StartFetching
  <2>2. fetched' \in Records
    BY <2>1, EmptyLockIsGenuine
  <2>3. FetchedFor(r)'
    BY <2>1, <1>1, <1>2, <1>3, <1>5
       DEF FetchedFor, HasRevision, HasContent, NoEntry
  <2>4. resolve' \in RequestStages
    BY <1>1, <1>3, <1>5 DEF RequestStages
  <2> QED
    BY <2>2, <2>3, <2>4, <1>1, OfOneDependency
<1> QED
  BY <1>4, <1>5

\* A step that neither answers nor moves on.
LEMMA AskKeepsLock ==
  ASSUME LockInv,
         ExchangeStep \/ \E r \in References : Ask(r)
  PROVE  LockInv'
<1>1. /\ UNCHANGED <<remote, diskVars, resolve, current, fetched, todo>>
      /\ exchange' # "ok"
  BY DEF ExchangeStep, FetchStep, Connect, ConnectFails, FollowRedirect,
         AnswerRefused, Return, Ask, BeginFetch, fetchedVars
<1>2. resolve \in RequestStages
  <2>1. exchange # "idle" \/ resolve \in RequestStages
    BY DEF ExchangeStep, FetchStep, Connect, ConnectFails, FollowRedirect,
           AnswerRefused, Ask
  <2> QED
    BY <2>1 DEF LockInv, TypeInv
<1>3. ASSUME NEW r \in References, IsNext(r)
      PROVE  FetchedFor(r)'
  <2>1. FetchedFor(r)
    BY <1>2, <1>3 DEF LockInv, FetchedInv
  <2> QED
    BY <1>1, <2>1 DEF FetchedFor, HasRevision, HasContent
<1> QED
  BY <1>1, <1>2, <1>3, DuringFetch DEF LockInv, TypeInv

LEMMA AnswerKeepsLock ==
  ASSUME LockInv, NEW r \in References, ServerAnswers(r)
  PROVE  LockInv'
<1>1. /\ UNCHANGED <<remote, diskVars, resolve, current, todo>>
      /\ resolve \in RequestStages /\ IsNext(r)
      /\ exchange = "waiting" /\ exchange' = "ok" /\ fetched' = Answer(r)
  BY DEF ServerAnswers, AnswerAccepted, Return
<1>2. FetchedFor(r) /\ fetched \in Records
  BY <1>1 DEF LockInv, FetchedInv, TypeInv
<1>3. /\ r.name \in Names /\ r.at \in {Tag} \cup Revisions
      /\ Tag \notin Revisions
  BY LockAssumption DEF References, Tag, Revisions
<1>4. /\ Target(r) \in Revisions /\ Target(r) # Tag
      /\ r.at # Tag => Target(r) = r.at
  BY <1>3 DEF Target, LockInv, TypeInv
<1>5. CASE resolve \in {"commit", "versions"}
  <2>1. fetched' = [fetched EXCEPT !.revision = Target(r)]
    BY <1>1, <1>5 DEF Answer, HostedAnswer, OrbAnswer
  <2> QED
    BY <2>1, <1>1, <1>2, <1>4, <1>5, OfOneDependency
       DEF FetchedFor, HasRevision, HasContent, Records
<1>6. CASE resolve = "archive"
  <2>1. fetched' = [fetched EXCEPT !.content = fetched.revision]
    BY <1>1, <1>6 DEF Answer, HostedAnswer
  <2> QED
    BY <2>1, <1>1, <1>2, <1>6, OfOneDependency
       DEF FetchedFor, HasRevision, HasContent, Records
<1>7. CASE resolve \in {"source", "alternative"}
  <2>1. fetched' = [fetched EXCEPT !.summary = fetched.revision]
    BY <1>1, <1>7 DEF Answer, HostedAnswer
  <2> QED
    BY <2>1, <1>1, <1>2, <1>7, OfOneDependency
       DEF FetchedFor, HasRevision, HasContent, Records
<1>8. CASE resolve = "manifest"
  <2>1. fetched' = [revision |-> Target(r), content |-> Target(r), summary |-> Tag]
    BY <1>1, <1>8 DEF Answer, ImageAnswer
  <2> QED
    BY <2>1, <1>1, <1>2, <1>4, <1>8, OfOneDependency
       DEF FetchedFor, HasRevision, HasContent, Records
<1>9. CASE resolve = "contents"
  <2>1. fetched' = [fetched EXCEPT !.content = fetched.revision,
                                   !.summary = fetched.revision]
    BY <1>1, <1>9 DEF Answer, OrbAnswer
  <2> QED
    BY <2>1, <1>1, <1>2, <1>9, OfOneDependency
       DEF FetchedFor, HasRevision, HasContent, Records
<1>10. CASE resolve = "direct"
  <2>1. fetched' = [revision |-> Target(r), content |-> Target(r),
                    summary |-> Target(r)]
    BY <1>1, <1>10 DEF Answer, DirectAnswer
  <2> QED
    BY <2>1, <1>1, <1>2, <1>4, <1>10, OfOneDependency
       DEF FetchedFor, HasRevision, HasContent, Records
<1>11. CASE resolve = "token"
  <2>1. fetched' = fetched
    BY <1>1, <1>11 DEF Answer, ImageAnswer
  <2> QED
    BY <2>1, <1>1, <1>2, <1>11, OfOneDependency
       DEF FetchedFor, HasRevision, HasContent
<1> QED
  BY <1>1, <1>5, <1>6, <1>7, <1>8, <1>9, <1>10, <1>11 DEF RequestStages

LEMMA NextRequestKeepsLock ==
  ASSUME LockInv, NEW r \in References, GotAnswer(r) \/ NoSource(r)
  PROVE  LockInv'
<1>1. /\ UNCHANGED <<remote, diskVars, current, fetched, todo>>
      /\ resolve \in RequestStages /\ exchange' = "idle"
      /\ exchange = "ok" \/ resolve \in {"source", "alternative"}
      /\ \/ exchange = "ok" /\ resolve' = Following(r)
         \/ /\ resolve \in {"source", "alternative"}
            /\ resolve' \in {"alternative", "merge"}
  BY DEF GotAnswer, NoSource, EndFetch, Return, fetchedVars, RequestStages
<1>2. resolve' \in RequestStages \cup {"merge"}
  BY <1>1 DEF Following, RequestStages
<1>3. ASSUME NEW s \in References, IsNext(s)
      PROVE  FetchedFor(s)'
  <2>1. FetchedFor(s)
    BY <1>1, <1>3 DEF LockInv, FetchedInv
  <2>2. HasRevision' => HasRevision
    BY <1>1 DEF HasRevision, Following, RequestStages
  <2>3. HasContent' => HasContent
    BY <1>1 DEF HasContent, Following, RequestStages
  <2>4. resolve' \notin {"commit", "versions"}
    BY <1>1 DEF Following, RequestStages
  <2> QED
    BY <1>1, <2>1, <2>2, <2>3, <2>4 DEF FetchedFor
<1> QED
  BY <1>1, <1>2, <1>3, DuringFetch DEF LockInv, TypeInv

LEMMA FailureKeepsLock ==
  ASSUME LockInv, NEW r \in References,
         RefuseReference(r) \/ FetchFails(r) \/ LockRefused(r)
  PROVE  LockInv'
<1>1. /\ UNCHANGED <<remote, diskVars, current>>
      /\ resolve \in RequestStages \cup {"dependency", "merge"}
      /\ resolve' = "dependency" /\ fetched' = NoEntry
  BY DEF RefuseReference, FetchFails, LockRefused, Fails
<1>2. exchange' = "idle"
  BY DEF RefuseReference, FetchFails, LockRefused, EndFetch, Return, fetchVars, LockInv, TypeInv,
         RequestStages
<1>3. KeepsInv'
  BY <1>1 DEF LockInv, KeepsInv, Keeps, diskVars
<1> QED
  BY <1>1, <1>2, <1>3, BetweenDependencies, EmptyLockIsGenuine
     DEF LockInv, GenuineLock, RequestStages

LEMMA LockFetchedKeepsLock ==
  ASSUME LockInv, NEW r \in References, LockFetched(r)
  PROVE  LockInv'
<1>1. /\ UNCHANGED <<remote, diskVars, exchange>>
      /\ resolve = "merge" /\ resolve' = "dependency"
      /\ fetched' = NoEntry /\ IsNext(r)
      /\ current' = [current EXCEPT ![r] = fetched]
  BY DEF LockFetched, fetchVars
<1>2. exchange = "idle"
  BY <1>1 DEF LockInv, TypeInv, RequestStages
<1>3. FetchedFor(r) /\ fetched \in Records /\ HasRevision /\ HasContent
  BY <1>1 DEF LockInv, FetchedInv, TypeInv, HasRevision, HasContent
<1>4. Snapshot(r, fetched) /\ fetched # NoEntry
  BY <1>3 DEF FetchedFor, Snapshot, NoEntry
<1>5. GenuineLock(current)'
  BY <1>1, <1>3, <1>4 DEF LockInv, GenuineLock
<1>6. KeepsInv'
  <2>1. current \in [References -> Records] /\ Keeps(current)
    BY <1>1 DEF LockInv, GenuineLock, KeepsInv
  <2> QED
    BY <2>1, <1>1, <1>4 DEF KeepsInv, Keeps, diskVars
<1> QED
  BY <1>1, <1>2, <1>5, <1>6, BetweenDependencies, EmptyLockIsGenuine
     DEF RequestStages

-----------------------------------------------------------------------------
\* The process ends, with or without having replaced the lock.
LEMMA EndKeepsLock ==
  ASSUME LockInv,
         KeepLock \/ ReplaceLock \/ LockWriteFails \/ ResolveKilled
  PROVE  LockInv'
<1>1. /\ remote' = remote /\ resolve' \in {"ended", "idle"}
      /\ current' = EmptyLock /\ fetched' = NoEntry
  BY DEF KeepLock, ReplaceLock, LockWriteFails, ResolveKilled, EndWith, Forget
<1>2. exchange' = "idle"
  BY DEF KeepLock, ReplaceLock, LockWriteFails, ResolveKilled, AllDone,
         EndWith, Abort, Return, fetchVars, LockInv, TypeInv, RequestStages
<1>3. CASE KeepLock
  <2>1. UNCHANGED diskVars /\ resolve = "dependency"
    BY <1>3 DEF KeepLock, AllDone
  <2>2. KeepsInv'
    BY <1>1 DEF KeepsInv, RequestStages
  <2> QED
    BY <2>1, <2>2, <1>1, <1>2, EmptyLockIsGenuine, BetweenDependencies
       DEF GenuineLock, RequestStages
<1>4. CASE ~KeepLock
  <2>1. /\ DOMAIN temporary' = {"resolve", "fix"}
        /\ temporary'["resolve"] = NoFile
        /\ temporary'["fix"] = temporary["fix"]
    BY <1>4 DEF ReplaceLock, RenameTemporary, LockWriteFails, WriteFails,
                ResolveKilled, Abandoned, LockInv, TypeInv
  <2>2. \/ disk' = disk
        \/ /\ temporary["resolve"].state = "synced"
           /\ disk' = [disk EXCEPT ![LockPath] = current]
    BY <1>4 DEF ReplaceLock, RenameTemporary, LockWriteFails, WriteFails,
                ResolveKilled, Abandoned, LockInv, TemporaryInv
  <2>3. /\ DOMAIN disk' = DOMAIN disk
        /\ disk'[LockPath] \in {disk[LockPath], current}
    BY <2>2 DEF LockInv, TypeInv
  <2>4. GenuineLock(disk[LockPath])'
    BY <2>3 DEF LockInv, GenuineLock
  <2>5. TypeInv'
    BY <1>1, <1>2, <2>1, <2>3, EmptyLockIsGenuine DEF LockInv, TypeInv
  <2>6. TemporaryInv'
    BY <2>1 DEF LockInv, TemporaryInv, NoFile
  <2>7. FetchedInv' /\ KeepsInv'
    BY <1>1 DEF FetchedInv, KeepsInv, RequestStages
  <2>8. GenuineLock(current)'
    BY <1>1, EmptyLockIsGenuine DEF GenuineLock
  <2> QED
    BY <2>4, <2>5, <2>6, <2>7, <2>8 DEF LockInv
<1> QED
  BY <1>3, <1>4

LEMMA WriteKeepsLock ==
  ASSUME LockInv, CreateLock \/ WriteLock
  PROVE  LockInv'
<1>1. /\ UNCHANGED <<remote, disk, exchange, current, fetched>>
      /\ resolve \in {"dependency", "write"} /\ resolve' = "write"
  BY DEF CreateLock, AllDone, CreateTemporary, WriteLock, FillTemporary,
         fetchVars, fetchedVars
<1>2. /\ DOMAIN temporary' = {"resolve", "fix"}
      /\ temporary'["fix"] = temporary["fix"]
      /\ \/ temporary'["resolve"] = [state |-> "empty", path |-> LockPath]
         \/ temporary'["resolve"] =
              [state |-> "synced", path |-> LockPath, content |-> current]
  <2>1. CASE CreateLock
    BY <2>1 DEF CreateLock, CreateTemporary, LockInv, TypeInv
  <2>2. CASE WriteLock
    <3>1. temporary["resolve"].path = LockPath
      BY <2>2 DEF WriteLock, FillTemporary, LockInv, TemporaryInv
    <3> QED
      BY <2>2, <3>1 DEF WriteLock, FillTemporary, LockInv, TypeInv
  <2> QED
    BY <2>1, <2>2
<1>3. TypeInv'
  BY <1>1, <1>2 DEF LockInv, TypeInv, RequestStages
<1>4. TemporaryInv'
  BY <1>1, <1>2 DEF LockInv, TemporaryInv
<1>5. FetchedInv'
  BY <1>1 DEF FetchedInv, RequestStages
<1>6. KeepsInv'
  BY <1>1 DEF LockInv, KeepsInv, Keeps
<1> QED
  BY <1>1, <1>3, <1>4, <1>5, <1>6 DEF LockInv, GenuineLock

-----------------------------------------------------------------------------
(***************************************************************************)
(* Everybody else: they leave alone what the command has, and the lock.    *)
(***************************************************************************)

commandVars == <<resolve, exchange, todo, current, fetched>>

LEMMA OthersKeepLock ==
  ASSUME LockInv, UNCHANGED commandVars,
         remote' \in [Names -> Revisions],
         DOMAIN disk' = DOMAIN disk, disk'[LockPath] = disk[LockPath],
         DOMAIN temporary' = DOMAIN temporary,
         temporary'["resolve"] = temporary["resolve"],
         temporary'["fix"].state \in {"empty", "synced"} =>
           temporary'["fix"].path \in Files
  PROVE  LockInv'
<1>1. TypeInv'
  BY DEF LockInv, TypeInv, commandVars
<1>2. TemporaryInv'
  BY DEF LockInv, TemporaryInv, commandVars
<1>3. FetchedInv'
  BY DEF LockInv, FetchedInv, FetchedFor, HasRevision, HasContent, IsNext,
         commandVars
<1>4. KeepsInv'
  BY DEF LockInv, KeepsInv, Keeps, commandVars
<1> QED
  BY <1>1, <1>2, <1>3, <1>4 DEF LockInv, GenuineLock, commandVars

LEMMA WorldKeepsLock ==
  ASSUME LockInv,
         \/ UNCHANGED vars
         \/ \E n \in Moving : MoveTag(n)
         \/ \E f \in Files, text \in Drafts : Edit(f, text)
  PROVE  LockInv' /\ disk'[LockPath] = disk[LockPath]
<1>1. UNCHANGED commandVars /\ temporary' = temporary
  BY DEF MoveTag, Edit, vars, commandVars, resolveVars, fetchVars, fetchedVars,
         diskVars
<1>2. remote' \in [Names -> Revisions]
  <2>1. CASE \E n \in Moving : MoveTag(n)
    <3>1. PICK n \in Moving : MoveTag(n)
      BY <2>1
    <3>2. n \in Names /\ remote[n] \in Revisions /\ remote[n] < MaxRevision
      BY <3>1, WorkspaceAssumption DEF MoveTag, LockInv, TypeInv
    <3>3. remote[n] + 1 \in Revisions
      BY <3>2, LockAssumption DEF Revisions
    <3> QED
      BY <3>1, <3>3 DEF MoveTag, LockInv, TypeInv
  <2>2. CASE ~\E n \in Moving : MoveTag(n)
    BY <2>2 DEF Edit, vars, LockInv, TypeInv
  <2> QED
    BY <2>1, <2>2
<1>3. DOMAIN disk' = DOMAIN disk /\ disk'[LockPath] = disk[LockPath]
  <2>1. CASE UNCHANGED disk
    BY <2>1
  <2>2. ASSUME NEW f \in Files, NEW text \in Drafts, Edit(f, text)
        PROVE  DOMAIN disk' = DOMAIN disk /\ disk'[LockPath] = disk[LockPath]
    <3>1. disk' = [disk EXCEPT ![f] = text] /\ f # LockPath
      BY <2>2, LockIsNoFile DEF Edit
    <3> QED
      BY <3>1 DEF LockInv, TypeInv
  <2> QED
    BY <2>1, <2>2 DEF MoveTag, vars, diskVars
<1> QED
  BY <1>1, <1>2, <1>3, OthersKeepLock DEF LockInv, TemporaryInv

LEMMA FixKeepsLock ==
  ASSUME LockInv, UNCHANGED <<remote, resolveVars>>,
         FixStep \/ FixKilled \/ \E a \in BOOLEAN : FixStart(a)
  PROVE  LockInv' /\ disk'[LockPath] = disk[LockPath]
<1>1. UNCHANGED commandVars /\ remote' \in [Names -> Revisions]
  BY DEF commandVars, resolveVars, fetchVars, fetchedVars, LockInv, TypeInv
<1>2. ASSUME UNCHANGED disk, DOMAIN temporary' = DOMAIN temporary,
             temporary'["resolve"] = temporary["resolve"],
             temporary'["fix"].state \in {"empty", "synced"} =>
               temporary'["fix"].path \in Files
      PROVE  LockInv' /\ disk'[LockPath] = disk[LockPath]
  BY <1>1, <1>2, OthersKeepLock
<1>3. CASE \/ \E a \in BOOLEAN : FixStart(a)
           \/ \E f \in Files : FixReadSource(f)
           \/ FixReadLock \/ CombineFails \/ Propose \/ FixDone
  <2>1. UNCHANGED diskVars
    BY <1>3 DEF FixStart, FixReadSource, FixReadLock, CombineFails, Propose,
                FixDone
  <2> QED
    BY <2>1, <1>2 DEF diskVars, LockInv, TemporaryInv
<1>4. ASSUME NEW f \in Files, FixCreate(f)
      PROVE  LockInv' /\ disk'[LockPath] = disk[LockPath]
  BY <1>2, <1>4 DEF FixCreate, CreateTemporary, LockInv, TypeInv
<1>5. CASE FixWrite
  BY <1>2, <1>5 DEF FixWrite, FillTemporary, LockInv, TypeInv, TemporaryInv
<1>6. CASE FixReplace
  <2>1. temporary["fix"].path \in Files /\ UNCHANGED remote
    BY <1>6 DEF FixReplace, RenameTemporary, LockInv, TemporaryInv
  <2>2. /\ DOMAIN disk' = DOMAIN disk
        /\ disk'[LockPath] = disk[LockPath]
    BY <2>1, <1>6, LockIsNoFile DEF FixReplace, RenameTemporary
  <2>3. /\ DOMAIN temporary' = DOMAIN temporary
        /\ temporary'["resolve"] = temporary["resolve"]
        /\ temporary'["fix"].state \notin {"empty", "synced"}
    BY <1>6 DEF FixReplace, RenameTemporary, NoFile, LockInv, TypeInv
  <2> QED
    BY <2>2, <2>3, <1>1, OthersKeepLock
<1>7. CASE FixWriteFails \/ FixKilled
  <2>1. /\ DOMAIN temporary' = DOMAIN temporary
        /\ temporary'["resolve"] = temporary["resolve"]
        /\ temporary'["fix"].state \notin {"empty", "synced"}
        /\ UNCHANGED disk
    BY <1>7 DEF FixWriteFails, FixKilled, WriteFails, Abandoned, NoFile,
                LockInv, TypeInv
  <2> QED
    BY <2>1, <1>2
<1> QED
  BY <1>3, <1>4, <1>5, <1>6, <1>7 DEF FixStep

LEMMA LockInvKept ==
  ASSUME LockInv, [Next]_vars
  PROVE  LockInv'
<1>1. ASSUME ResolveStep
      PROVE  LockInv'
  BY <1>1, ReadKeepsLock, LocalStepKeepsLock, StartFetchingKeepsLock,
     AskKeepsLock, AnswerKeepsLock, NextRequestKeepsLock, FailureKeepsLock,
     LockFetchedKeepsLock, EndKeepsLock, WriteKeepsLock DEF ResolveStep
<1>2. ASSUME NEW u \in BOOLEAN, NEW n \in BOOLEAN, ResolveStart(u, n)
      PROVE  LockInv'
  BY <1>2, StartKeepsLock
<1>3. ASSUME ResolveKilled
      PROVE  LockInv'
  BY <1>3, EndKeepsLock
<1> QED
  BY <1>1, <1>2, <1>3, WorldKeepsLock, FixKeepsLock DEF Next, Resolving, Fixing

THEOREM LockInvariant == Spec => []LockInv
<1>1. Init => LockInv
  BY LockInvHolds
<1>2. LockInv /\ [Next]_vars => LockInv'
  BY LockInvKept
<1> QED
  BY <1>1, <1>2, PTL DEF Spec

\* resolver_transport.rs and lock_fetched: whenever the tags move, an entry of
\* the lock has the digest and the summary of the very revision it records.
THEOREM LockedEntriesAreSnapshots == Spec => []EntriesAreSnapshots
<1>1. LockInv => EntriesAreSnapshots
  BY DEF LockInv, GenuineLock, EntriesAreSnapshots
<1> QED
  BY <1>1, LockInvariant, PTL

Remembers ==
  \A r \in References :
    disk[LockPath][r] # NoEntry => disk'[LockPath][r] # NoEntry

\* Only the rename at the end of command_resolve touches the lock, and what it
\* puts there started from what was there.
LEMMA StepRemembers ==
  ASSUME LockInv, [Next]_vars
  PROVE  Remembers
<1>1. ASSUME disk'[LockPath] = disk[LockPath]
      PROVE  Remembers
  BY <1>1 DEF Remembers
<1>2. CASE Resolving(ResolveStep)
  <2>1. CASE ReplaceLock
    <3>1. /\ resolve = "write"
          /\ temporary["resolve"].state = "synced"
          /\ disk' = [disk EXCEPT ![temporary["resolve"].path] =
                        temporary["resolve"].content]
      BY <2>1 DEF ReplaceLock, RenameTemporary
    <3>2. disk' = [disk EXCEPT ![LockPath] = current]
      BY <3>1 DEF LockInv, TemporaryInv
    <3>3. Keeps(current) /\ disk'[LockPath] = current
      BY <3>1, <3>2 DEF LockInv, KeepsInv, TypeInv
    <3> QED
      BY <3>3 DEF Keeps, Remembers
  <2>2. CASE ~ReplaceLock
    <3>1. UNCHANGED disk
      BY <1>2, <2>2
         DEF Resolving, ResolveStep, ReadSource, ReadLock, SkipLocal,
             ReuseEntry, StayOffline, StartFetching, RefuseReference,
             ServerAnswers, FetchFails, LockFetched, LockRefused, Ask,
             ExchangeStep, GotAnswer, NoSource,
             KeepLock, CreateLock, CreateTemporary, WriteLock, FillTemporary,
             LockWriteFails, WriteFails, diskVars
    <3> QED
      BY <3>1, <1>1
  <2> QED
    BY <2>1, <2>2
<1>3. CASE \/ Resolving(ResolveKilled)
           \/ \E u, n \in BOOLEAN : Resolving(ResolveStart(u, n))
  <2>1. UNCHANGED disk
    BY <1>3 DEF Resolving, ResolveKilled, Abandoned, ResolveStart, diskVars
  <2> QED
    BY <2>1, <1>1
<1> QED
  BY <1>1, <1>2, <1>3, WorldKeepsLock, FixKeepsLock DEF Next, Resolving, Fixing

\* command_resolve with atomic_write: a failed or killed run loses no entry.
THEOREM NoEntryIsLost == Spec => LockNeverForgets
<1>1. LockInv /\ [Next]_vars =>
        [\A r \in References :
           disk[LockPath][r] # NoEntry => disk'[LockPath][r] # NoEntry]_vars
  BY StepRemembers DEF Remembers
<1> QED
  BY <1>1, LockInvariant, PTL DEF Spec, LockNeverForgets

-----------------------------------------------------------------------------
(***************************************************************************)
(* What a run that passed has locked.                                      *)
(***************************************************************************)

\* Every text that may reach a workflow file is one of references.
TextInv ==
  /\ \A f \in Files : disk[f] \in Texts /\ source[f] \in Texts
  /\ DOMAIN source = Files
  /\ GenuineLock(lock)
  /\ temporary["fix"].state = "synced" => temporary["fix"].content \in Texts

\* fix writes a text of references: the one it read, some of them pinned.
LEMMA AfterIsText ==
  ASSUME GenuineLock(lock), NEW text \in Texts
  PROVE  After(text) \in Texts
<1>1. \A mention \in Mentions : lock[mention.reference] # NoEntry =>
                                   Pinned(mention) \in Mentions
  BY DEF Pinned, Mentions, References, GenuineLock, Records
<1>2. text \in [1 .. Len(text) -> Mentions] /\ Len(text) \in Nat
  BY DEF Texts
<1>3. \A r \in Proposals(text) : lock[r] # NoEntry
  BY DEF Proposals, Locked
<1>4. After(text) \in [1 .. Len(text) -> Mentions]
  BY <1>1, <1>2, <1>3 DEF After
<1> QED
  BY <1>2, <1>4 DEF Texts

LEMMA TextInvHolds ==
  ASSUME Init
  PROVE  TextInv
<1>1. PICK texts \in StartTexts, start \in StartLocks :
        disk = [p \in {LockPath} \cup Files |->
                  IF p = LockPath THEN start ELSE texts[p]]
  BY DEF Init
<1>2. \A f \in Files : disk[f] \in Texts
  BY <1>1, LockIsNoFile, WorkspaceAssumption
<1>3. << >> \in Texts
  BY DEF Texts
<1>4. temporary["fix"] = NoFile
  BY DEF Init
<1> QED
  BY <1>2, <1>3, <1>4, EmptyLockIsGenuine DEF Init, FixInit, TextInv, NoFile

\* resolve leaves the workflow files alone.
LEMMA ResolveKeepsFiles ==
  ASSUME LockInv,
         ResolveStep \/ ResolveKilled \/ \E u, n \in BOOLEAN : ResolveStart(u, n)
  PROVE  /\ \A f \in Files : disk'[f] = disk[f]
         /\ temporary'["fix"] = temporary["fix"]
<1>1. CASE ReplaceLock
  <2>1. disk' = [disk EXCEPT ![LockPath] = temporary["resolve"].content]
    BY <1>1 DEF ReplaceLock, RenameTemporary, LockInv, TemporaryInv
  <2> QED
    BY <1>1, <2>1, LockIsNoFile
       DEF ReplaceLock, RenameTemporary, LockInv, TypeInv
<1>2. CASE CreateLock \/ WriteLock \/ LockWriteFails \/ ResolveKilled
  BY <1>2 DEF CreateLock, CreateTemporary, WriteLock, FillTemporary,
              LockWriteFails, WriteFails, ResolveKilled, Abandoned, LockInv,
              TypeInv
<1>3. ASSUME UNCHANGED diskVars
      PROVE  /\ \A f \in Files : disk'[f] = disk[f]
             /\ temporary'["fix"] = temporary["fix"]
  BY <1>3 DEF diskVars
<1>4. CASE KeepLock \/ ReadLock \/ (\E f \in Files : ReadSource(f))
  BY <1>3, <1>4 DEF KeepLock, ReadLock, ReadSource
<1>5. CASE ExchangeStep \/ (\E u, n \in BOOLEAN : ResolveStart(u, n))
  BY <1>3, <1>5 DEF ExchangeStep, ResolveStart
<1>6. ASSUME NEW r \in References,
             \/ SkipLocal(r) \/ ReuseEntry(r) \/ StayOffline(r)
             \/ StartFetching(r) \/ RefuseReference(r)
             \/ Ask(r) \/ ServerAnswers(r) \/ GotAnswer(r) \/ NoSource(r)
             \/ FetchFails(r) \/ LockFetched(r) \/ LockRefused(r)
      PROVE  UNCHANGED diskVars
  BY <1>6 DEF SkipLocal, ReuseEntry, StayOffline, StartFetching,
              RefuseReference, Ask, ServerAnswers, GotAnswer, NoSource,
              FetchFails, LockFetched, LockRefused
<1> QED
  BY <1>1, <1>2, <1>3, <1>4, <1>5, <1>6 DEF ResolveStep

LEMMA TextInvKept ==
  ASSUME LockInv, TextInv, [Next]_vars
  PROVE  TextInv'
<1>1. CASE UNCHANGED vars \/ (\E n \in Moving : Resolving(MoveTag(n)))
  BY <1>1 DEF vars, Resolving, MoveTag, fixVars, inputVars, diskVars, TextInv,
              GenuineLock
<1>2. CASE \/ Resolving(ResolveStep) \/ Resolving(ResolveKilled)
           \/ \E u, n \in BOOLEAN : Resolving(ResolveStart(u, n))
  <2>1. UNCHANGED <<source, lock>>
    BY <1>2 DEF Resolving, fixVars, inputVars
  <2>2. /\ \A f \in Files : disk'[f] = disk[f]
        /\ temporary'["fix"] = temporary["fix"]
    BY <1>2, ResolveKeepsFiles DEF Resolving
  <2> QED
    BY <2>1, <2>2 DEF TextInv, GenuineLock
<1>3. ASSUME NEW f \in Files, NEW text \in Drafts, Edit(f, text)
      PROVE  TextInv'
  <2>1. UNCHANGED <<source, lock, temporary>>
    BY <1>3 DEF Edit, inputVars
  <2>2. text \in Texts /\ disk' = [disk EXCEPT ![f] = text]
    BY <1>3, WorkspaceAssumption DEF Edit
  <2> QED
    BY <2>1, <2>2 DEF TextInv, GenuineLock, LockInv, TypeInv
<1>4. CASE \/ \E a \in BOOLEAN : FixStart(a)
           \/ CombineFails \/ Propose \/ FixDone
  BY <1>4 DEF FixStart, CombineFails, Propose, FixDone, inputVars, diskVars,
              TextInv, GenuineLock
<1>5. CASE FixReadLock
  BY <1>5 DEF FixReadLock, diskVars, TextInv, GenuineLock, LockInv
<1>6. ASSUME NEW f \in Files, FixReadSource(f)
      PROVE  TextInv'
  BY <1>6 DEF FixReadSource, diskVars, TextInv, GenuineLock
<1>7. ASSUME NEW f \in Files, FixCreate(f)
      PROVE  TextInv'
  BY <1>7 DEF FixCreate, CreateTemporary, fixVars, inputVars, TextInv,
              GenuineLock, LockInv, TypeInv
<1>8. CASE FixWrite
  <2>1. /\ temporary["fix"].path \in Files
        /\ UNCHANGED <<disk, source, lock>>
        /\ temporary'["fix"].content = After(source[temporary["fix"].path])
    BY <1>8 DEF FixWrite, FillTemporary, fixVars, inputVars, LockInv,
                TypeInv, TemporaryInv
  <2>2. After(source[temporary["fix"].path]) \in Texts
    BY <2>1, AfterIsText DEF TextInv
  <2> QED
    BY <2>1, <2>2 DEF TextInv, GenuineLock
<1>9. CASE FixReplace
  <2>1. /\ UNCHANGED <<source, lock>>
        /\ temporary["fix"].state = "synced"
        /\ temporary' = [temporary EXCEPT !["fix"] = NoFile]
        /\ disk' = [disk EXCEPT ![temporary["fix"].path] =
                      temporary["fix"].content]
    BY <1>9 DEF FixReplace, RenameTemporary, inputVars
  <2>2. temporary["fix"].path \in Files /\ temporary["fix"].content \in Texts
    BY <2>1 DEF TextInv, LockInv, TemporaryInv
  <2>3. temporary'["fix"] = NoFile
    BY <2>1 DEF LockInv, TypeInv
  <2>4. \A f \in Files : disk'[f] \in Texts
    BY <2>1, <2>2 DEF TextInv, LockInv, TypeInv
  <2> QED
    BY <2>1, <2>3, <2>4 DEF TextInv, GenuineLock, NoFile
<1>10. CASE FixWriteFails
  BY <1>10 DEF FixWriteFails, WriteFails, Ends, inputVars, TextInv,
               GenuineLock, LockInv, TypeInv, NoFile
<1>11. CASE FixKilled
  <2>1. << >> \in Texts
    BY DEF Texts
  <2>2. temporary'["fix"] = NoFile
    BY <1>11 DEF FixKilled, Abandoned, LockInv, TypeInv
  <2> QED
    BY <2>1, <2>2, <1>11, EmptyLockIsGenuine
       DEF FixKilled, Abandoned, TextInv, GenuineLock, NoFile
<1> QED
  BY <1>1, <1>2, <1>3, <1>4, <1>5, <1>6, <1>7, <1>8, <1>9, <1>10, <1>11
     DEF Next, Fixing, FixStep

-----------------------------------------------------------------------------
\* What PassMeansLocked says of one reference and one lock.
Settled(r, l) ==
  \/ KindOf[r.name] = "local"
  \/ /\ l[r] # NoEntry
     /\ update /\ r.at = Tag => l[r].revision >= before[r.name]

RunTypes ==
  /\ update \in BOOLEAN /\ network \in BOOLEAN
  /\ update => network
  /\ wanted \subseteq References
  /\ todo \in [References -> Nat]

\* Tags only move forward.
TagsMoveOn ==
  /\ before \in [Names -> Revisions]
  /\ \A n \in Names : before[n] <= remote[n]

Working == RequestStages \cup {"dependency", "merge", "write"}

\* While the files are read everything wanted is still to be done.
AllToDo ==
  resolve = "sources" =>
    errors = {} /\ unresolved = {} /\ \A r \in wanted : todo[r] > 0

\* A failure is on record, so without one whatever is not to be done is done.
DoneIsSettled ==
  /\ resolve \in Working =>
       /\ errors \subseteq unresolved
       /\ unresolved = {} =>
            \A r \in wanted : todo[r] > 0 \/ Settled(r, current)
  /\ resolve = "write" => \A r \in References : todo[r] = 0

\* Without the network the lock in memory is the one on disk.
OfflineChangesNothing ==
  /\ resolve \in Working \ {"dependency"} => network
  /\ resolve = "dependency" /\ ~network => current = disk[LockPath]

\* What a provider answered is no older than the run.
AnswerIsFresh ==
  resolve \in RequestStages \cup {"merge"} =>
    \A r \in References :
      IsNext(r) /\ HasRevision /\ r.at = Tag =>
        fetched.revision >= before[r.name]

PassedIsSettled ==
  resolve = "ended" /\ resolve_exit = 0 =>
    \A r \in wanted : Settled(r, disk[LockPath])

PassInv ==
  /\ RunTypes /\ TagsMoveOn
  /\ AllToDo /\ DoneIsSettled /\ OfflineChangesNothing
  /\ AnswerIsFresh /\ PassedIsSettled

LEMMA PassInvHolds ==
  ASSUME Init
  PROVE  PassInv
<1>1. /\ resolve = "idle" /\ update = FALSE /\ network = FALSE /\ wanted = {}
      /\ todo = [r \in References |-> 0]
      /\ remote = [n \in Names |-> 1] /\ before = remote
  BY DEF Init, ResolveInit
<1>2. 1 \in Revisions
  BY LockAssumption DEF Revisions
<1>3. RunTypes
  BY <1>1 DEF RunTypes
<1>4. TagsMoveOn
  BY <1>1, <1>2 DEF TagsMoveOn
<1> QED
  BY <1>1, <1>3, <1>4
     DEF PassInv, AllToDo, DoneIsSettled, OfflineChangesNothing, AnswerIsFresh,
         PassedIsSettled, Working, RequestStages

runVars == <<resolve, exchange, update, network, before, wanted, todo, current,
             fetched, errors, unresolved, resolve_exit>>

\* Whoever leaves the run and the lock alone, and moves tags forward only.
LEMMA OthersKeepPass ==
  ASSUME PassInv, UNCHANGED runVars, disk'[LockPath] = disk[LockPath],
         \A n \in Names : before[n] <= remote'[n]
  PROVE  PassInv'
<1>1. UNCHANGED <<resolve, update, network, before, wanted, todo, current,
                  fetched, errors, unresolved, resolve_exit>>
  BY DEF runVars
<1>2. RunTypes' /\ TagsMoveOn' /\ AllToDo'
  BY <1>1 DEF PassInv, RunTypes, TagsMoveOn, AllToDo
<1>3. DoneIsSettled'
  BY <1>1 DEF PassInv, DoneIsSettled, Settled
<1>4. OfflineChangesNothing'
  BY <1>1 DEF PassInv, OfflineChangesNothing
<1>5. AnswerIsFresh'
  BY DEF runVars, PassInv, AnswerIsFresh, IsNext, HasRevision
<1>6. PassedIsSettled'
  BY <1>1 DEF PassInv, PassedIsSettled, Settled
<1> QED
  BY <1>2, <1>3, <1>4, <1>5, <1>6 DEF PassInv

LEMMA WorldKeepsPass ==
  ASSUME LockInv, PassInv,
         \/ UNCHANGED vars
         \/ \E n \in Moving : MoveTag(n)
         \/ \E f \in Files, text \in Drafts : Edit(f, text)
  PROVE  PassInv'
<1>1. UNCHANGED runVars
  BY DEF MoveTag, Edit, vars, runVars, resolveVars, fetchVars, modeVars,
         readVars, fetchedVars, resultVars
<1>2. \A n \in Names : before[n] <= remote'[n]
  <2>1. CASE \E n \in Moving : MoveTag(n)
    <3>1. PICK n \in Moving : MoveTag(n)
      BY <2>1
    <3>2. ASSUME NEW m \in Names
          PROVE  before[m] <= remote'[m]
      <4>1. /\ remote[m] \in Nat /\ before[m] \in Nat
            /\ before[m] <= remote[m]
        BY DEF PassInv, TagsMoveOn, LockInv, TypeInv, Revisions
      <4>2. remote' = [remote EXCEPT ![n] = @ + 1]
        BY <3>1 DEF MoveTag
      <4>3. remote'[m] = remote[m] \/ remote'[m] = remote[m] + 1
        BY <4>2 DEF LockInv, TypeInv
      <4> QED
        BY <4>1, <4>3
    <3> QED
      BY <3>2
  <2>2. CASE UNCHANGED remote
    BY <2>2 DEF PassInv, TagsMoveOn
  <2> QED
    BY <2>1, <2>2 DEF Edit, vars
<1> QED
  BY <1>1, <1>2, OthersKeepPass, WorldKeepsLock

LEMMA FixKeepsPass ==
  ASSUME LockInv, PassInv, UNCHANGED <<remote, resolveVars>>,
         FixStep \/ FixKilled \/ \E a \in BOOLEAN : FixStart(a)
  PROVE  PassInv'
<1>1. UNCHANGED runVars
  BY DEF runVars, resolveVars, fetchVars, modeVars, readVars, fetchedVars,
         resultVars
<1>2. \A n \in Names : before[n] <= remote'[n]
  BY DEF PassInv, TagsMoveOn
<1> QED
  BY <1>1, <1>2, OthersKeepPass, FixKeepsLock

-----------------------------------------------------------------------------
LEMMA StartKeepsPass ==
  ASSUME LockInv, PassInv, NEW u \in BOOLEAN, NEW n \in BOOLEAN,
         ResolveStart(u, n)
  PROVE  PassInv'
<1>1. /\ resolve' = "sources" /\ update' = u /\ network' = n /\ (u => n)
      /\ before' = remote /\ remote' = remote /\ wanted' = {}
      /\ todo' = [r \in References |-> 0]
      /\ errors' = {} /\ unresolved' = {}
  BY DEF ResolveStart
<1>2. RunTypes' /\ AllToDo'
  BY <1>1 DEF RunTypes, AllToDo
<1>3. TagsMoveOn'
  <2>1. before' \in [Names -> Revisions]
    BY <1>1 DEF LockInv, TypeInv
  <2>2. \A m \in Names : before'[m] \in Nat /\ remote'[m] = before'[m]
    BY <1>1, <2>1 DEF Revisions
  <2>3. \A m \in Names : before'[m] <= remote'[m]
    BY <2>2
  <2> QED
    BY <2>1, <2>3 DEF TagsMoveOn
<1> QED
  BY <1>1, <1>2, <1>3
     DEF PassInv, DoneIsSettled, OfflineChangesNothing, AnswerIsFresh,
         PassedIsSettled, Working, RequestStages

LEMMA UsesAreFinite ==
  ASSUME NEW text \in Texts
  PROVE  IsFiniteSet(Uses(text))
<1>1. text \in [1 .. Len(text) -> Mentions] /\ Len(text) \in Nat
  BY DEF Texts
<1>2. DOMAIN text = 1 .. Len(text)
  BY <1>1
<1>3. IsFiniteSet(DOMAIN text)
  BY <1>1, <1>2, FS_Interval
<1>4. Uses(text) \subseteq DOMAIN text
  BY DEF Uses
<1> QED
  BY <1>3, <1>4, FS_Subset

\* The dependencies of a text are counted, and what it uses is among them.
LEMMA UsesAreCounted ==
  ASSUME NEW text \in Texts
  PROVE  /\ \A r \in References : Dependencies(text, r) \in Nat
         /\ Used(text) \subseteq References
         /\ \A r \in Used(text) : Dependencies(text, r) > 0
<1>1. text \in [1 .. Len(text) -> Mentions] /\ Len(text) \in Nat
  BY DEF Texts
<1>2. IsFiniteSet(Uses(text))
  BY UsesAreFinite
<1>3. ASSUME NEW r
      PROVE  IsFiniteSet({i \in Uses(text) : text[i].reference = r})
  BY <1>2, FS_Subset
<1>4. ASSUME NEW r \in References
      PROVE  Dependencies(text, r) \in Nat
  BY <1>3, FS_CardinalityType DEF Dependencies
<1>5. ASSUME NEW r \in Used(text)
      PROVE  Dependencies(text, r) > 0
  <2> DEFINE uses == {i \in Uses(text) : text[i].reference = r}
  <2>1. uses # {} /\ IsFiniteSet(uses)
    BY <1>3, <1>5 DEF Used
  <2>2. Dependencies(text, r) = IF PerOccurrence(r) THEN Cardinality(uses)
                                ELSE IF uses = {} THEN 0 ELSE 1
    BY DEF Dependencies
  <2> HIDE DEF uses
  <2>3. Cardinality(uses) \in Nat /\ Cardinality(uses) # 0
    BY <2>1, FS_CardinalityType, FS_EmptySet
  <2> QED
    BY <2>1, <2>2, <2>3
<1>6. Used(text) \subseteq References
  BY <1>1 DEF Used, Uses, Mentions
<1> QED
  BY <1>4, <1>5, <1>6

LEMMA ReadKeepsPass ==
  ASSUME LockInv, TextInv, PassInv, NEW f \in Files, ReadSource(f)
  PROVE  PassInv'
<1>1. /\ resolve = "sources" /\ resolve' = "sources"
      /\ UNCHANGED <<remote, update, network, before, errors, unresolved>>
      /\ wanted' = wanted \cup Used(disk[f])
      /\ todo' = [r \in References |-> todo[r] + Dependencies(disk[f], r)]
  BY DEF ReadSource, modeVars, resultVars
<1>2. /\ \A r \in References : Dependencies(disk[f], r) \in Nat
      /\ Used(disk[f]) \subseteq References
      /\ \A r \in Used(disk[f]) : Dependencies(disk[f], r) > 0
  BY UsesAreCounted DEF TextInv
<1>3. todo \in [References -> Nat] /\ wanted \subseteq References
  BY DEF PassInv, RunTypes
<1>4. RunTypes'
  <2>1. todo' \in [References -> Nat]
    BY <1>1, <1>2, <1>3
  <2>2. wanted' \subseteq References
    BY <1>1, <1>2, <1>3
  <2> QED
    BY <1>1, <2>1, <2>2 DEF PassInv, RunTypes
<1>5. TagsMoveOn'
  BY <1>1 DEF PassInv, TagsMoveOn
<1>6. AllToDo'
  <2>1. ASSUME NEW r \in wanted'
        PROVE  todo'[r] > 0
    <3>1. CASE r \in wanted
      <4>1. r \in References /\ todo[r] > 0 /\ todo[r] \in Nat
        BY <1>1, <1>3, <3>1 DEF PassInv, AllToDo
      <4>2. /\ todo'[r] = todo[r] + Dependencies(disk[f], r)
            /\ Dependencies(disk[f], r) \in Nat
        BY <1>1, <1>2, <4>1
      <4> QED
        BY <4>1, <4>2
    <3>2. CASE r \notin wanted
      <4>1. r \in Used(disk[f])
        BY <1>1, <2>1, <3>2
      <4>2. /\ r \in References /\ todo[r] \in Nat
            /\ Dependencies(disk[f], r) \in Nat
            /\ Dependencies(disk[f], r) > 0
        BY <1>2, <1>3, <4>1
      <4>3. todo'[r] = todo[r] + Dependencies(disk[f], r)
        BY <1>1, <4>2
      <4> QED
        BY <4>2, <4>3
    <3> QED
      BY <3>1, <3>2
  <2> QED
    BY <1>1, <2>1 DEF PassInv, AllToDo
<1> QED
  BY <1>1, <1>4, <1>5, <1>6
     DEF PassInv, DoneIsSettled, OfflineChangesNothing, AnswerIsFresh,
         PassedIsSettled, Working, RequestStages

LEMMA ReadLockKeepsPass ==
  ASSUME LockInv, PassInv, ReadLock
  PROVE  PassInv'
<1>1. /\ resolve = "sources" /\ resolve' = "dependency"
      /\ current' = disk[LockPath] /\ disk' = disk
      /\ UNCHANGED <<remote, update, network, before, wanted, todo, errors,
                     unresolved>>
  BY DEF ReadLock, modeVars, readVars, resultVars, diskVars
<1>2. RunTypes' /\ TagsMoveOn'
  BY <1>1 DEF PassInv, RunTypes, TagsMoveOn
<1>3. AllToDo' /\ PassedIsSettled'
  BY <1>1 DEF AllToDo, PassedIsSettled
<1>4. DoneIsSettled'
  BY <1>1 DEF PassInv, AllToDo, DoneIsSettled
<1>5. OfflineChangesNothing' /\ AnswerIsFresh'
  BY <1>1 DEF OfflineChangesNothing, AnswerIsFresh, Working, RequestStages
<1> QED
  BY <1>2, <1>3, <1>4, <1>5 DEF PassInv

-----------------------------------------------------------------------------
\* A dependency is done with: settled, or on record as unresolved.
LEMMA DoneKeepsPass ==
  ASSUME LockInv, PassInv, NEW r \in References, IsNext(r),
         resolve \in RequestStages \cup {"dependency", "merge"},
         resolve' = "dependency", Resolved(r),
         UNCHANGED <<remote, disk, update, network, before, wanted>>,
         (errors \subseteq unresolved)', unresolved \subseteq unresolved',
         unresolved' = {} => Settled(r, current)',
         \A s \in References : s # r => current'[s] = current[s],
         network \/ current' = current
  PROVE  PassInv'
<1>1. todo \in [References -> Nat] /\ todo[r] > 0
  BY DEF PassInv, RunTypes, IsNext
<1>2. /\ todo' \in [References -> Nat]
      /\ \A s \in References : s # r => todo'[s] = todo[s]
  BY <1>1 DEF Resolved
<1>3. RunTypes' /\ TagsMoveOn'
  BY <1>2 DEF PassInv, RunTypes, TagsMoveOn
<1>4. DoneIsSettled'
  <2>1. ASSUME unresolved' = {}, NEW s \in wanted
        PROVE  todo'[s] > 0 \/ Settled(s, current)'
    <3>1. s \in References
      BY DEF PassInv, RunTypes
    <3>2. CASE s = r
      BY <2>1, <3>2
    <3>3. CASE s # r
      <4>1. resolve \in Working
        BY DEF Working
      <4>2. unresolved = {}
        BY <2>1
      <4>3. todo[s] > 0 \/ Settled(s, current)
        BY <4>1, <4>2 DEF PassInv, DoneIsSettled
      <4>4. todo'[s] = todo[s] /\ current'[s] = current[s]
        BY <1>2, <3>1, <3>3
      <4> QED
        BY <4>3, <4>4 DEF Settled
    <3> QED
      BY <3>2, <3>3
  <2> QED
    BY <2>1 DEF DoneIsSettled
<1>5. OfflineChangesNothing'
  <2>1. ASSUME ~network
        PROVE  resolve = "dependency" /\ current = disk[LockPath]
    BY <2>1 DEF PassInv, OfflineChangesNothing, Working
  <2> QED
    BY <2>1 DEF OfflineChangesNothing
<1>6. AllToDo' /\ AnswerIsFresh' /\ PassedIsSettled'
  BY DEF AllToDo, AnswerIsFresh, PassedIsSettled, RequestStages
<1> QED
  BY <1>3, <1>4, <1>5, <1>6 DEF PassInv

LEMMA LocalStepKeepsPass ==
  ASSUME LockInv, PassInv, NEW r \in References,
         SkipLocal(r) \/ ReuseEntry(r) \/ StayOffline(r)
  PROVE  PassInv'
<1>1. /\ resolve = "dependency" /\ resolve' = "dependency" /\ IsNext(r)
      /\ Resolved(r)
      /\ UNCHANGED <<remote, disk, update, network, before, wanted, current,
                     errors>>
      /\ unresolved \subseteq unresolved'
  BY DEF SkipLocal, ReuseEntry, StayOffline, modeVars, readVars, fetchedVars,
         diskVars, resultVars
<1>2. errors \subseteq unresolved
  BY <1>1 DEF PassInv, DoneIsSettled, Working
<1>3. unresolved' = {} => Settled(r, current)'
  <2>1. CASE SkipLocal(r)
    BY <2>1 DEF SkipLocal, Settled
  <2>2. CASE ReuseEntry(r)
    BY <2>2, <1>1 DEF ReuseEntry, InLock, Settled
  <2>3. CASE StayOffline(r)
    BY <2>3 DEF StayOffline
  <2> QED
    BY <2>1, <2>2, <2>3
<1> QED
  BY <1>1, <1>2, <1>3, DoneKeepsPass

LEMMA FailureKeepsPass ==
  ASSUME LockInv, PassInv, NEW r \in References,
         RefuseReference(r) \/ FetchFails(r) \/ LockRefused(r)
  PROVE  PassInv'
<1>1. /\ resolve \in RequestStages \cup {"dependency", "merge"}
      /\ resolve' = "dependency" /\ IsNext(r) /\ Resolved(r)
      /\ UNCHANGED <<remote, disk, update, network, before, wanted, current>>
      /\ errors' = errors \cup {r} /\ unresolved' = unresolved \cup {r}
  BY DEF RefuseReference, FetchFails, LockRefused, Fails, modeVars, readVars,
         diskVars
<1>2. errors \subseteq unresolved
  BY <1>1 DEF PassInv, DoneIsSettled, Working
<1> QED
  BY <1>1, <1>2, DoneKeepsPass

LEMMA LockFetchedKeepsPass ==
  ASSUME LockInv, PassInv, NEW r \in References, LockFetched(r)
  PROVE  PassInv'
<1>1. /\ resolve = "merge" /\ resolve' = "dependency"
      /\ IsNext(r) /\ Resolved(r)
      /\ UNCHANGED <<remote, disk, update, network, before, wanted, errors,
                     unresolved>>
      /\ current' = [current EXCEPT ![r] = fetched]
  BY DEF LockFetched, modeVars, readVars, diskVars, resultVars
<1>2. errors \subseteq unresolved /\ network
  BY <1>1 DEF PassInv, DoneIsSettled, OfflineChangesNothing, Working
<1>3. current \in [References -> Records]
  BY DEF LockInv, GenuineLock
<1>4. Settled(r, current)'
  <2>1. current'[r] = fetched
    BY <1>1, <1>3
  <2>2. fetched.revision # Tag
    BY <1>1 DEF LockInv, FetchedInv, FetchedFor, HasRevision
  <2>3. r.at = Tag => fetched.revision >= before[r.name]
    BY <1>1 DEF PassInv, AnswerIsFresh, HasRevision
  <2> QED
    BY <1>1, <2>1, <2>2, <2>3 DEF Settled, NoEntry
<1> QED
  BY <1>1, <1>2, <1>3, <1>4, DoneKeepsPass

-----------------------------------------------------------------------------
\* A step of the fetch of one dependency.
LEMMA DuringFetchPass ==
  ASSUME LockInv, PassInv,
         UNCHANGED <<remote, disk, update, network, before, wanted, todo,
                     current, errors, unresolved>>,
         resolve \in RequestStages \cup {"dependency", "merge"}, network,
         resolve' \in RequestStages \cup {"merge"},
         \A r \in References :
           IsNext(r) /\ HasRevision' /\ r.at = Tag =>
             fetched'.revision >= before[r.name]
  PROVE  PassInv'
<1>1. RunTypes' /\ TagsMoveOn'
  BY DEF PassInv, RunTypes, TagsMoveOn
<1>2. /\ resolve \in Working /\ resolve' \in Working
      /\ resolve' \notin {"sources", "write", "ended", "dependency"}
  BY DEF Working, RequestStages
<1>3. DoneIsSettled'
  BY <1>2 DEF PassInv, DoneIsSettled, Settled
<1>4. AnswerIsFresh'
  BY DEF AnswerIsFresh, IsNext
<1>5. AllToDo' /\ OfflineChangesNothing' /\ PassedIsSettled'
  BY <1>2 DEF AllToDo, OfflineChangesNothing, PassedIsSettled
<1> QED
  BY <1>1, <1>3, <1>4, <1>5 DEF PassInv

LEMMA StartFetchingKeepsPass ==
  ASSUME LockInv, PassInv, NEW r \in References, StartFetching(r)
  PROVE  PassInv'
<1>1. /\ UNCHANGED <<remote, disk, update, network, before, wanted, todo,
                     current, errors, unresolved, exchange>>
      /\ resolve = "dependency" /\ network /\ IsNext(r)
      /\ resolve' = FirstStage(r)
  BY DEF StartFetching, modeVars, readVars, diskVars, resultVars, fetchVars
<1>2. /\ FirstStage(r) \in
           {"commit", "versions", "direct", "token", "manifest", "merge"}
      /\ FirstStage(r) = "merge" => r.at # Tag
  BY DEF FirstStage
<1>3. exchange' = "idle"
  BY <1>1 DEF LockInv, TypeInv, RequestStages
<1>4. HasRevision' => r.at # Tag
  BY <1>1, <1>2, <1>3 DEF HasRevision
<1>5. \A s \in References : IsNext(s) => s = r
  BY <1>1, NextIsUnique
<1> QED
  BY <1>1, <1>2, <1>4, <1>5, DuringFetchPass DEF RequestStages

LEMMA AskKeepsPass ==
  ASSUME LockInv, PassInv, ExchangeStep \/ \E r \in References : Ask(r)
  PROVE  PassInv'
<1>1. /\ UNCHANGED <<remote, disk, resolve, update, network, before, wanted,
                     todo, current, fetched, errors, unresolved>>
      /\ exchange' # "ok"
  BY DEF ExchangeStep, FetchStep, Connect, ConnectFails, FollowRedirect,
         AnswerRefused, Return, Ask, BeginFetch, fetchedVars, modeVars,
         readVars, diskVars, resultVars
<1>2. resolve \in RequestStages
  <2>1. exchange # "idle" \/ resolve \in RequestStages
    BY DEF ExchangeStep, FetchStep, Connect, ConnectFails, FollowRedirect,
           AnswerRefused, Ask
  <2> QED
    BY <2>1 DEF LockInv, TypeInv
<1>3. network
  BY <1>2 DEF PassInv, OfflineChangesNothing, Working, RequestStages
<1>4. HasRevision' => HasRevision
  BY <1>1 DEF HasRevision
<1>5. \A r \in References :
        IsNext(r) /\ HasRevision' /\ r.at = Tag =>
          fetched'.revision >= before[r.name]
  BY <1>1, <1>2, <1>4 DEF PassInv, AnswerIsFresh
<1> QED
  BY <1>1, <1>2, <1>3, <1>5, DuringFetchPass

LEMMA NextRequestKeepsPass ==
  ASSUME LockInv, PassInv, NEW r \in References, GotAnswer(r) \/ NoSource(r)
  PROVE  PassInv'
<1>1. /\ UNCHANGED <<remote, disk, update, network, before, wanted, todo,
                     current, fetched, errors, unresolved>>
      /\ resolve \in RequestStages /\ exchange' = "idle"
      /\ \/ exchange = "ok" /\ resolve' = Following(r)
         \/ /\ resolve \in {"source", "alternative"}
            /\ resolve' \in {"alternative", "merge"}
  BY DEF GotAnswer, NoSource, EndFetch, Return, fetchedVars, RequestStages,
         modeVars, readVars, diskVars, resultVars
<1>2. resolve' \in RequestStages \cup {"merge"}
  BY <1>1 DEF Following, RequestStages
<1>3. network
  BY <1>1 DEF PassInv, OfflineChangesNothing, Working, RequestStages
<1>4. HasRevision' => HasRevision
  BY <1>1 DEF HasRevision, Following, RequestStages
<1>5. \A s \in References :
        IsNext(s) /\ HasRevision' /\ s.at = Tag =>
          fetched'.revision >= before[s.name]
  BY <1>1, <1>4 DEF PassInv, AnswerIsFresh
<1> QED
  BY <1>1, <1>2, <1>3, <1>5, DuringFetchPass

\* A lookup tells the tag as it is now, which is no older than the run.
LEMMA AnswerKeepsPass ==
  ASSUME LockInv, PassInv, NEW r \in References, ServerAnswers(r)
  PROVE  PassInv'
<1>1. /\ UNCHANGED <<remote, disk, resolve, update, network, before, wanted,
                     todo, current, errors, unresolved>>
      /\ resolve \in RequestStages /\ IsNext(r)
      /\ exchange' = "ok" /\ fetched' = Answer(r)
  BY DEF ServerAnswers, AnswerAccepted, Return, modeVars, readVars, diskVars,
         resultVars
<1>2. network
  BY <1>1 DEF PassInv, OfflineChangesNothing, Working, RequestStages
<1>3. fetched \in Records
  BY DEF LockInv, TypeInv
<1>4. r.at = Tag => Target(r) >= before[r.name]
  BY DEF Target, References, PassInv, TagsMoveOn
<1>5. fetched'.revision = Target(r) \/ (fetched'.revision = fetched.revision)
  BY <1>1, <1>3 DEF Answer, HostedAnswer, OrbAnswer, ImageAnswer, DirectAnswer,
                    RequestStages, Records
<1>6. HasRevision' => fetched'.revision = Target(r) \/ HasRevision
  <2>1. CASE resolve \in {"commit", "versions"}
    BY <2>1, <1>1, <1>3 DEF Answer, HostedAnswer, OrbAnswer, Records
  <2>2. CASE resolve \in {"manifest", "direct"}
    BY <2>2, <1>1 DEF Answer, ImageAnswer, DirectAnswer
  <2>3. CASE resolve \notin {"commit", "versions", "manifest", "direct"}
    BY <2>3, <1>1 DEF HasRevision
  <2> QED
    BY <2>1, <2>2, <2>3
<1>7. HasRevision /\ r.at = Tag => fetched.revision >= before[r.name]
  BY <1>1 DEF PassInv, AnswerIsFresh
<1>8. HasRevision' /\ r.at = Tag => fetched'.revision >= before[r.name]
  BY <1>4, <1>5, <1>6, <1>7
<1>9. \A s \in References : IsNext(s) => s = r
  BY <1>1, NextIsUnique
<1> QED
  BY <1>1, <1>2, <1>8, <1>9, DuringFetchPass

-----------------------------------------------------------------------------
LEMMA WriteKeepsPass ==
  ASSUME LockInv, PassInv, CreateLock \/ WriteLock
  PROVE  PassInv'
<1>1. /\ UNCHANGED <<remote, disk, update, network, before, wanted, todo,
                     current, errors, unresolved>>
      /\ resolve \in {"dependency", "write"} /\ resolve' = "write"
  BY DEF CreateLock, AllDone, CreateTemporary, WriteLock, FillTemporary,
         fetchedVars, modeVars, readVars, resultVars
<1>2. network
  <2>1. CASE CreateLock
    BY <2>1 DEF CreateLock
  <2>2. CASE WriteLock
    BY <2>2 DEF WriteLock, PassInv, OfflineChangesNothing, Working
  <2> QED
    BY <2>1, <2>2
<1>3. \A r \in References : todo[r] = 0
  <2>1. CASE CreateLock
    BY <2>1 DEF CreateLock, AllDone
  <2>2. CASE WriteLock
    BY <2>2 DEF WriteLock, PassInv, DoneIsSettled
  <2> QED
    BY <2>1, <2>2
<1>4. RunTypes' /\ TagsMoveOn'
  BY <1>1 DEF PassInv, RunTypes, TagsMoveOn
<1>5. resolve \in Working /\ resolve' \in Working
  BY <1>1 DEF Working
<1>6. DoneIsSettled'
  BY <1>1, <1>3, <1>5 DEF PassInv, DoneIsSettled, Settled
<1>7. AllToDo' /\ OfflineChangesNothing' /\ AnswerIsFresh' /\ PassedIsSettled'
  BY <1>1, <1>2
     DEF AllToDo, OfflineChangesNothing, AnswerIsFresh, PassedIsSettled,
         RequestStages
<1> QED
  BY <1>4, <1>6, <1>7 DEF PassInv

\* What the rename puts on disk, or what was there all the time.
LEMMA EndKeepsPass ==
  ASSUME LockInv, PassInv,
         KeepLock \/ ReplaceLock \/ LockWriteFails \/ ResolveKilled
  PROVE  PassInv'
<1>1. /\ UNCHANGED <<remote, update, network, before>>
      /\ wanted' \in {wanted, {}}
      /\ todo' = [r \in References |-> 0]
      /\ resolve' \in {"ended", "idle"}
  BY DEF KeepLock, ReplaceLock, LockWriteFails, ResolveKilled, EndWith, Forget,
         modeVars, readVars
<1>2. RunTypes' /\ TagsMoveOn'
  BY <1>1 DEF PassInv, RunTypes, TagsMoveOn
<1>3. AllToDo' /\ DoneIsSettled' /\ OfflineChangesNothing' /\ AnswerIsFresh'
  BY <1>1 DEF AllToDo, DoneIsSettled, OfflineChangesNothing, AnswerIsFresh,
              Working, RequestStages
<1>4. PassedIsSettled'
  <2>1. CASE KeepLock
    <3>1. /\ resolve = "dependency" /\ (\A r \in References : todo[r] = 0)
          /\ disk' = disk /\ wanted' = wanted /\ resolve_exit' = ExitCode
          /\ ~(network /\ errors = {})
      BY <2>1 DEF KeepLock, AllDone, EndWith, diskVars, readVars
    <3>2. ASSUME resolve_exit' = 0, NEW r \in wanted
          PROVE  Settled(r, disk[LockPath])'
      <4>1. errors = {} /\ unresolved = {} /\ ~network
        BY <3>1, <3>2 DEF ExitCode
      <4>2. current = disk[LockPath]
        BY <3>1, <4>1 DEF PassInv, OfflineChangesNothing
      <4>3. r \in References
        BY DEF PassInv, RunTypes
      <4>4. Settled(r, current)
        BY <3>1, <4>1, <4>3 DEF PassInv, DoneIsSettled, Working
      <4> QED
        BY <1>1, <3>1, <4>2, <4>4 DEF Settled
    <3> QED
      BY <3>1, <3>2 DEF PassedIsSettled
  <2>2. CASE ReplaceLock
    <3>1. /\ resolve = "write" /\ temporary["resolve"].state = "synced"
          /\ disk' = [disk EXCEPT ![temporary["resolve"].path] =
                        temporary["resolve"].content]
          /\ wanted' = wanted /\ resolve_exit' = ExitCode
      BY <2>2 DEF ReplaceLock, RenameTemporary, EndWith, readVars
    <3>2. disk'[LockPath] = current
      BY <3>1 DEF LockInv, TypeInv, TemporaryInv
    <3>3. ASSUME resolve_exit' = 0, NEW r \in wanted
          PROVE  Settled(r, disk[LockPath])'
      <4>1. unresolved = {}
        BY <3>1, <3>3 DEF ExitCode
      <4>2. r \in References
        BY DEF PassInv, RunTypes
      <4>3. Settled(r, current)
        BY <3>1, <4>1, <4>2 DEF PassInv, DoneIsSettled, Working
      <4> QED
        BY <1>1, <3>2, <4>3 DEF Settled
    <3> QED
      BY <3>1, <3>3 DEF PassedIsSettled
  <2>3. CASE LockWriteFails
    BY <2>3 DEF LockWriteFails, EndWith, PassedIsSettled
  <2>4. CASE ResolveKilled
    BY <2>4 DEF ResolveKilled, PassedIsSettled
  <2> QED
    BY <2>1, <2>2, <2>3, <2>4
<1> QED
  BY <1>2, <1>3, <1>4 DEF PassInv

LEMMA PassInvKept ==
  ASSUME LockInv, TextInv, PassInv, [Next]_vars
  PROVE  PassInv'
<1>1. ASSUME ResolveStep
      PROVE  PassInv'
  BY <1>1, ReadKeepsPass, ReadLockKeepsPass, LocalStepKeepsPass,
     StartFetchingKeepsPass, AskKeepsPass, AnswerKeepsPass,
     NextRequestKeepsPass, FailureKeepsPass, LockFetchedKeepsPass,
     EndKeepsPass, WriteKeepsPass DEF ResolveStep
<1>2. ASSUME NEW u \in BOOLEAN, NEW n \in BOOLEAN, ResolveStart(u, n)
      PROVE  PassInv'
  BY <1>2, StartKeepsPass
<1>3. ASSUME ResolveKilled
      PROVE  PassInv'
  BY <1>3, EndKeepsPass
<1> QED
  BY <1>1, <1>2, <1>3, WorldKeepsPass, FixKeepsPass DEF Next, Resolving, Fixing

LEMMA TextAndPassInvariant == Spec => [](TextInv /\ PassInv)
<1>1. Init => TextInv /\ PassInv
  BY TextInvHolds, PassInvHolds
<1>2. LockInv /\ TextInv /\ PassInv /\ [Next]_vars => (TextInv /\ PassInv)'
  BY TextInvKept, PassInvKept
<1> QED
  BY <1>1, <1>2, LockInvariant, PTL DEF Spec

\* command_resolve: exit 0 says that everything the run read is in the lock on
\* disk, and after --update no older than the run; whatever the providers
\* answer and when, however the run before it ended, and whoever writes.
THEOREM PassedRunsAreLocked == Spec => []PassMeansLocked
<1>1. PassInv => PassMeansLocked
  BY DEF PassInv, PassedIsSettled, Settled, PassMeansLocked
<1> QED
  BY <1>1, TextAndPassInvariant, PTL

-----------------------------------------------------------------------------
(***************************************************************************)
(* What a `fix --apply` that passed has written.                           *)
(***************************************************************************)

\* What is read, and nobody has written since, is still what is on disk.
ReadIsCurrent ==
  fix \in {"sources", "propose"} /\ undisturbed =>
    \A f \in Files : f \notin unseen \/ fix = "propose" => disk[f] = source[f]

\* Every file is as it was read or, once written, as proposed.
WrittenAsProposed ==
  fix = "write" =>
    /\ changes \subseteq Proposed
    /\ \A f \in Proposed : ~Overlaps(source[f])
    /\ undisturbed =>
         \A f \in Files :
           disk[f] = IF f \in Proposed \ changes /\ apply THEN After(source[f])
                     ELSE source[f]

\* What the temporary file will put there.
FixTemporary ==
  /\ temporary["fix"].state \in {"empty", "synced"} =>
       fix = "write" /\ apply /\ temporary["fix"].path \in changes
  /\ temporary["fix"].state = "synced" =>
       temporary["fix"].content = After(source[temporary["fix"].path])

FixInv ==
  /\ fix = "idle" => ~undisturbed
  /\ ReadIsCurrent
  /\ WrittenAsProposed
  /\ FixTemporary
  /\ FixPinsWhenPassed

\* The search by text finds something where there is something to be found.
LEMMA SomeScalarIsFound ==
  ASSUME NEW text \in Texts, NEW r, Scalars(text, r) # {}
  PROVE  \E j \in Scalars(text, r) : IsFound(text, j)
<1>1. Scalars(text, r) \in SUBSET Nat
  BY DEF Scalars, Texts
<1>2. PICK j \in Scalars(text, r) : \A k \in Scalars(text, r) : j <= k
  BY <1>1, Growth!LeastMember
<1>3. text[j].reference = r
  BY DEF Scalars
<1> QED
  BY <1>2, <1>3 DEF IsFound

\* Two uses of a reference GitHub's frontend tells apart make two proposals.
LEMMA TwoUsesOverlap ==
  ASSUME NEW text \in Texts, NEW i \in Uses(text), NEW j \in Uses(text),
         i # j, text[j].reference = text[i].reference,
         text[i].reference \in Proposals(text),
         PerOccurrence(text[i].reference)
  PROVE  Overlaps(text)
<1> DEFINE r == text[i].reference
           uses == {k \in Uses(text) : text[k].reference = r}
<1>1. uses \subseteq Uses(text) /\ IsFiniteSet(Uses(text))
  BY UsesAreFinite
<1>2. IsFiniteSet(uses) /\ i \in uses /\ j \in uses
  BY <1>1, FS_Subset
<1>3. Dependencies(text, r) = Cardinality(uses)
  BY DEF Dependencies
<1> HIDE DEF uses
<1>4. Cardinality(uses) \in Nat /\ Cardinality(uses) # 0
  BY <1>2, FS_CardinalityType, FS_EmptySet
<1>5. Cardinality(uses) # 1
  BY <1>2, FS_Singleton
<1>6. Dependencies(text, r) > 1
  BY <1>3, <1>4, <1>5
<1> QED
  BY <1>6 DEF Overlaps

\* A text of which no two proposals overlap is pinned by After.
LEMMA AfterPinsAll ==
  ASSUME NEW text \in Texts, ~Overlaps(text)
  PROVE  FullyPinned(text, After(text))
<1>1. text \in [1 .. Len(text) -> Mentions]
  BY DEF Texts
<1>2. DOMAIN After(text) = DOMAIN text
  BY DEF After
<1>3. ASSUME NEW i \in DOMAIN text
      PROVE  LET r == text[i].reference
             IN  /\ i \in Uses(text) /\ lock[r] # NoEntry =>
                      After(text)[i] = Pinned(text[i]) \/ OutOfReach(text, i)
                 /\ After(text)[i] # text[i] =>
                      /\ After(text)[i] = Pinned(text[i])
                      /\ r \in Locked(text) /\ IsFound(text, i)
  <2> DEFINE r == text[i].reference
  <2>1. After(text)[i] = IF r \in Proposals(text) /\ IsFound(text, i)
                         THEN Pinned(text[i]) ELSE text[i]
    BY DEF After
  <2>2. r \in Proposals(text) => r \in Locked(text)
    BY DEF Proposals
  <2>3. ASSUME i \in Uses(text), lock[r] # NoEntry, ~OutOfReach(text, i)
        PROVE  r \in Proposals(text) /\ IsFound(text, i)
    <3>1. i \in Scalars(text, r)
      BY <2>3 DEF OutOfReach, Scalars
    <3>2. r \in Proposals(text)
      BY <2>3, <3>1 DEF Proposals, Locked, Used
    <3>3. PICK j \in Scalars(text, r) : IsFound(text, j)
      BY <3>1, SomeScalarIsFound
    <3>4. CASE j # i
      <4>1. text[j].role # "other" /\ PerOccurrence(r)
        BY <2>3, <3>3, <3>4 DEF OutOfReach
      <4>2. j \in Uses(text) /\ text[j].reference = r
        BY <3>3, <4>1 DEF Scalars, Uses
      <4> QED
        BY <2>3, <3>2, <3>4, <4>1, <4>2, TwoUsesOverlap
    <3> QED
      BY <3>2, <3>3, <3>4
  <2> QED
    BY <2>1, <2>2, <2>3
<1> QED
  BY <1>2, <1>3 DEF FullyPinned

\* A text without a proposal is pinned as it is.
LEMMA NothingToPin ==
  ASSUME NEW f \in Files, f \notin Proposed
  PROVE  FullyPinned(source[f], source[f])
<1> DEFINE text == source[f]
<1>1. ASSUME NEW i \in Uses(text), lock[text[i].reference] # NoEntry
      PROVE  OutOfReach(text, i)
  <2>1. text[i].reference \in Locked(text) /\ i \in DOMAIN text
    BY <1>1 DEF Locked, Used, Uses
  <2>2. Scalars(text, text[i].reference) = {}
    BY <2>1 DEF Proposed, Proposals
  <2>3. text[i].role = "composed"
    BY <2>1, <2>2 DEF Scalars
  <2> QED
    BY <2>3 DEF OutOfReach
<1> QED
  BY <1>1 DEF FullyPinned

LEMMA FixInvHolds ==
  ASSUME Init
  PROVE  FixInv
<1>1. fix = "idle" /\ ~undisturbed
  BY DEF Init, FixInit
<1>2. temporary["fix"] = NoFile
  BY DEF Init
<1> QED
  BY <1>1, <1>2
     DEF FixInv, ReadIsCurrent, WrittenAsProposed, FixTemporary,
         FixPinsWhenPassed, NoFile

\* The terms in which FixInv speaks of the run's own state.
ownVars == <<fix, apply, unseen, source, lock, changes, fix_exit>>

LEMMA SameProposals ==
  ASSUME UNCHANGED <<source, lock>>
  PROVE  /\ Proposed' = Proposed
         /\ \A text : /\ Overlaps(text)' = Overlaps(text)
                      /\ After(text)' = After(text)
                      /\ \A after : FullyPinned(text, after)'
                                      = FullyPinned(text, after)
<1>1. \A text : Locked(text)' = Locked(text)
  BY DEF Locked
<1>2. \A text : Proposals(text)' = Proposals(text)
  BY <1>1 DEF Proposals
<1>3. Proposed' = Proposed
  BY <1>2 DEF Proposed
<1>4. \A mention : Pinned(mention)' = Pinned(mention)
  BY DEF Pinned
<1>5. ASSUME NEW text
      PROVE  /\ Overlaps(text)' = Overlaps(text)
             /\ After(text)' = After(text)
             /\ \A after : FullyPinned(text, after)' = FullyPinned(text, after)
  <2>1. Overlaps(text)' = Overlaps(text)
    BY <1>2 DEF Overlaps
  <2>2. After(text)' = After(text)
    BY <1>2, <1>4 DEF After
  <2>3. \A after : FullyPinned(text, after)' = FullyPinned(text, after)
    BY <1>1, <1>4 DEF FullyPinned
  <2> QED
    BY <2>1, <2>2, <2>3
<1> QED
  BY <1>3, <1>5

\* resolve, the tags and the editor: they leave alone what the command has,
\* and whoever writes a workflow file disturbs it.
LEMMA OthersKeepFix ==
  ASSUME FixInv, UNCHANGED ownVars,
         temporary'["fix"] = temporary["fix"],
         undisturbed' \in {undisturbed, FALSE},
         undisturbed' => \A f \in Files : disk'[f] = disk[f]
  PROVE  FixInv'
<1>1. UNCHANGED <<source, lock>> /\ UNCHANGED <<fix, apply, unseen, changes, fix_exit>>
  BY DEF ownVars
<1>2. (fix = "idle" => ~undisturbed)'
  BY <1>1 DEF FixInv
<1>3. undisturbed' => undisturbed
  OBVIOUS
<1>4. ReadIsCurrent'
  BY <1>1, <1>3 DEF FixInv, ReadIsCurrent
<1>5. WrittenAsProposed'
  BY <1>1, <1>3, SameProposals DEF FixInv, WrittenAsProposed
<1>6. FixTemporary'
  BY <1>1, SameProposals DEF FixInv, FixTemporary
<1>7. FixPinsWhenPassed'
  BY <1>1, <1>3, SameProposals DEF FixInv, FixPinsWhenPassed
<1> QED
  BY <1>2, <1>4, <1>5, <1>6, <1>7 DEF FixInv

\* The command has not begun to write.
LEMMA BeforeWritingKeepsFix ==
  ASSUME LockInv, TextInv, FixInv,
         \/ \E a \in BOOLEAN : FixStart(a)
         \/ \E f \in Files : FixReadSource(f)
         \/ FixReadLock \/ CombineFails \/ Propose
  PROVE  FixInv'
<1>1. /\ UNCHANGED diskVars /\ fix \in {"idle", "sources", "propose"}
      /\ fix' # "idle" /\ (fix' = "ended" => fix_exit' = 4)
  BY DEF FixStart, FixReadSource, FixReadLock, CombineFails, Propose, Ends
<1>2. FixTemporary'
  BY <1>1 DEF FixInv, FixTemporary, diskVars
<1>3. FixPinsWhenPassed'
  BY <1>1 DEF FixPinsWhenPassed
<1>4. ReadIsCurrent' /\ WrittenAsProposed'
  <2>1. CASE \E a \in BOOLEAN : FixStart(a)
    BY <2>1 DEF FixStart, ReadIsCurrent, WrittenAsProposed
  <2>2. ASSUME NEW f \in Files, FixReadSource(f)
        PROVE  ReadIsCurrent' /\ WrittenAsProposed'
    <3>1. /\ fix = "sources" /\ fix' = "sources"
          /\ disk' = disk /\ undisturbed' = undisturbed
          /\ unseen' = unseen \ {f}
          /\ source' = [source EXCEPT ![f] = disk[f]]
      BY <2>2 DEF FixReadSource, diskVars
    <3>2. ASSUME undisturbed, NEW g \in Files, g \notin unseen'
          PROVE  disk'[g] = source'[g]
      <4>1. CASE g = f
        BY <3>1, <4>1 DEF TextInv
      <4>2. CASE g # f
        <5>1. g \notin unseen
          BY <3>1, <3>2, <4>2
        <5>2. disk[g] = source[g]
          BY <3>1, <3>2, <5>1 DEF FixInv, ReadIsCurrent
        <5>3. source'[g] = source[g]
          BY <3>1, <4>2
        <5> QED
          BY <3>1, <5>2, <5>3
      <4> QED
        BY <4>1, <4>2
    <3> QED
      BY <3>1, <3>2 DEF ReadIsCurrent, WrittenAsProposed
  <2>3. CASE FixReadLock
    BY <2>3 DEF FixReadLock, diskVars, FixInv, ReadIsCurrent, WrittenAsProposed
  <2>4. CASE CombineFails
    BY <2>4 DEF CombineFails, Ends, ReadIsCurrent, WrittenAsProposed
  <2>5. CASE Propose
    <3>1. /\ fix = "propose" /\ fix' = "write"
          /\ disk' = disk /\ UNCHANGED <<source, lock, undisturbed>>
          /\ changes' = Proposed
          /\ \A f \in Proposed : ~Overlaps(source[f])
      BY <2>5 DEF Propose, diskVars, inputVars
    <3>2. undisturbed => \A f \in Files : disk[f] = source[f]
      BY <3>1 DEF FixInv, ReadIsCurrent
    <3>3. Proposed' = Proposed
      BY <3>1, SameProposals
    <3>4. \A f \in Proposed' : ~Overlaps(source[f])'
      BY <3>1, <3>3, SameProposals
    <3> QED
      BY <3>1, <3>2, <3>3, <3>4 DEF ReadIsCurrent, WrittenAsProposed
  <2> QED
    BY <2>1, <2>2, <2>3, <2>4, <2>5
<1> QED
  BY <1>1, <1>2, <1>3, <1>4 DEF FixInv

\* It writes one file after the other.
LEMMA WritingKeepsFix ==
  ASSUME LockInv, FixInv,
         FixWrite \/ FixReplace \/ \E f \in Files : FixCreate(f)
  PROVE  FixInv'
<1>1. /\ fix = "write" /\ fix' = "write"
      /\ UNCHANGED <<apply, unseen, source, lock, fix_exit, undisturbed>>
      /\ DOMAIN temporary = {"resolve", "fix"}
  BY DEF FixWrite, FixReplace, FixCreate, fixVars, inputVars, LockInv, TypeInv
<1>2. ReadIsCurrent' /\ FixPinsWhenPassed'
  BY <1>1 DEF ReadIsCurrent, FixPinsWhenPassed
<1>3. CASE \E f \in Files : FixCreate(f)
  <2>1. PICK f \in Files : FixCreate(f)
    BY <1>3
  <2>2. /\ apply /\ f \in changes
        /\ disk' = disk /\ changes' = changes
        /\ temporary'["fix"] = [state |-> "empty", path |-> f]
    BY <1>1, <2>1 DEF FixCreate, CreateTemporary, fixVars
  <2>3. FixTemporary'
    BY <1>1, <2>2 DEF FixTemporary
  <2>4. WrittenAsProposed'
    BY <1>1, <2>2, SameProposals DEF FixInv, WrittenAsProposed
  <2> QED
    BY <1>1, <1>2, <2>3, <2>4 DEF FixInv
<1>4. CASE FixWrite
  <2>1. /\ temporary["fix"].state = "empty"
        /\ disk' = disk /\ changes' = changes
        /\ temporary'["fix"] =
             [state |-> "synced", path |-> temporary["fix"].path,
              content |-> After(source[temporary["fix"].path])]
    BY <1>1, <1>4 DEF FixWrite, FillTemporary, fixVars
  <2>2. FixTemporary'
    <3>1. apply /\ temporary["fix"].path \in changes
      BY <2>1 DEF FixInv, FixTemporary
    <3> DEFINE path == temporary["fix"].path
    <3>2. \A text : After(text)' = After(text)
      BY <1>1, SameProposals
    <3>3. (temporary["fix"].content = After(source[temporary["fix"].path]))'
      <4>1. temporary'["fix"].path = path
        BY <2>1
      <4>2. temporary'["fix"].content = After(source[path])
        BY <2>1
      <4> QED
        BY <1>1, <4>1, <4>2, <3>2
    <3>4. (temporary["fix"].path \in changes)'
      BY <2>1, <3>1
    <3> QED
      BY <1>1, <3>1, <3>3, <3>4 DEF FixTemporary
  <2>3. WrittenAsProposed'
    BY <1>1, <2>1, SameProposals DEF FixInv, WrittenAsProposed
  <2> QED
    BY <1>1, <1>2, <2>2, <2>3 DEF FixInv
<1>5. CASE FixReplace
  <2> DEFINE path == temporary["fix"].path
  <2>1. /\ temporary["fix"].state = "synced"
        /\ disk' = [disk EXCEPT ![path] = temporary["fix"].content]
        /\ temporary'["fix"] = NoFile
        /\ changes' = changes \ {path}
    BY <1>1, <1>5 DEF FixReplace, RenameTemporary
  <2>2. /\ apply /\ path \in changes
        /\ temporary["fix"].content = After(source[path])
    BY <2>1 DEF FixInv, FixTemporary
  <2>3. FixTemporary'
    BY <2>1 DEF FixTemporary, NoFile
  <2>4. changes \subseteq Proposed /\ Proposed \subseteq Files
    BY <1>1 DEF FixInv, WrittenAsProposed, Proposed
  <2> HIDE DEF path
  <2>5. \A f \in Files : disk'[f] = IF f = path THEN After(source[path])
                                    ELSE disk[f]
    BY <2>1, <2>2, <2>4 DEF LockInv, TypeInv
  <2>6. Proposed' = Proposed /\ source' = source
    BY <1>1, SameProposals
  <2>7. \A f \in Proposed : ~Overlaps(source[f])'
    BY <1>1, SameProposals DEF FixInv, WrittenAsProposed
  <2>8. ASSUME undisturbed, NEW f \in Files
        PROVE  disk'[f] = IF f \in Proposed \ changes' /\ apply
                          THEN After(source[f]) ELSE source[f]
    <3>1. disk[f] = IF f \in Proposed \ changes /\ apply
                    THEN After(source[f]) ELSE source[f]
      BY <1>1, <2>8 DEF FixInv, WrittenAsProposed
    <3> QED
      BY <2>1, <2>2, <2>4, <2>5, <3>1
  <2>9. \A f \in Files : After(source[f])' = After(source[f])
    BY <1>1, SameProposals
  <2>10. WrittenAsProposed'
    BY <1>1, <2>1, <2>4, <2>6, <2>7, <2>8, <2>9 DEF WrittenAsProposed
  <2> QED
    BY <1>1, <1>2, <2>3, <2>10 DEF FixInv
<1> QED
  BY <1>3, <1>4, <1>5

\* It ends: every proposed file was replaced, or it failed.
LEMMA EndKeepsFix ==
  ASSUME LockInv, TextInv, FixInv,
         FixDone \/ FixWriteFails \/ FixKilled
  PROVE  FixInv'
<1>1. /\ fix' \in {"ended", "killed"} /\ disk' = disk
      /\ fix' = "ended" => fix = "write" /\ UNCHANGED <<source, lock, apply, undisturbed>>
  BY DEF FixDone, FixWriteFails, FixKilled, WriteFails, Abandoned, Ends,
         inputVars, diskVars
<1>2. ReadIsCurrent' /\ WrittenAsProposed'
  BY <1>1 DEF ReadIsCurrent, WrittenAsProposed
<1>3. FixTemporary'
  <2>1. CASE FixWriteFails \/ FixKilled
    <3>1. temporary'["fix"] = NoFile
      BY <2>1 DEF FixWriteFails, FixKilled, WriteFails, Abandoned, LockInv,
                  TypeInv
    <3> QED
      BY <3>1 DEF FixTemporary, NoFile
  <2>2. CASE FixDone
    <3>1. changes = {} \/ ~apply
      BY <2>2 DEF FixDone
    <3>2. temporary["fix"].state \notin {"empty", "synced"}
      BY <3>1 DEF FixInv, FixTemporary
    <3>3. temporary' = temporary
      BY <2>2 DEF FixDone, diskVars
    <3> QED
      BY <3>2, <3>3 DEF FixTemporary
  <2> QED
    BY <2>1, <2>2
<1>4. FixPinsWhenPassed'
  <2>1. CASE FixWriteFails \/ FixKilled
    BY <2>1 DEF FixWriteFails, FixKilled, Ends, FixPinsWhenPassed
  <2>2. CASE FixDone
    <3>1. /\ fix = "write" /\ (changes = {} \/ ~apply)
          /\ UNCHANGED <<disk, source, lock, apply, undisturbed>>
      BY <2>2 DEF FixDone, inputVars, diskVars
    <3>2. ASSUME apply, undisturbed, NEW f \in Files
          PROVE  FullyPinned(source[f], disk[f])
      <4>1. disk[f] = IF f \in Proposed THEN After(source[f]) ELSE source[f]
        BY <3>1, <3>2 DEF FixInv, WrittenAsProposed
      <4>2. CASE f \in Proposed
        <5>1. ~Overlaps(source[f])
          BY <3>1, <4>2 DEF FixInv, WrittenAsProposed
        <5>2. source[f] \in Texts
          BY DEF TextInv
        <5> QED
          BY <4>1, <4>2, <5>1, <5>2, AfterPinsAll
      <4>3. CASE f \notin Proposed
        BY <4>1, <4>3, NothingToPin
      <4> QED
        BY <4>2, <4>3
    <3> QED
      BY <3>1, <3>2, SameProposals DEF FixPinsWhenPassed
  <2> QED
    BY <2>1, <2>2
<1> QED
  BY <1>1, <1>2, <1>3, <1>4 DEF FixInv

LEMMA FixInvKept ==
  ASSUME LockInv, TextInv, FixInv, [Next]_vars
  PROVE  FixInv'
<1>1. ASSUME FixStep \/ FixKilled \/ \E a \in BOOLEAN : FixStart(a)
      PROVE  FixInv'
  BY <1>1, BeforeWritingKeepsFix, WritingKeepsFix, EndKeepsFix DEF FixStep
<1>2. CASE UNCHANGED vars \/ (\E n \in Moving : Resolving(MoveTag(n)))
  <2>1. UNCHANGED <<ownVars, diskVars, undisturbed>>
    BY <1>2 DEF vars, Resolving, MoveTag, fixVars, inputVars, ownVars
  <2> QED
    BY <2>1, OthersKeepFix DEF diskVars
<1>3. CASE \/ Resolving(ResolveStep) \/ Resolving(ResolveKilled)
           \/ \E u, n \in BOOLEAN : Resolving(ResolveStart(u, n))
  <2>1. UNCHANGED <<ownVars, undisturbed>>
    BY <1>3 DEF Resolving, fixVars, inputVars, ownVars
  <2>2. /\ \A f \in Files : disk'[f] = disk[f]
        /\ temporary'["fix"] = temporary["fix"]
    BY <1>3, ResolveKeepsFiles DEF Resolving
  <2> QED
    BY <2>1, <2>2, OthersKeepFix
<1>4. ASSUME NEW f \in Files, NEW text \in Drafts, Edit(f, text)
      PROVE  FixInv'
  <2>1. UNCHANGED <<ownVars, temporary>> /\ undisturbed' = FALSE
    BY <1>4 DEF Edit, inputVars, ownVars
  <2> QED
    BY <2>1, OthersKeepFix
<1> QED
  BY <1>1, <1>2, <1>3, <1>4 DEF Next, Fixing

\* command_fix: a `fix --apply` that passed and that nobody disturbed has pinned
\* every use of a locked reference that find_scalar reaches, in a GitHub
\* workflow also where there are several, and has changed nothing but the
\* scalars found for locked references.
THEOREM PassedFixesArePinned == Spec => []FixPinsWhenPassed
<1>1. Init => FixInv
  BY FixInvHolds
<1>2. LockInv /\ TextInv /\ FixInv /\ [Next]_vars => FixInv'
  BY FixInvKept
<1>3. FixInv => FixPinsWhenPassed
  BY DEF FixInv
<1> QED
  BY <1>1, <1>2, <1>3, LockInvariant, TextAndPassInvariant, PTL DEF Spec
=============================================================================
