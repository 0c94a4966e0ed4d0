------------------------- MODULE ProxyControl_proofs -------------------------
(***************************************************************************)
(* Theorems about one proxy from its row to its process (ProxyControl over *)
(* ProxySup and ProxyConfig), for any credentials and networks.            *)
(***************************************************************************)
EXTENDS ProxyControl, FiniteSetTheorems, SequenceTheorems, TLAPS

-----------------------------------------------------------------------------
(* What is rendered.  A file is read by its lines: where the access        *)
(* control of each service begins and ends, and what it allows.            *)

Args == Users \cup Nets \cup {{}, {"strong"}, {"iponly", "strong"}}
LineSet == [cmd : {"auth", "users", "flush", "allow", "deny", "proxy", "socks"}, arg : Args]

LEMMA SetToSeqIs ==
    ASSUME NEW S, IsFiniteSet(S)
    PROVE  /\ SetToSeq(S) \in Seq(S) /\ Len(SetToSeq(S)) = Cardinality(S)
           /\ \A x \in S : \E i \in 1 .. Len(SetToSeq(S)) : SetToSeq(S)[i] = x
<1> DEFINE n == Cardinality(S)
           f == SetToSeq(S)
<1>1. n \in Nat /\ ExistsBijection(1 .. n, S)
  BY FS_CardinalityType
<1>2. \E g \in [1 .. n -> S] : IsInjective(g)
  BY <1>1 DEF ExistsBijection, Bijection, Injection
<1>3. f \in [1 .. n -> S] /\ IsInjective(f)
  BY <1>2 DEF SetToSeq
<1> HIDE DEF f
<1>4. f \in Injection(1 .. n, S)
  BY <1>3 DEF Injection
<1>5. IsFiniteSet(1 .. n) /\ Cardinality(1 .. n) = n
  BY <1>1, FS_Interval
<1>6. f \in Surjection(1 .. n, S)
  BY <1>4, <1>5, FS_Injection
<1>7. f \in Seq(S) /\ Len(f) = n
  <2>1. f \in Seq(S)
    BY <1>1, <1>3, SeqDef
  <2> QED
    BY <1>1, <1>3, <2>1, LenProperties
<1>8. \A x \in S : \E i \in 1 .. n : f[i] = x
  BY <1>6 DEF Surjection
<1> QED
  BY <1>7, <1>8 DEF f

LEMMA LinesAre ==
    ASSUME NEW c \in {"users", "allow"}, NEW args, args \subseteq Users \cup Nets
    PROVE  /\ Lines(c, args) \in Seq(LineSet)
           /\ \A i \in 1 .. Len(Lines(c, args)) : Lines(c, args)[i].cmd = c /\ Lines(c, args)[i].arg \in args
           /\ \A a \in args : \E i \in 1 .. Len(Lines(c, args)) : Lines(c, args)[i].arg = a
<1> DEFINE S == {Line(c, a) : a \in args}
           t == [a \in args |-> Line(c, a)]
<1>1. IsFiniteSet(args)
  BY ConfigAssumption, FS_Union, FS_Subset
<1>2. t \in Surjection(args, S)
  BY DEF Surjection
<1>3. IsFiniteSet(S)
  <2> HIDE DEF S, t
  <2> QED
    BY <1>1, <1>2, FS_Surjection
<1>4. \A x \in S : x \in LineSet /\ x.cmd = c /\ x.arg \in args
  BY DEF Line, LineSet, Args
<1>5. Lines(c, args) = SetToSeq(S)
  BY DEF Lines
<1>6. \A a \in args : Line(c, a) \in S /\ Line(c, a).arg = a
  BY DEF Line
<1> HIDE DEF S
<1>7. /\ SetToSeq(S) \in Seq(S) /\ Len(SetToSeq(S)) = Cardinality(S)
      /\ \A x \in S : \E i \in 1 .. Len(SetToSeq(S)) : SetToSeq(S)[i] = x
  BY <1>3, SetToSeqIs
<1>8. SetToSeq(S) \in Seq(LineSet)
  BY <1>4, <1>7, SeqMonotonic
<1>9. \A i \in 1 .. Len(SetToSeq(S)) : SetToSeq(S)[i] \in S
  BY <1>7, ElementOfSeq
<1> QED
  BY <1>4, <1>5, <1>6, <1>7, <1>8, <1>9

\* A line on its own is a sequence of one line.
LEMMA OneLine ==
    ASSUME NEW ln \in LineSet
    PROVE  <<ln>> \in Seq(LineSet) /\ Len(<<ln>>) = 1 /\ <<ln>>[1] = ln
  OBVIOUS

\* Two runs of lines one after the other.
LEMMA Joined ==
    ASSUME NEW s \in Seq(LineSet), NEW t \in Seq(LineSet)
    PROVE  /\ s \o t \in Seq(LineSet) /\ Len(s \o t) = Len(s) + Len(t)
           /\ Len(s) \in Nat /\ Len(t) \in Nat
           /\ \A i \in 1 .. Len(s) : (s \o t)[i] = s[i]
           /\ \A i \in 1 .. Len(t) : (s \o t)[Len(s) + i] = t[i]
<1>1. /\ s \o t \in Seq(LineSet) /\ Len(s \o t) = Len(s) + Len(t)
      /\ \A i \in 1 .. Len(s) + Len(t) : (s \o t)[i] = IF i <= Len(s) THEN s[i] ELSE t[i - Len(s)]
  BY ConcatProperties
<1>2. Len(s) \in Nat /\ Len(t) \in Nat
  BY LenProperties
<1> DEFINE c == s \o t
           m == Len(s)
           n == Len(t)
<1>3. \A i \in 1 .. m + n : c[i] = IF i <= m THEN s[i] ELSE t[i - m]
  BY <1>1
<1> HIDE DEF c, m, n
<1>4. m \in Nat /\ n \in Nat
  BY <1>2 DEF m, n
<1>5. \A i \in 1 .. m : c[i] = s[i]
  BY <1>3, <1>4
<1>6. \A i \in 1 .. n : c[m + i] = t[i]
  <2> SUFFICES ASSUME NEW i \in 1 .. n PROVE c[m + i] = t[i]
    OBVIOUS
  <2>1. m + i \in 1 .. m + n /\ ~(m + i <= m) /\ (m + i) - m = i
    BY <1>4
  <2> QED
    BY <1>3, <2>1
<1> QED
  BY <1>1, <1>2, <1>5, <1>6 DEF c, m, n

\* The lines of an access control block: a flush, the allows, a deny.
IsBlock(b, who) ==
    /\ b \in Seq(LineSet) /\ Len(b) >= 2
    /\ b[1].cmd = "flush" /\ b[Len(b)].cmd = "deny"
    /\ \A i \in 2 .. Len(b) - 1 : b[i].cmd = "allow" /\ b[i].arg \in who
    /\ \A c \in who : \E i \in 2 .. Len(b) - 1 : b[i].arg = c

\* What ACL renders for a specification of users and networks is such a block,
\* for those the mode names (writeACL of render.go).
LEMMA ACLIs ==
    ASSUME NEW sp \in Specs
    PROVE  IsBlock(ACL(sp), Named(sp))
<1> DEFINE F == <<Line("flush", {})>>
           D == <<Line("deny", {})>>
           X == IF UsesUserPass(sp.mode) THEN Lines("allow", sp.users) ELSE <<>>
           Y == IF UsesIPList(sp.mode) THEN Lines("allow", sp.nets) ELSE <<>>
           XS == IF UsesUserPass(sp.mode) THEN sp.users ELSE {}
           YS == IF UsesIPList(sp.mode) THEN sp.nets ELSE {}
<1>1. ACL(sp) = ((F \o X) \o Y) \o D /\ Named(sp) = XS \cup YS
  BY DEF ACL, Named
<1>2. sp.users \subseteq Users /\ sp.nets \subseteq Nets
  BY DEF Specs
<1>3. Line("flush", {}) \in LineSet /\ Line("deny", {}) \in LineSet
  BY DEF Line, LineSet, Args
<1>4. /\ F \in Seq(LineSet) /\ Len(F) = 1 /\ F[1] = Line("flush", {})
      /\ D \in Seq(LineSet) /\ Len(D) = 1 /\ D[1] = Line("deny", {})
  BY <1>3, OneLine
<1>5. /\ X \in Seq(LineSet)
      /\ \A i \in 1 .. Len(X) : X[i].cmd = "allow" /\ X[i].arg \in XS
      /\ \A c \in XS : \E i \in 1 .. Len(X) : X[i].arg = c
  <2>1. CASE UsesUserPass(sp.mode)
    BY <1>2, <2>1, LinesAre
  <2>2. CASE ~UsesUserPass(sp.mode)
    BY <2>2
  <2> QED
    BY <2>1, <2>2
<1>6. /\ Y \in Seq(LineSet)
      /\ \A i \in 1 .. Len(Y) : Y[i].cmd = "allow" /\ Y[i].arg \in YS
      /\ \A c \in YS : \E i \in 1 .. Len(Y) : Y[i].arg = c
  <2>1. CASE UsesIPList(sp.mode)
    BY <1>2, <2>1, LinesAre
  <2>2. CASE ~UsesIPList(sp.mode)
    BY <2>2
  <2> QED
    BY <2>1, <2>2
<1>7. F[1].cmd = "flush" /\ D[1].cmd = "deny"
  BY <1>4 DEF Line
<1> HIDE DEF F, D, X, Y, XS, YS
<1> DEFINE x == Len(X)
           y == Len(Y)
<1>8. x \in Nat /\ y \in Nat
  BY <1>5, <1>6, LenProperties
<1> DEFINE FX == F \o X
<1>9. /\ FX \in Seq(LineSet) /\ Len(FX) = Len(F) + x
      /\ \A i \in 1 .. Len(F) : FX[i] = F[i]
      /\ \A i \in 1 .. x : FX[Len(F) + i] = X[i]
  BY <1>4, <1>5, Joined
<1> HIDE DEF FX
<1> DEFINE FXY == FX \o Y
<1>10. /\ FXY \in Seq(LineSet) /\ Len(FXY) = Len(FX) + y
       /\ \A i \in 1 .. Len(FX) : FXY[i] = FX[i]
       /\ \A i \in 1 .. y : FXY[Len(FX) + i] = Y[i]
  BY <1>6, <1>9, Joined
<1> HIDE DEF FXY
<1> DEFINE B == FXY \o D
<1>11. /\ B \in Seq(LineSet) /\ Len(B) = Len(FXY) + Len(D)
       /\ \A i \in 1 .. Len(FXY) : B[i] = FXY[i]
       /\ \A i \in 1 .. Len(D) : B[Len(FXY) + i] = D[i]
  BY <1>4, <1>10, Joined
<1> HIDE DEF B
<1>12. /\ B \in Seq(LineSet) /\ Len(B) = 2 + x + y
       /\ B[1] = F[1] /\ B[2 + x + y] = D[1]
       /\ \A i \in 1 .. x : B[1 + i] = X[i]
       /\ \A i \in 1 .. y : B[1 + x + i] = Y[i]
  <2>1. Len(FX) = 1 + x /\ Len(FXY) = 1 + x + y
    BY <1>4, <1>8, <1>9, <1>10
  <2>2. \A i \in 1 .. y : B[1 + x + i] = Y[i]
    BY <1>8, <1>10, <1>11, <2>1
  <2>3. ASSUME NEW i \in 1 .. x PROVE B[1 + i] = X[i]
    <3>1. 1 + i \in 1 .. Len(FX) /\ 1 + i \in 1 .. Len(FXY)
      BY <1>8, <2>1
    <3>2. FX[1 + i] = X[i]
      BY <1>4, <1>9
    <3> QED
      BY <1>10, <1>11, <3>1, <3>2
  <2>4. B[1] = F[1]
    BY <1>4, <1>8, <1>9, <1>10, <1>11, <2>1
  <2>5. B[2 + x + y] = D[1] /\ Len(B) = 2 + x + y
    BY <1>4, <1>8, <1>11, <2>1
  <2> QED
    BY <1>11, <2>2, <2>3, <2>4, <2>5
<1>13. \A i \in 2 .. Len(B) - 1 : B[i].cmd = "allow" /\ B[i].arg \in XS \cup YS
  <2> SUFFICES ASSUME NEW i \in 2 .. Len(B) - 1
               PROVE  B[i].cmd = "allow" /\ B[i].arg \in XS \cup YS
    OBVIOUS
  <2>1. CASE i <= 1 + x
    <3>1. i - 1 \in 1 .. x /\ B[i] = X[i - 1]
      BY <1>8, <1>12, <2>1
    <3> QED
      BY <1>5, <3>1
  <2>2. CASE ~(i <= 1 + x)
    <3>1. i - (1 + x) \in 1 .. y /\ B[i] = Y[i - (1 + x)]
      BY <1>8, <1>12, <2>2
    <3> QED
      BY <1>6, <3>1
  <2> QED
    BY <2>1, <2>2
<1>14. ASSUME NEW c \in XS \cup YS
       PROVE  \E i \in 2 .. Len(B) - 1 : B[i].arg = c
  <2>1. CASE c \in XS
    <3>1. PICK i \in 1 .. x : X[i].arg = c
      BY <1>5, <2>1
    <3>2. 1 + i \in 2 .. Len(B) - 1 /\ B[1 + i].arg = c
      BY <1>8, <1>12, <3>1
    <3> QED
      BY <3>2
  <2>2. CASE c \in YS
    <3>1. PICK i \in 1 .. y : Y[i].arg = c
      BY <1>6, <2>2
    <3>2. 1 + x + i \in 2 .. Len(B) - 1 /\ B[1 + x + i].arg = c
      BY <1>8, <1>12, <3>1
    <3> QED
      BY <3>2
  <2> QED
    BY <2>1, <2>2
<1>15. IsBlock(B, XS \cup YS)
  BY <1>7, <1>8, <1>12, <1>13, <1>14 DEF IsBlock
<1> QED
  BY <1>1, <1>15 DEF B, FXY, FX

\* Where the lines of a rendered file are: the auth line, u users, and for each
\* of the two services an access control block of a lines and its own line.
IsFile(f, U, A) ==
    LET u == Len(U)
        a == Len(A)
    IN  /\ DOMAIN f = 1 .. 3 + u + 2 * a
        /\ f[1].cmd = "auth"
        /\ \A i \in 1 .. u : f[1 + i] = U[i]
        /\ \A i \in 1 .. a : f[1 + u + i] = A[i]
        /\ f[2 + u + a].cmd = "proxy"
        /\ \A i \in 1 .. a : f[2 + u + a + i] = A[i]
        /\ f[3 + u + 2 * a].cmd = "socks"

\* Render puts them there (render.go).
LEMMA RenderIs ==
    ASSUME NEW sp \in Specs
    PROVE  /\ IsFile(Render(sp), Lines("users", sp.users), ACL(sp))
           /\ Render(sp)[1].arg = AuthTypes(sp.mode)
<1> DEFINE H == <<Line("auth", AuthTypes(sp.mode))>>
           U == Lines("users", sp.users)
           A == ACL(sp)
           P == <<Line("proxy", {})>>
           K == <<Line("socks", {})>>
           u == Len(U)
           a == Len(A)
<1>1. Render(sp) = ((((H \o U) \o A) \o P) \o A) \o K
  BY DEF Render
<1>2. /\ Line("auth", AuthTypes(sp.mode)) \in LineSet
      /\ Line("proxy", {}) \in LineSet /\ Line("socks", {}) \in LineSet
  BY DEF Line, LineSet, Args, AuthTypes
<1>3. /\ H \in Seq(LineSet) /\ Len(H) = 1 /\ H[1] = Line("auth", AuthTypes(sp.mode))
      /\ P \in Seq(LineSet) /\ Len(P) = 1 /\ P[1] = Line("proxy", {})
      /\ K \in Seq(LineSet) /\ Len(K) = 1 /\ K[1] = Line("socks", {})
  BY <1>2, OneLine
<1>4. H[1].cmd = "auth" /\ H[1].arg = AuthTypes(sp.mode) /\ P[1].cmd = "proxy" /\ K[1].cmd = "socks"
  BY <1>3 DEF Line
<1>5. U \in Seq(LineSet) /\ u \in Nat
  <2>1. U \in Seq(LineSet)
    BY LinesAre DEF Specs
  <2> QED
    BY <2>1, LenProperties
<1>6. A \in Seq(LineSet) /\ a \in Nat
  BY ACLIs, LenProperties DEF IsBlock
<1> HIDE DEF H, U, A, P, K
<1> DEFINE s1 == H \o U
<1>7. /\ s1 \in Seq(LineSet) /\ Len(s1) = Len(H) + Len(U)
      /\ \A i \in 1 .. Len(H) : s1[i] = H[i]
      /\ \A i \in 1 .. Len(U) : s1[Len(H) + i] = U[i]
  BY <1>3, <1>5, Joined
<1> HIDE DEF s1
<1> DEFINE s2 == s1 \o A
<1>8. /\ s2 \in Seq(LineSet) /\ Len(s2) = Len(s1) + Len(A)
      /\ \A i \in 1 .. Len(s1) : s2[i] = s1[i]
      /\ \A i \in 1 .. Len(A) : s2[Len(s1) + i] = A[i]
  BY <1>6, <1>7, Joined
<1> HIDE DEF s2
<1> DEFINE s3 == s2 \o P
<1>9. /\ s3 \in Seq(LineSet) /\ Len(s3) = Len(s2) + Len(P)
      /\ \A i \in 1 .. Len(s2) : s3[i] = s2[i]
      /\ \A i \in 1 .. Len(P) : s3[Len(s2) + i] = P[i]
  BY <1>3, <1>8, Joined
<1> HIDE DEF s3
<1> DEFINE s4 == s3 \o A
<1>10. /\ s4 \in Seq(LineSet) /\ Len(s4) = Len(s3) + Len(A)
       /\ \A i \in 1 .. Len(s3) : s4[i] = s3[i]
       /\ \A i \in 1 .. Len(A) : s4[Len(s3) + i] = A[i]
  BY <1>6, <1>9, Joined
<1> HIDE DEF s4
<1> DEFINE s5 == s4 \o K
<1>11. /\ s5 \in Seq(LineSet) /\ Len(s5) = Len(s4) + Len(K)
       /\ \A i \in 1 .. Len(s4) : s5[i] = s4[i]
       /\ \A i \in 1 .. Len(K) : s5[Len(s4) + i] = K[i]
  BY <1>3, <1>10, Joined
<1> HIDE DEF s5
<1>12. /\ Len(s1) = 1 + u /\ Len(s2) = 1 + u + a /\ Len(s3) = 2 + u + a
       /\ Len(s4) = 2 + u + 2 * a /\ Len(s5) = 3 + u + 2 * a
       /\ DOMAIN s5 = 1 .. 3 + u + 2 * a
  <2>1. DOMAIN s5 = 1 .. Len(s5)
    BY <1>11, LenProperties
  <2> QED
    BY <1>3, <1>5, <1>6, <1>7, <1>8, <1>9, <1>10, <1>11, <2>1
<1>13. /\ \A i \in 1 .. 1 + u : s5[i] = s1[i]
       /\ \A i \in 1 .. 1 + u + a : s5[i] = s2[i]
       /\ \A i \in 1 .. 2 + u + a : s5[i] = s3[i]
       /\ \A i \in 1 .. 2 + u + 2 * a : s5[i] = s4[i]
  <2>1. \A i \in 1 .. 2 + u + 2 * a : s5[i] = s4[i]
    BY <1>11, <1>12
  <2>2. \A i \in 1 .. 2 + u + a : s5[i] = s3[i]
    BY <1>5, <1>6, <1>10, <1>12, <2>1
  <2>3. \A i \in 1 .. 1 + u + a : s5[i] = s2[i]
    BY <1>5, <1>6, <1>9, <1>12, <2>2
  <2>4. \A i \in 1 .. 1 + u : s5[i] = s1[i]
    BY <1>5, <1>6, <1>8, <1>12, <2>3
  <2> QED
    BY <2>1, <2>2, <2>3, <2>4
<1>14. s5[1] = H[1] /\ \A i \in 1 .. u : s5[1 + i] = U[i]
  BY <1>3, <1>5, <1>7, <1>13
<1>15. \A i \in 1 .. a : s5[1 + u + i] = A[i]
  BY <1>5, <1>6, <1>8, <1>12, <1>13
<1>16. s5[2 + u + a] = P[1]
  <2>1. (1 + u + a) + 1 = 2 + u + a /\ 2 + u + a \in 1 .. 2 + u + a
    BY <1>5, <1>6
  <2> QED
    BY <1>3, <1>9, <1>12, <1>13, <2>1
<1>17. \A i \in 1 .. a : s5[2 + u + a + i] = A[i]
  <2> SUFFICES ASSUME NEW i \in 1 .. a PROVE s5[2 + u + a + i] = A[i]
    OBVIOUS
  <2>1. 2 + u + a + i \in 1 .. 2 + u + 2 * a
    BY <1>5, <1>6
  <2> QED
    BY <1>10, <1>12, <1>13, <2>1
<1>18. s5[3 + u + 2 * a] = K[1]
  <2>1. (2 + u + 2 * a) + 1 = 3 + u + 2 * a
    BY <1>5, <1>6
  <2> QED
    BY <1>3, <1>11, <1>12, <2>1
<1>19. IsFile(s5, U, A) /\ s5[1].arg = AuthTypes(sp.mode)
  BY <1>4, <1>12, <1>13, <1>14, <1>15, <1>16, <1>17, <1>18 DEF IsFile
<1> QED
  BY <1>1, <1>19 DEF s5, s4, s3, s2, s1, H, U, A, P, K

\* What a service sees of a file in which an access control block stands right
\* before its line (verifyACLBlocks of render.go reads the same lines).
SeesBlock(f, i, p, n, who) ==
    /\ BlockOf(f, i) = (p + 2) .. (p + n)
    /\ p + 1 \in 1 .. i /\ f[p + 1].cmd = "flush"
    /\ p + n \in BlockOf(f, i) /\ f[p + n].cmd = "deny"
    /\ \A k \in BlockOf(f, i) : k # p + n => k < p + n /\ f[k].cmd = "allow"
    /\ Allowed(f, i) = who

\* A block that stands between line p and the service is what the service sees.
LEMMA BlockBefore ==
    ASSUME NEW f, NEW A, NEW who, IsBlock(A, who), NEW p \in Nat, NEW i \in Nat,
           i = p + Len(A) + 1, f[i].cmd \in Services,
           \A k \in 1 .. Len(A) : f[p + k] = A[k]
    PROVE  SeesBlock(f, i, p, Len(A), who)
<1> DEFINE a == Len(A)
<1>1. a \in Nat /\ a >= 2 /\ A[1].cmd = "flush" /\ A[a].cmd = "deny"
  BY LenProperties DEF IsBlock
<1>2. /\ \A k \in 2 .. a - 1 : A[k].cmd = "allow" /\ A[k].arg \in who
      /\ \A c \in who : \E k \in 2 .. a - 1 : A[k].arg = c
      /\ \A k \in 1 .. a : f[p + k] = A[k]
      /\ i = p + a + 1
  BY DEF IsBlock
<1>2a. i - 1 = p + a /\ i - 1 \in Nat /\ i \in Nat
  BY <1>1
<1>3. \A k \in (p + 2) .. (p + a - 1) : f[k].cmd = "allow" /\ f[k].arg \in who
  <2> SUFFICES ASSUME NEW k \in (p + 2) .. (p + a - 1) PROVE f[k].cmd = "allow" /\ f[k].arg \in who
    OBVIOUS
  <2> HIDE DEF a
  <2>1. k - p \in 2 .. a - 1 /\ k - p \in 1 .. a /\ p + (k - p) = k
    BY <1>1
  <2>2. f[k] = A[k - p]
    BY <1>2, <2>1
  <2> QED
    BY <1>2, <2>1, <2>2
<1>4. \A c \in who : \E k \in (p + 2) .. (p + a - 1) : f[k].arg = c
  <2> SUFFICES ASSUME NEW c \in who PROVE \E k \in (p + 2) .. (p + a - 1) : f[k].arg = c
    OBVIOUS
  <2>1. PICK k \in 2 .. a - 1 : A[k].arg = c
    BY <1>2
  <2> HIDE DEF a
  <2>2. k \in 1 .. a /\ p + k \in (p + 2) .. (p + a - 1)
    BY <1>1
  <2> QED
    BY <1>2, <2>1, <2>2
<1>5. f[p + 1].cmd = "flush" /\ f[p + a].cmd = "deny"
  <2> HIDE DEF a
  <2> QED
    BY <1>1, <1>2
<1> HIDE DEF a
<1> DEFINE flushes == {j \in 1 .. i : f[j].cmd = "flush"}
<1>6. p + 1 \in flushes /\ \A j \in flushes : j <= p + 1
  <2>1. p + 1 \in 1 .. i
    BY <1>1, <1>2
  <2>2. ASSUME NEW j \in 1 .. i, j > p + 1
        PROVE  f[j].cmd # "flush"
    <3>1. CASE j = i
      BY <3>1 DEF Services
    <3>2. CASE j = p + a
      BY <1>5, <3>2
    <3>3. CASE j # i /\ j # p + a
      <4>1. j \in (p + 2) .. (p + a - 1)
        BY <1>1, <1>2, <2>2, <3>3
      <4> QED
        BY <1>3, <4>1
    <3> QED
      BY <3>1, <3>2, <3>3
  <2> QED
    BY <1>5, <2>1, <2>2
<1>7. BlockOf(f, i) = {k \in 1 .. i - 1 : \A j \in flushes : j < k}
  BY DEF BlockOf
<1> DEFINE b == BlockOf(f, i)
<1>8. b = (p + 2) .. (p + a)
  <2>1. \A j \in flushes : j \in Nat
    OBVIOUS
  <2> HIDE DEF flushes
  <2>3. ASSUME NEW k \in 1 .. p + a
        PROVE  (\A j \in flushes : j < k) <=> k \in (p + 2) .. (p + a)
    BY <1>1, <1>6, <2>1
  <2>4. (p + 2) .. (p + a) \subseteq 1 .. p + a
    BY <1>1
  <2> QED
    BY <1>7, <1>2a, <2>3, <2>4
<1> HIDE DEF b
<1>9. p + a \in b /\ \A k \in b : k # p + a => k < p + a /\ f[k].cmd = "allow"
  <2>1. p + a \in b
    BY <1>1, <1>8
  <2>2. ASSUME NEW k \in b, k # p + a
        PROVE  k < p + a /\ k \in (p + 2) .. (p + a - 1)
    BY <1>1, <1>8, <2>2
  <2> QED
    BY <1>3, <2>1, <2>2
<1>10. {f[k].arg : k \in {j \in b : f[j].cmd = "allow"}} = who
  <2>1. ASSUME NEW k \in b, f[k].cmd = "allow"
        PROVE  f[k].arg \in who
    <3>1. k # p + a
      BY <1>5, <2>1
    <3>2. k \in (p + 2) .. (p + a - 1)
      BY <1>1, <1>8, <3>1
    <3> QED
      BY <1>3, <3>2
  <2>2. ASSUME NEW c \in who
        PROVE  \E k \in b : f[k].cmd = "allow" /\ f[k].arg = c
    BY <1>1, <1>3, <1>4, <1>8
  <2> QED
    BY <2>1, <2>2
<1> QED
  BY <1>1, <1>2, <1>5, <1>6, <1>8, <1>9, <1>10 DEF b, a, Allowed, SeesBlock

\* The lines of a rendered file, one by one.
LEMMA LineByLine ==
    ASSUME NEW sp \in Specs, NEW f, NEW U, NEW A,
           f = Render(sp), U = Lines("users", sp.users), A = ACL(sp)
    PROVE  /\ Len(U) \in Nat /\ Len(A) \in Nat /\ Len(A) >= 2
           /\ \A i \in DOMAIN f :
                 \/ i = 1 /\ f[i].cmd = "auth" /\ f[i].arg = AuthTypes(sp.mode)
                 \/ i \in 2 .. 1 + Len(U) /\ f[i].cmd = "users" /\ f[i].arg \in sp.users
                 \/ f[i].cmd \in {"flush", "allow", "deny"} /\ (f[i].cmd = "allow" => f[i].arg \in Named(sp))
                 \/ i = 2 + Len(U) + Len(A) /\ f[i].cmd = "proxy"
                 \/ i = 3 + Len(U) + 2 * Len(A) /\ f[i].cmd = "socks"
<1> DEFINE u == Len(U)
           a == Len(A)
<1>1. IsFile(f, U, A) /\ f[1].arg = AuthTypes(sp.mode)
  BY RenderIs
<1>2. IsBlock(A, Named(sp))
  BY ACLIs
<1>3. /\ U \in Seq(LineSet)
      /\ \A i \in 1 .. u : U[i].cmd = "users" /\ U[i].arg \in sp.users
  BY LinesAre DEF Specs
<1>4. u \in Nat /\ a \in Nat /\ a >= 2
  BY <1>2, <1>3, LenProperties DEF IsBlock
<1>5. \A i \in 1 .. a : A[i].cmd \in {"flush", "allow", "deny"} /\ (A[i].cmd = "allow" => A[i].arg \in Named(sp))
  <2> SUFFICES ASSUME NEW i \in 1 .. a
               PROVE  A[i].cmd \in {"flush", "allow", "deny"} /\ (A[i].cmd = "allow" => A[i].arg \in Named(sp))
    OBVIOUS
  <2>1. i = 1 \/ i = a \/ i \in 2 .. a - 1
    BY <1>4
  <2> QED
    BY <1>2, <2>1 DEF IsBlock
<1>6. /\ DOMAIN f = 1 .. 3 + u + 2 * a
      /\ f[1].cmd = "auth" /\ f[1].arg = AuthTypes(sp.mode)
      /\ \A i \in 1 .. u : f[1 + i] = U[i]
      /\ \A i \in 1 .. a : f[1 + u + i] = A[i]
      /\ f[2 + u + a].cmd = "proxy"
      /\ \A i \in 1 .. a : f[2 + u + a + i] = A[i]
      /\ f[3 + u + 2 * a].cmd = "socks"
  BY <1>1 DEF IsFile
<1> HIDE DEF u, a
<1>7. ASSUME NEW i \in 1 .. 3 + u + 2 * a
      PROVE  \/ i = 1 \/ i - 1 \in 1 .. u \/ i - (1 + u) \in 1 .. a
             \/ i = 2 + u + a \/ i - (2 + u + a) \in 1 .. a \/ i = 3 + u + 2 * a
  BY <1>4
<1>8. ASSUME NEW i \in 1 .. 3 + u + 2 * a
      PROVE  \/ i = 1 /\ f[i].cmd = "auth" /\ f[i].arg = AuthTypes(sp.mode)
             \/ i \in 2 .. 1 + u /\ f[i].cmd = "users" /\ f[i].arg \in sp.users
             \/ f[i].cmd \in {"flush", "allow", "deny"} /\ (f[i].cmd = "allow" => f[i].arg \in Named(sp))
             \/ i = 2 + u + a /\ f[i].cmd = "proxy"
             \/ i = 3 + u + 2 * a /\ f[i].cmd = "socks"
  <2>1. CASE i = 1
    BY <1>6, <2>1
  <2>2. CASE i - 1 \in 1 .. u
    <3>1. 1 + (i - 1) = i /\ i \in 2 .. 1 + u
      BY <1>4, <2>2
    <3>2. f[i] = U[i - 1]
      BY <1>6, <2>2, <3>1
    <3> QED
      BY <1>3, <2>2, <3>1, <3>2 DEF u
  <2>3. CASE i - (1 + u) \in 1 .. a
    <3>1. 1 + u + (i - (1 + u)) = i
      BY <1>4
    <3>2. f[i] = A[i - (1 + u)]
      BY <1>6, <2>3, <3>1
    <3> QED
      BY <1>5, <2>3, <3>2 DEF a
  <2>4. CASE i = 2 + u + a
    BY <1>6, <2>4
  <2>5. CASE i - (2 + u + a) \in 1 .. a
    <3>1. 2 + u + a + (i - (2 + u + a)) = i
      BY <1>4
    <3>2. f[i] = A[i - (2 + u + a)]
      BY <1>6, <2>5, <3>1
    <3> QED
      BY <1>5, <2>5, <3>2 DEF a
  <2>6. CASE i = 3 + u + 2 * a
    BY <1>6, <2>6
  <2> QED
    BY <1>7, <2>1, <2>2, <2>3, <2>4, <2>5, <2>6
<1> QED
  BY <1>4, <1>6, <1>8 DEF u, a

\* A valid specification names its users and its networks, and nobody else.
LEMMA NamedIs ==
    ASSUME NEW sp \in Specs, SpecValid(sp)
    PROVE  /\ Named(sp) = sp.users \cup sp.nets
           /\ UsesUserPass(sp.mode) <=> sp.users # {}
           /\ UsesIPList(sp.mode) <=> sp.nets # {}
           /\ Named(sp) # {} /\ sp # NoFile
<1>1. /\ UsesUserPass(sp.mode) <=> sp.users # {}
      /\ UsesIPList(sp.mode) <=> sp.nets # {}
  BY DEF SpecValid, UsersValid, NetsValid
<1>2. UsesUserPass(sp.mode) \/ UsesIPList(sp.mode)
  BY DEF SpecValid, AuthModes, UsesUserPass, UsesIPList
<1>3. sp.users \cup sp.nets # {}
  BY <1>1, <1>2
<1>4. sp # NoFile
  BY <1>3 DEF NoFile, NoSpec
<1> QED
  BY <1>1, <1>3, <1>4 DEF Named

\* What is rendered for a valid specification passes Verify, its users and its
\* whitelist are read back from it, and each of the two services lets in whom
\* the specification names and nobody else.
THEOREM RenderedFile ==
    ASSUME NEW sp \in Specs, SpecValid(sp), NEW f, f = Render(sp)
    PROVE  /\ ConfigUsers(f) = sp.users
           /\ ArgsOf(f, "allow") = Named(sp)
           /\ \A s \in Services : Admits(f, s) = Named(sp)
           /\ Verify(f, sp)
<1> DEFINE U == Lines("users", sp.users)
           A == ACL(sp)
           u == Len(U)
           a == Len(A)
           p == 2 + u + a
           k == 3 + u + 2 * a
<1>1. /\ u \in Nat /\ a \in Nat /\ a >= 2
      /\ \A i \in DOMAIN f :
            \/ i = 1 /\ f[i].cmd = "auth" /\ f[i].arg = AuthTypes(sp.mode)
            \/ i \in 2 .. 1 + u /\ f[i].cmd = "users" /\ f[i].arg \in sp.users
            \/ f[i].cmd \in {"flush", "allow", "deny"} /\ (f[i].cmd = "allow" => f[i].arg \in Named(sp))
            \/ i = p /\ f[i].cmd = "proxy"
            \/ i = k /\ f[i].cmd = "socks"
  BY LineByLine
<1>2. /\ DOMAIN f = 1 .. 3 + u + 2 * a
      /\ f[1].cmd = "auth"
      /\ \A i \in 1 .. u : f[1 + i] = U[i]
      /\ \A i \in 1 .. a : f[1 + u + i] = A[i]
      /\ f[p].cmd = "proxy"
      /\ \A i \in 1 .. a : f[p + i] = A[i]
      /\ f[k].cmd = "socks"
  BY RenderIs DEF IsFile
<1>3. IsBlock(A, Named(sp))
  BY ACLIs
<1>4. /\ \A i \in 1 .. u : U[i].cmd = "users" /\ U[i].arg \in sp.users
      /\ \A x \in sp.users : \E i \in 1 .. u : U[i].arg = x
  BY LinesAre DEF Specs
<1>5. /\ Named(sp) = sp.users \cup sp.nets
      /\ UsesUserPass(sp.mode) <=> sp.users # {}
      /\ UsesIPList(sp.mode) <=> sp.nets # {}
  BY NamedIs
<1>6. sp.users \subseteq Users /\ sp.nets \subseteq Nets
  BY DEF Specs
<1> HIDE DEF u, a, U, A
<1>7. {i \in DOMAIN f : f[i].cmd = "proxy"} = {p} /\ {i \in DOMAIN f : f[i].cmd = "socks"} = {k}
  <2>1. p \in DOMAIN f /\ k \in DOMAIN f /\ p # k
    BY <1>1, <1>2
  <2> HIDE DEF p, k
  <2> QED
    BY <1>1, <1>2, <2>1
<1>8. SeesBlock(f, p, 1 + u, a, Named(sp))
  <2>1. 1 + u \in Nat /\ p \in Nat /\ p = 1 + u + a + 1
    BY <1>1
  <2>2. f[p].cmd \in Services
    BY <1>2 DEF Services
  <2> DEFINE q == 1 + u
  <2>3. \A i \in 1 .. a : f[q + i] = A[i]
    BY <1>2
  <2> HIDE DEF p, k, q
  <2>4. q \in Nat /\ p = q + Len(A) + 1 /\ \A i \in 1 .. Len(A) : f[q + i] = A[i]
    BY <2>1, <2>3 DEF a, q
  <2>5. SeesBlock(f, p, q, Len(A), Named(sp))
    BY <1>3, <2>1, <2>2, <2>4, BlockBefore
  <2> QED
    BY <2>5 DEF a, q
<1>9. SeesBlock(f, k, p, a, Named(sp))
  <2>1. p \in Nat /\ k \in Nat /\ k = p + a + 1
    BY <1>1
  <2>2. f[k].cmd \in Services
    BY <1>2 DEF Services
  <2>3. \A i \in 1 .. a : f[p + i] = A[i]
    BY <1>2
  <2> HIDE DEF p, k
  <2>4. k = p + Len(A) + 1 /\ \A i \in 1 .. Len(A) : f[p + i] = A[i]
    BY <2>1, <2>3 DEF a
  <2>5. SeesBlock(f, k, p, Len(A), Named(sp))
    BY <1>3, <2>1, <2>2, <2>4, BlockBefore
  <2> QED
    BY <2>5 DEF a
<1>10. ConfigUsers(f) = sp.users
  <2>1. \A i \in DOMAIN f : f[i].cmd = "users" => f[i].arg \in sp.users
    BY <1>1
  <2>2. ASSUME NEW x \in sp.users
        PROVE  \E i \in DOMAIN f : f[i].cmd = "users" /\ f[i].arg = x
    <3>1. PICK i \in 1 .. u : U[i].arg = x
      BY <1>4
    <3>2. 1 + i \in DOMAIN f
      BY <1>1, <1>2
    <3>3. f[1 + i] = U[i] /\ U[i].cmd = "users"
      BY <1>2, <1>4
    <3> HIDE DEF p, k
    <3> QED
      BY <3>1, <3>2, <3>3
  <2> QED
    BY <2>1, <2>2 DEF ConfigUsers, ArgsOf
<1>11. ServicesOf(f) = {p, k}
  BY <1>7 DEF ServicesOf, Services
<1>12. \A s \in Services : Admits(f, s) = Named(sp)
  <2> SUFFICES ASSUME NEW s \in Services PROVE Admits(f, s) = Named(sp)
    OBVIOUS
  <2>1. \E i \in {p, k} : f[i].cmd = s
    BY <1>2 DEF Services
  <2>2. \A i \in {p, k} : Allowed(f, i) = Named(sp)
    BY <1>8, <1>9 DEF SeesBlock
  <2>3. Named(sp) \subseteq ConfigUsers(f) \cup Nets
    BY <1>5, <1>6, <1>10
  <2> QED
    BY <1>11, <2>1, <2>2, <2>3 DEF Admits
<1>13. ArgsOf(f, "allow") = Named(sp)
  <2>1. \A i \in DOMAIN f : f[i].cmd = "allow" => f[i].arg \in Named(sp)
    BY <1>1
  <2>2. \A j \in BlockOf(f, p) : j \in DOMAIN f
    BY <1>1, <1>2, <1>8 DEF SeesBlock
  <2>3. \A x \in Named(sp) : \E i \in DOMAIN f : f[i].cmd = "allow" /\ f[i].arg = x
    BY <1>8, <2>2 DEF Allowed, SeesBlock
  <2> QED
    BY <2>1, <2>3 DEF ArgsOf
<1>14. GlobalsVerify(f, sp)
  <2>1. \A i \in DOMAIN f : f[i].cmd = "auth" => f[i].arg = AuthTypes(sp.mode)
    BY <1>1
  <2>2. "strong" \in AuthTypes(sp.mode) /\ (UsesIPList(sp.mode) <=> "iponly" \in AuthTypes(sp.mode))
    BY DEF AuthTypes
  <2> QED
    BY <2>1, <2>2 DEF GlobalsVerify, ArgsOf
<1>15. UsersVerify(f, sp)
  BY <1>5, <1>10 DEF UsersVerify, ConfigUsers
<1>16. BlocksVerify(f, sp)
  <2> SUFFICES ASSUME NEW i \in {p, k}
               PROVE  /\ \E j \in 1 .. i : f[j].cmd = "flush"
                      /\ \A j \in BlockOf(f, i) : f[j].cmd \notin Services
                      /\ {j \in BlockOf(f, i) : f[j].cmd = "deny"} # {}
                      /\ \A j \in BlockOf(f, i), d \in {l \in BlockOf(f, i) : f[l].cmd = "deny"} :
                            f[j].cmd = "allow" => j < d
                      /\ UsesUserPass(sp.mode) => sp.users \subseteq Allowed(f, i)
                      /\ UsesIPList(sp.mode) => sp.nets # {} /\ sp.nets \subseteq Allowed(f, i)
    BY <1>11 DEF BlocksVerify, ServicesOf, Allowed
  <2>1. PICK q : /\ q \in BlockOf(f, i) /\ f[q].cmd = "deny"
                 /\ \A j \in BlockOf(f, i) : j # q => j < q /\ f[j].cmd = "allow"
                 /\ Allowed(f, i) = Named(sp)
                 /\ \E j \in 1 .. i : f[j].cmd = "flush"
    <3>1. CASE i = p
      BY <1>8, <3>1 DEF SeesBlock
    <3>2. CASE i = k
      BY <1>9, <3>2 DEF SeesBlock
    <3> QED
      BY <3>1, <3>2
  <2>2. \A j \in BlockOf(f, i) : f[j].cmd \notin Services
    BY <2>1 DEF Services
  <2>3. {j \in BlockOf(f, i) : f[j].cmd = "deny"} = {q}
    BY <2>1
  <2>4. \A j \in BlockOf(f, i) : f[j].cmd = "allow" => j < q
    BY <2>1
  <2> QED
    BY <1>5, <2>1, <2>2, <2>3, <2>4
<1>17. ServicesVerify(f)
  <2>1. \A x : Cardinality({x}) = 1
    BY FS_Singleton
  <2> HIDE DEF p, k
  <2> QED
    BY <1>7, <2>1 DEF ServicesVerify, Services
<1> QED
  BY <1>10, <1>12, <1>13, <1>14, <1>15, <1>16, <1>17 DEF Verify

-----------------------------------------------------------------------------
(* Who is let in.  The files on disk and in the process are rendered from  *)
(* valid specifications, so what they grant is what was named.             *)

Filed == {NoFile} \cup {sp \in Specs : SpecValid(sp)}

LEMMA NoFileIs == NoFile \in Specs /\ ~SpecValid(NoFile)
<1>1. NoFile \in Specs
  BY DEF NoFile, NoSpec, Specs, AuthModes
<1>2. ~SpecValid(NoFile)
  BY DEF NoFile, NoSpec, SpecValid, UsersValid, UsesUserPass
<1> QED
  BY <1>1, <1>2

\* A valid specification lets in whom it names.
LEMMA LetsInIs ==
    ASSUME NEW sp \in Specs, SpecValid(sp), NEW c
    PROVE  <<sp, c>> \in LetsIn <=> c \in Named(sp)
<1>1. \A s \in Services : Admits(Cfg[sp], s) = Named(sp)
  BY RenderedFile DEF Cfg
<1>2. Grants(Cfg[sp]) = Named(sp)
  BY <1>1 DEF Grants, Services
<1>3. Named(sp) \subseteq Users \cup Nets
  BY NamedIs DEF Specs
<1>4. ASSUME <<sp, c>> \in LetsIn PROVE c \in Grants(Cfg[sp])
  BY <1>4 DEF LetsIn
<1>5. ASSUME c \in Users \cup Nets, c \in Grants(Cfg[sp]) PROVE <<sp, c>> \in LetsIn
  BY <1>5 DEF LetsIn
<1> QED
  BY <1>2, <1>3, <1>4, <1>5

\* A change that revokes nothing keeps everyone who was let in (the restart of
\* supervisor.go that RevokesAccess decides on).
THEOREM KeepsAccess ==
    ASSUME NEW sp \in Specs, SpecValid(sp), NEW tp \in Specs, SpecValid(tp),
           <<sp, tp>> \notin Revoking, NEW c, <<sp, c>> \in LetsIn
    PROVE  <<tp, c>> \in LetsIn
<1>1. ~RevokesAccess(Cfg[sp], Cfg[tp])
  <2>1. ASSUME RevokesAccess(Cfg[sp], Cfg[tp]) PROVE <<sp, tp>> \in Revoking
    BY <2>1 DEF Revoking
  <2> QED
    BY <2>1
<1>2. /\ ConfigUsers(Cfg[sp]) = sp.users /\ ConfigUsers(Cfg[tp]) = tp.users
      /\ ArgsOf(Cfg[sp], "allow") = Named(sp) /\ ArgsOf(Cfg[tp], "allow") = Named(tp)
  BY RenderedFile DEF Cfg
<1>3. sp.users \subseteq tp.users /\ Named(sp) \cap Nets \subseteq Named(tp)
  BY <1>1, <1>2 DEF RevokesAccess, ConfigNets
<1>4. /\ Named(sp) = sp.users \cup sp.nets /\ Named(tp) = tp.users \cup tp.nets
      /\ sp.nets \subseteq Nets
  BY NamedIs DEF Specs
<1>5. c \in Named(sp)
  BY LetsInIs
<1>6. c \in Named(tp)
  BY <1>3, <1>4, <1>5
<1> QED
  BY <1>6, LetsInIs
-----------------------------------------------------------------------------
(* The invariant of a call and of the process (supervisor.go).             *)

SupTyped ==
    /\ want \in Specs /\ pc \in Pcs /\ result \in Results
    /\ active \in BOOLEAN /\ running \in BOOLEAN /\ torn \in BOOLEAN
    /\ sessions \subseteq Users \cup Nets

\* Which specification the config file is rendered from at each step of a call.
CallOK ==
    /\ file \in Filed /\ loaded \in Filed /\ old \in Filed
    /\ pc \in Pcs \ {"idle", "disable"} => SpecValid(want)
    /\ pc \in {"install", "undo_reload", "undo_await", "undo_restart"} => file = old
    /\ pc \in {"signal", "await", "undo"} => file = want

\* Which one the process has read, and whom its sessions were let in by.
ProcessOK ==
    /\ ~active => loaded = NoFile /\ sessions = {}
    /\ pc = "disable" => ~active
    /\ ~torn /\ active /\ pc \in {"idle", "install", "await", "undo_await"} => loaded = file
    /\ ~torn /\ active /\ pc \in {"signal", "undo", "undo_reload", "undo_restart"} =>
          loaded \in {old, want}
    /\ ~torn => \A c \in sessions : loaded # NoFile /\ <<loaded, c>> \in LetsIn

\* An answer ok outlives the call, until a call of Stop takes the file away.
OkIs == result = "ok" => pc \in {"idle", "disable"} /\ (pc = "idle" => file = want)

SupInv == SupTyped /\ CallOK /\ ProcessOK /\ OkIs

\* Every step of Apply and Stop, and everything that happens to the process or
\* the daemon meanwhile, keeps it.
LEMMA SupInvStep ==
    ASSUME SupInv,
           \/ \E sp \in Specs : Apply(sp)
           \/ \E evict \in BOOLEAN : Stop(evict)
           \/ Step \/ Connect \/ ProcessDies \/ DaemonDies
    PROVE  SupInv'
<1> USE DEF SupInv
<1>0. /\ NoFile \in Specs /\ NoFile \in Filed /\ Filed \subseteq Specs
      /\ \A sp \in Specs : SpecValid(sp) <=> sp \in Filed \ {NoFile}
  BY NoFileIs DEF Filed
<1>a. /\ "idle" \in Pcs /\ "disable" \in Pcs
      /\ \A p \in {"install", "signal", "await", "undo", "undo_reload", "undo_await", "undo_restart"} :
            p \in Pcs \ {"idle", "disable"}
      /\ \A r \in {"none", "ok", "error", "refused"} : r \in Results
  BY DEF Pcs, Results
<1>1. ASSUME NEW sp \in Specs, Apply(sp) PROVE SupInv'
  <2>1. SupTyped'
    BY <1>0, <1>a, <1>1 DEF Apply, Ends, Begins, Process, Healthy, Bound, SupTyped, CallOK, ProcessOK, OkIs
  <2>2. CallOK'
    BY <1>0, <1>a, <1>1 DEF Apply, Ends, Begins, Process, Healthy, Bound, SupTyped, CallOK, ProcessOK, OkIs
  <2>3. ProcessOK'
    BY <1>0, <1>a, <1>1 DEF Apply, Ends, Begins, Process, Healthy, Bound, SupTyped, CallOK, ProcessOK, OkIs
  <2>4. OkIs'
    BY <1>0, <1>a, <1>1 DEF Apply, Ends, Begins, Process, Healthy, Bound, SupTyped, CallOK, ProcessOK, OkIs
  <2> QED
    BY <2>1, <2>2, <2>3, <2>4
<1>2. CASE Refused
  <2>1. SupTyped'
    BY <1>0, <1>a, <1>2 DEF Refused, Return, Process, SupTyped, CallOK, ProcessOK, OkIs
  <2>2. CallOK'
    BY <1>0, <1>a, <1>2 DEF Refused, Return, Process, SupTyped, CallOK, ProcessOK, OkIs
  <2>3. ProcessOK'
    BY <1>0, <1>a, <1>2 DEF Refused, Return, Process, SupTyped, CallOK, ProcessOK, OkIs
  <2>4. OkIs'
    BY <1>0, <1>a, <1>2 DEF Refused, Return, Process, SupTyped, CallOK, ProcessOK, OkIs
  <2> QED
    BY <2>1, <2>2, <2>3, <2>4
<1>3. CASE Install
  <2>1. SupTyped'
    BY <1>0, <1>a, <1>3 DEF Install, Goto, Return, Process, SupTyped, CallOK, ProcessOK, OkIs
  <2>2. CallOK'
    BY <1>0, <1>a, <1>3 DEF Install, Goto, Return, Process, SupTyped, CallOK, ProcessOK, OkIs
  <2>3. ProcessOK'
    BY <1>0, <1>a, <1>3 DEF Install, Goto, Return, Process, SupTyped, CallOK, ProcessOK, OkIs
  <2>4. OkIs'
    BY <1>0, <1>a, <1>3 DEF Install, Goto, Return, Process, SupTyped, CallOK, ProcessOK, OkIs
  <2> QED
    BY <2>1, <2>2, <2>3, <2>4
<1>4. CASE Signal
  <2>1. SupTyped'
    BY <1>0, <1>a, <1>4 DEF Signal, MustRestart, Started, Reread, Goto, Process, SupTyped, CallOK, ProcessOK, OkIs
  <2>2. CallOK'
    BY <1>0, <1>a, <1>4 DEF Signal, MustRestart, Started, Reread, Goto, Process, SupTyped, CallOK, ProcessOK, OkIs
  <2>3. ProcessOK'
    <3>0. CallOK /\ ProcessOK /\ pc = "signal" /\ SpecValid(want) /\ want # NoFile /\ file = want
      BY <1>0, <1>a, <1>4 DEF Signal, CallOK
    <3>1. CASE Started
      BY <1>4, <3>0, <3>1 DEF Signal, Goto, Started, ProcessOK
    <3>2. CASE Reread /\ ~MustRestart
      <4>1. active /\ active' /\ loaded' = want /\ sessions' = sessions /\ torn' = torn
        BY <1>4, <3>0, <3>2 DEF Signal, Goto, Reread, Started, MustRestart
      <4>2. pc' \in {"await", "undo"} /\ file' = want /\ want' = want
        BY <1>4, <3>0 DEF Signal, Goto
      <4>3. ASSUME ~torn, NEW c \in sessions
            PROVE  <<want, c>> \in LetsIn
        <5>1. loaded \in {old, want} /\ loaded # NoFile /\ <<loaded, c>> \in LetsIn
          BY <3>0, <4>1, <4>3 DEF ProcessOK
        <5>2. CASE loaded = want
          BY <5>1, <5>2
        <5>3. CASE loaded = old
          <6>1. old \in Specs /\ SpecValid(old) /\ want \in Specs
            BY <1>0, <3>0, <5>1, <5>3 DEF CallOK, SupTyped
          <6>2. <<old, want>> \notin Revoking
            BY <3>2, <5>1, <5>3 DEF MustRestart
          <6> QED
            BY <3>0, <5>1, <5>3, <6>1, <6>2, KeepsAccess
        <5> QED
          BY <5>1, <5>2, <5>3
      <4> QED
        BY <3>0, <4>1, <4>2, <4>3 DEF ProcessOK
    <3>3. CASE UNCHANGED Process /\ pc' = "undo" /\ UNCHANGED <<want, old, file, torn>>
      BY <3>0, <3>3 DEF ProcessOK, Process
    <3> QED
      BY <1>4, <3>1, <3>2, <3>3 DEF Signal, Goto
  <2>4. OkIs'
    BY <1>0, <1>a, <1>4 DEF Signal, MustRestart, Started, Reread, Goto, Process, SupTyped, CallOK, ProcessOK, OkIs
  <2> QED
    BY <2>1, <2>2, <2>3, <2>4
<1>5. CASE Await
  <2>1. SupTyped'
    BY <1>0, <1>a, <1>5 DEF Await, Healthy, Bound, Return, Goto, Process, SupTyped, CallOK, ProcessOK, OkIs
  <2>2. CallOK'
    BY <1>0, <1>a, <1>5 DEF Await, Healthy, Bound, Return, Goto, Process, SupTyped, CallOK, ProcessOK, OkIs
  <2>3. ProcessOK'
    BY <1>0, <1>a, <1>5 DEF Await, Healthy, Bound, Return, Goto, Process, SupTyped, CallOK, ProcessOK, OkIs
  <2>4. OkIs'
    BY <1>0, <1>a, <1>5 DEF Await, Healthy, Bound, Return, Goto, Process, SupTyped, CallOK, ProcessOK, OkIs
  <2> QED
    BY <2>1, <2>2, <2>3, <2>4
<1>6. CASE Undo
  <2>1. SupTyped'
    BY <1>0, <1>a, <1>6 DEF Undo, Stopped, Goto, Return, Process, SupTyped, CallOK, ProcessOK, OkIs
  <2>2. CallOK'
    BY <1>0, <1>a, <1>6 DEF Undo, Stopped, Goto, Return, Process, SupTyped, CallOK, ProcessOK, OkIs
  <2>3. ProcessOK'
    BY <1>0, <1>a, <1>6 DEF Undo, Stopped, Goto, Return, Process, SupTyped, CallOK, ProcessOK, OkIs
  <2>4. OkIs'
    BY <1>0, <1>a, <1>6 DEF Undo, Stopped, Goto, Return, Process, SupTyped, CallOK, ProcessOK, OkIs
  <2> QED
    BY <2>1, <2>2, <2>3, <2>4
<1>7. CASE UndoReload
  <2>1. SupTyped'
    BY <1>0, <1>a, <1>7 DEF UndoReload, Reread, Goto, Process, SupTyped, CallOK, ProcessOK, OkIs
  <2>2. CallOK'
    BY <1>0, <1>a, <1>7 DEF UndoReload, Reread, Goto, Process, SupTyped, CallOK, ProcessOK, OkIs
  <2>3. ProcessOK'
    BY <1>0, <1>a, <1>7 DEF UndoReload, Reread, Goto, Process, SupTyped, CallOK, ProcessOK, OkIs
  <2>4. OkIs'
    BY <1>0, <1>a, <1>7 DEF UndoReload, Reread, Goto, Process, SupTyped, CallOK, ProcessOK, OkIs
  <2> QED
    BY <2>1, <2>2, <2>3, <2>4
<1>8. CASE UndoAwait
  <2>1. SupTyped'
    BY <1>0, <1>a, <1>8 DEF UndoAwait, Return, Goto, Process, SupTyped, CallOK, ProcessOK, OkIs
  <2>2. CallOK'
    BY <1>0, <1>a, <1>8 DEF UndoAwait, Return, Goto, Process, SupTyped, CallOK, ProcessOK, OkIs
  <2>3. ProcessOK'
    BY <1>0, <1>a, <1>8 DEF UndoAwait, Return, Goto, Process, SupTyped, CallOK, ProcessOK, OkIs
  <2>4. OkIs'
    BY <1>0, <1>a, <1>8 DEF UndoAwait, Return, Goto, Process, SupTyped, CallOK, ProcessOK, OkIs
  <2> QED
    BY <2>1, <2>2, <2>3, <2>4
<1>9. CASE UndoRestart
  <2>1. SupTyped'
    BY <1>0, <1>a, <1>9 DEF UndoRestart, Started, Return, Process, SupTyped, CallOK, ProcessOK, OkIs
  <2>2. CallOK'
    BY <1>0, <1>a, <1>9 DEF UndoRestart, Started, Return, Process, SupTyped, CallOK, ProcessOK, OkIs
  <2>3. ProcessOK'
    BY <1>0, <1>a, <1>9 DEF UndoRestart, Started, Return, Process, SupTyped, CallOK, ProcessOK, OkIs
  <2>4. OkIs'
    BY <1>0, <1>a, <1>9 DEF UndoRestart, Started, Return, Process, SupTyped, CallOK, ProcessOK, OkIs
  <2> QED
    BY <2>1, <2>2, <2>3, <2>4
<1>10. ASSUME NEW evict \in BOOLEAN, Stop(evict) PROVE SupInv'
  <2>1. SupTyped'
    BY <1>0, <1>a, <1>10 DEF Stop, Stopped, Goto, Return, Process, SupTyped, CallOK, ProcessOK, OkIs
  <2>2. CallOK'
    BY <1>0, <1>a, <1>10 DEF Stop, Stopped, Goto, Return, Process, SupTyped, CallOK, ProcessOK, OkIs
  <2>3. ProcessOK'
    BY <1>0, <1>a, <1>10 DEF Stop, Stopped, Goto, Return, Process, SupTyped, CallOK, ProcessOK, OkIs
  <2>4. OkIs'
    BY <1>0, <1>a, <1>10 DEF Stop, Stopped, Goto, Return, Process, SupTyped, CallOK, ProcessOK, OkIs
  <2> QED
    BY <2>1, <2>2, <2>3, <2>4
<1>11. CASE Disable
  <2>1. SupTyped'
    BY <1>0, <1>a, <1>11 DEF Disable, Return, Process, SupTyped, CallOK, ProcessOK, OkIs
  <2>2. CallOK'
    BY <1>0, <1>a, <1>11 DEF Disable, Return, Process, SupTyped, CallOK, ProcessOK, OkIs
  <2>3. ProcessOK'
    BY <1>0, <1>a, <1>11 DEF Disable, Return, Process, SupTyped, CallOK, ProcessOK, OkIs
  <2>4. OkIs'
    BY <1>0, <1>a, <1>11 DEF Disable, Return, Process, SupTyped, CallOK, ProcessOK, OkIs
  <2> QED
    BY <2>1, <2>2, <2>3, <2>4
<1>12. CASE Connect
  <2>1. SupTyped'
    BY <1>0, <1>a, <1>12 DEF Connect, Bound, Granted, SupTyped, CallOK, ProcessOK, OkIs
  <2>2. CallOK'
    BY <1>0, <1>a, <1>12 DEF Connect, Bound, Granted, SupTyped, CallOK, ProcessOK, OkIs
  <2>3. ProcessOK'
    BY <1>0, <1>a, <1>12 DEF Connect, Bound, Granted, SupTyped, CallOK, ProcessOK, OkIs
  <2>4. OkIs'
    BY <1>0, <1>a, <1>12 DEF Connect, Bound, Granted, SupTyped, CallOK, ProcessOK, OkIs
  <2> QED
    BY <2>1, <2>2, <2>3, <2>4
<1>13. CASE ProcessDies
  <2>1. SupTyped'
    BY <1>0, <1>a, <1>13 DEF ProcessDies, Started, Stopped, SupTyped, CallOK, ProcessOK, OkIs
  <2>2. CallOK'
    BY <1>0, <1>a, <1>13 DEF ProcessDies, Started, Stopped, SupTyped, CallOK, ProcessOK, OkIs
  <2>3. ProcessOK'
    BY <1>0, <1>a, <1>13 DEF ProcessDies, Started, Stopped, SupTyped, CallOK, ProcessOK, OkIs
  <2>4. OkIs'
    BY <1>0, <1>a, <1>13 DEF ProcessDies, Started, Stopped, SupTyped, CallOK, ProcessOK, OkIs
  <2> QED
    BY <2>1, <2>2, <2>3, <2>4
<1>14. CASE DaemonDies
  <2>1. SupTyped'
    BY <1>0, <1>a, <1>14 DEF DaemonDies, Return, Process, MidWay, SupTyped, CallOK, ProcessOK, OkIs
  <2>2. CallOK'
    BY <1>0, <1>a, <1>14 DEF DaemonDies, Return, Process, MidWay, SupTyped, CallOK, ProcessOK, OkIs
  <2>3. ProcessOK'
    <3>1. pc' = "idle" /\ UNCHANGED <<file, active, loaded, sessions>> /\ torn' = (torn \/ (active /\ MidWay))
      BY <1>14 DEF DaemonDies, Return, Process
    <3>2. ASSUME ~torn', active PROVE loaded = file
      <4>1. ~torn /\ ~MidWay
        BY <3>1, <3>2 DEF SupTyped
      <4>2. pc \in {"idle", "install", "disable"}
        BY <4>1 DEF MidWay, SupTyped, Pcs
      <4> QED
        BY <3>2, <4>1, <4>2 DEF ProcessOK
    <3>3. ~torn' => ~torn
      BY <3>1 DEF SupTyped
    <3> QED
      BY <3>1, <3>2, <3>3 DEF ProcessOK
  <2>4. OkIs'
    BY <1>0, <1>a, <1>14 DEF DaemonDies, Return, Process, MidWay, SupTyped, CallOK, ProcessOK, OkIs
  <2> QED
    BY <2>1, <2>2, <2>3, <2>4
<1> QED
  BY <1>1, <1>2, <1>3, <1>4, <1>5, <1>6, <1>7, <1>8, <1>9, <1>10, <1>11, <1>12, <1>13, <1>14 DEF Step
-----------------------------------------------------------------------------
(* The rows, and the theorems.                                             *)

\* The row the handlers write and the row the sweep has read are rows.
RowsTyped == row \in Row /\ seen \in Row

LEMMA SomeRowIs == SomeRow \in Row
<1>1. (CHOOSE u \in Users : TRUE) \in Users
  BY ConfigAssumption
<1>2. 0 \in 0 .. Forever
  BY ControlAssumption
<1>3. SomeRow.access \in Access
  BY <1>1 DEF SomeRow, Access, AuthModes
<1> QED
  BY <1>2, <1>3 DEF SomeRow, Row

\* A row with another access, or another switch, is a row.
LEMMA EditedRow ==
    ASSUME NEW r \in Row
    PROVE  /\ \A u \in Users : [r EXCEPT !.access.user = u] \in Row
           /\ \A m \in Modes, u \in Users : [r EXCEPT !.access.user = u, !.access.mode = m] \in Row
           /\ \A ns \in SUBSET Nets : [r EXCEPT !.access.nets = ns] \in Row
           /\ \A b \in BOOLEAN : [r EXCEPT !.enabled = b] \in Row
           /\ \A t \in 0 .. Forever : [r EXCEPT !.expires = t] \in Row
<1>1. ASSUME NEW a \in Access
      PROVE  [r EXCEPT !.access = a] \in Row
  BY DEF Row
<1>2. r.access \in Access
  BY DEF Row
<1>3. \A u \in Users : [r.access EXCEPT !.user = u] \in Access
  BY <1>2 DEF Access
<1>4. \A m \in Modes, u \in Users : [r.access EXCEPT !.user = u, !.mode = m] \in Access
  BY <1>2, ControlAssumption DEF Access
<1>5. \A ns \in SUBSET Nets : [r.access EXCEPT !.nets = ns] \in Access
  BY <1>2 DEF Access
<1>6. \A b \in BOOLEAN : [r EXCEPT !.enabled = b] \in Row
  BY DEF Row
<1>7. \A t \in 0 .. Forever : [r EXCEPT !.expires = t] \in Row
  BY DEF Row
<1>8. \A u \in Users : [r EXCEPT !.access.user = u] = [r EXCEPT !.access = [r.access EXCEPT !.user = u]]
  BY DEF Row
<1>9. \A m \in Modes, u \in Users :
         [r EXCEPT !.access.user = u, !.access.mode = m]
         = [r EXCEPT !.access = [r.access EXCEPT !.user = u, !.mode = m]]
  BY <1>2 DEF Row, Access
<1>10. \A ns \in SUBSET Nets : [r EXCEPT !.access.nets = ns] = [r EXCEPT !.access = [r.access EXCEPT !.nets = ns]]
  BY DEF Row
<1> QED
  BY <1>1, <1>3, <1>4, <1>5, <1>6, <1>7, <1>8, <1>9, <1>10

ControlInv == SupInv /\ RowsTyped

LEMMA ControlInit == Init => ControlInv
<1> SUFFICES ASSUME Init PROVE ControlInv
  OBVIOUS
<1>1. SupTyped
  BY NoFileIs DEF Init, SupInit, SupTyped, Pcs, Results
<1>2. CallOK /\ ProcessOK /\ OkIs
  BY DEF Init, SupInit, CallOK, ProcessOK, OkIs, Filed
<1>3. RowsTyped
  BY SomeRowIs DEF Init, RowsTyped
<1> QED
  BY <1>1, <1>2, <1>3 DEF ControlInv, SupInv

\* What the handlers and the clock write is not what a call or the process
\* holds, and what they write is a row.
LEMMA ControlStep == ControlInv /\ [Next]_vars => ControlInv'
<1> SUFFICES ASSUME ControlInv, [Next]_vars PROVE ControlInv'
  OBVIOUS
<1>0. SupInv /\ row \in Row /\ seen \in Row
  BY DEF ControlInv, RowsTyped
<1>1. ASSUME UNCHANGED sup PROVE SupInv'
  BY <1>0, <1>1 DEF sup, SupInv, SupTyped, CallOK, ProcessOK, OkIs
<1>2. ASSUME SupInv', row' \in Row, seen' \in Row PROVE ControlInv'
  BY <1>2 DEF ControlInv, RowsTyped
<1>3. CASE UNCHANGED vars
  BY <1>0, <1>1, <1>2, <1>3 DEF vars
<1>4. CASE Admin
  <2>1. ASSUME NEW r \in Row, Edit(r) PROVE ControlInv'
    BY <1>0, <1>1, <1>2, <2>1 DEF Edit, sweep
  <2>2. ASSUME NEW m \in Modes, NEW u \in Users, SetAuth(m, u) PROVE ControlInv'
    BY <1>0, <2>1, <2>2, EditedRow DEF SetAuth
  <2>3. ASSUME NEW n \in Nets, AddAuthIP(n) \/ DeleteAuthIP(n) PROVE ControlInv'
    <3>1. row.access.nets \in SUBSET Nets
      BY <1>0 DEF Row, Access
    <3>2. /\ [row EXCEPT !.access.nets = @ \cup {n}] \in Row
          /\ [row EXCEPT !.access.nets = @ \ {n}] \in Row
      BY <1>0, <3>1, EditedRow
    <3> QED
      BY <2>1, <2>3, <3>2 DEF AddAuthIP, DeleteAuthIP
  <2>4. ASSUME NEW b \in BOOLEAN, SetEnabled(b) PROVE ControlInv'
    BY <1>0, <2>1, <2>4, EditedRow DEF SetEnabled
  <2>5. ASSUME NEW t \in 0 .. Forever, SetExpiry(t) PROVE ControlInv'
    BY <1>0, <2>1, <2>5, EditedRow DEF SetExpiry
  <2> QED
    BY <1>4, <2>2, <2>3, <2>4, <2>5 DEF Admin
<1>5. CASE Load
  BY <1>0, <1>1, <1>2, <1>5 DEF Load, world
<1>6. CASE PollAndPlan
  BY <1>0, <1>1, <1>2, <1>6 DEF PollAndPlan, world
<1>7. CASE ActuatorApply
  <2>1. seen' = seen
    BY <1>7 DEF ActuatorApply
  <2>2. CASE MarkExpired
    <3>1. row' \in Row
      BY <1>0, <2>2, EditedRow DEF MarkExpired
    <3> QED
      BY <1>0, <1>1, <1>2, <2>1, <2>2, <3>1 DEF MarkExpired
  <2>3. CASE UNCHANGED <<sup, row>>
    BY <1>0, <1>1, <1>2, <2>1, <2>3
  <2>4. CASE UNCHANGED row /\ \E evict \in BOOLEAN : Stop(evict)
    BY <1>0, <1>2, <2>1, <2>4, SupInvStep
  <2>5. CASE UNCHANGED row /\ Apply(SpecFor(seen.access))
    <3>1. SpecFor(seen.access) \in Specs
      BY <1>0 DEF Row, Access, SpecFor, Specs
    <3>2. SupInv'
      BY <1>0, <2>5, <3>1, SupInvStep
    <3> QED
      BY <1>0, <1>2, <2>1, <2>5, <3>2
  <2> QED
    BY <1>7, <2>2, <2>3, <2>4, <2>5 DEF ActuatorApply
<1>8. CASE SweepEnds
  BY <1>0, <1>1, <1>2, <1>8, SomeRowIs DEF SweepEnds, world
<1>9. CASE SupStep
  BY <1>0, <1>2, <1>9, SupInvStep DEF SupStep, world, sweep
<1>10. CASE Tick
  BY <1>0, <1>1, <1>2, <1>10 DEF Tick, sweep
<1>11. CASE Customer
  BY <1>0, <1>2, <1>11, SupInvStep DEF Customer, world, sweep
<1>12. CASE Kill
  BY <1>0, <1>2, <1>12, SupInvStep DEF Kill, world, sweep
<1>13. CASE Restart
  BY <1>0, <1>2, <1>13, SupInvStep, SomeRowIs DEF Restart, world
<1>14. CASE CalmDown
  BY <1>0, <1>1, <1>2, <1>14 DEF CalmDown, sweep
<1> QED
  BY <1>3, <1>4, <1>5, <1>6, <1>7, <1>8, <1>9, <1>10, <1>11, <1>12, <1>13, <1>14 DEF Next, Sweep

\* In every reachable state the config file, the process and its sessions are
\* those of one step of a call of Apply or Stop, whatever the handlers, the
\* customers, systemd and the end of the daemon do in between.
THEOREM ControlInvHolds == Spec => []ControlInv
<1>1. Init => ControlInv
  BY ControlInit
<1>2. ControlInv /\ [Next]_vars => ControlInv'
  BY ControlStep
<1> QED
  BY <1>1, <1>2, PTL DEF Spec

\* Apply answered ok: file and process are those of its specification, unless a
\* call has been cut short since the process started (supervisor.go, Apply).
THEOREM OkMeansAppliedHolds == Spec => []OkMeansApplied
<1>1. ControlInv => OkMeansApplied
  BY DEF ControlInv, SupInv, ProcessOK, OkIs, OkMeansApplied
<1> QED
  BY <1>1, ControlInvHolds, PTL

\* Whoever has a session after an ok is let in by the specification that was
\* asked for: a reload that lets everyone stay revokes nobody (RevokesAccess).
THEOREM SessionsAreGrantedHolds == Spec => []SessionsAreGranted
<1>1. ControlInv => SessionsAreGranted
  <2> SUFFICES ASSUME ControlInv, result = "ok", ~torn, NEW c \in sessions
               PROVE  <<want, c>> \in LetsIn
    BY DEF SessionsAreGranted
  <2>1. active /\ <<loaded, c>> \in LetsIn
    BY DEF ControlInv, SupInv, ProcessOK
  <2>2. pc = "idle" /\ file = want
    BY <2>1 DEF ControlInv, SupInv, ProcessOK, OkIs
  <2> QED
    BY <2>1, <2>2 DEF ControlInv, SupInv, ProcessOK
<1> QED
  BY <1>1, ControlInvHolds, PTL

\* Nothing is installed that Verify would refuse, and what is installed lets in
\* exactly whom the specification names, at both services (render.go).
THEOREM InstallsVerifiedHolds == Spec => []InstallsVerified
<1>1. ControlInv => InstallsVerified
  <2> SUFFICES ASSUME ControlInv, pc = "install"
               PROVE  /\ Verify(Cfg[want], want)
                      /\ \A s \in Services : Admits(Cfg[want], s) = Named(want)
    BY DEF InstallsVerified
  <2>1. want \in Specs /\ SpecValid(want)
    BY DEF ControlInv, SupInv, SupTyped, CallOK, Pcs
  <2>2. Cfg[want] = Render(want)
    BY <2>1 DEF Cfg
  <2> QED
    BY <2>1, <2>2, RenderedFile
<1> QED
  BY <1>1, ControlInvHolds, PTL
=============================================================================
