------------------------- MODULE Certificates_proofs -------------------------
(***************************************************************************)
(* Theorems about the certificate files, for any number of threads,        *)
(* clients, keys and requests: types, that a generate which is left alone  *)
(* leaves a set that serves, and that pairs issued by requests left alone  *)
(* verify as long as the authority stays.                                  *)
(*                                                                         *)
(* The inductive invariant says how far each request has come: what of its *)
(* plan is left, and, if nothing else has run since it began, what its     *)
(* steps have made true of the files so far.                               *)
(***************************************************************************)
EXTENDS Certificates, SequenceTheorems, TLAPS

(* One step before the rest of a plan.                                     *)
Then(s, p) == <<s>> \o p

(* What is left of a generate.                                             *)
GenerateLeft1 == <<Step("clean", Svc)>>
GenerateLeft2 == Then(Step("sign", Svc), GenerateLeft1)
GenerateLeft3 == Then(Step("csr", Svc), GenerateLeft2)
GenerateLeft4 == Then(Step("key", Svc), GenerateLeft3)
GenerateLeft5 == Then(Step("selfSign", Ca), GenerateLeft4)
GenerateLeft6 == Then(Step("key", Ca), GenerateLeft5)

(* What is left of a request that issues a pair.                           *)
IssueLeft1(e) == <<Step("clean", e)>>
IssueLeft2(e) == Then(Step("zip", e), IssueLeft1(e))
IssueLeft3(e) == Then(Step("sign", e), IF e \in Acs THEN IssueLeft2(e)
                                       ELSE IssueLeft1(e))
IssueLeft4(e) == Then(Step("csr", e), IssueLeft3(e))
IssueLeft5(e) == Then(Step("key", e), IssueLeft4(e))
IssueLeft6(e) == Then(Step("mkdir", e), IssueLeft5(e))
IssueLeft7(e) == Then(Step("selfSign", Ca), IssueLeft6(e))
IssueLeft8(e) == Then(Step("key", Ca), IssueLeft7(e))

(* The steps of uploads and restores.                                      *)
ReplaceStep ==
  [op : {"away"}, of : {Ca, Svc}, file : {"cert", "key"}, as : {None}]
    \cup [op : {"put"}, of : {Ca, Svc}, file : {"cert"}, as : Cert]
    \cup [op : {"put"}, of : {Ca, Svc}, file : {"key"}, as : Keys]

(* The authority's key fits its certificate.                               *)
CaFits == disk[Ca].cert.key = disk[Ca].key

(* What an undisturbed generate has made true before each of its steps.    *)
Generating(r) ==
  \/ plan[r] = GenerateLeft6
  \/ plan[r] = GenerateLeft5
  \/ plan[r] = GenerateLeft4 /\ (r \in alone => CaFits)
  \/ plan[r] = GenerateLeft3 /\ (r \in alone => CaFits)
  \/ /\ plan[r] = GenerateLeft2
     /\ r \in alone =>
          /\ CaFits
          /\ disk[Svc].csr = disk[Svc].key /\ Readable(disk[Svc].key)
  \/ /\ plan[r] = GenerateLeft1
     /\ r \in alone =>
          /\ CaFits
          /\ disk[Svc].cert = [key |-> disk[Svc].key, by |-> disk[Ca].key]
          /\ Readable(disk[Svc].key)

(* The pair of a client: its certificate fits its key and was signed by     *)
(* the key the authority on disk names.                                     *)
PairFits(e) ==
  disk[e].cert = [key |-> disk[e].key, by |-> disk[Ca].cert.key]

(* The bundle of an Application Center holds what is on disk.               *)
Packed(e) ==
  disk[e].zip = [ca |-> disk[Ca].cert, cert |-> disk[e].cert,
                 key |-> disk[e].key]

(* What an undisturbed issue has made true before each of its steps.       *)
Issuing(r, e) ==
  \/ plan[r] \in {IssueLeft8(e), IssueLeft7(e), IssueLeft6(e),
                  IssueLeft5(e), IssueLeft4(e)}
  \/ plan[r] = IssueLeft3(e) /\ (r \in alone => disk[e].csr = disk[e].key)
  \/ plan[r] = IssueLeft2(e) /\ e \in Acs /\ (r \in alone => PairFits(e))
  \/ /\ plan[r] = IssueLeft1(e)
     /\ r \in alone => PairFits(e) /\ (e \in Acs => Packed(e))

(* The files of one owner.                                                  *)
FileRecord ==
  [key : {None} \cup Keys, csr : {None} \cup Keys, cert : {None} \cup Cert,
   zip : {None} \cup Bundle, dir : BOOLEAN]

(* Where a request has come to.  A request that replaces files promises     *)
(* nothing, so only the kind of its steps matters.                          *)
RequestInv(r) ==
  /\ kind[r] = "idle" => plan[r] = <<>>
  /\ kind[r] = "generate" => Generating(r)
  /\ kind[r] = "issue" => \E e \in Clients : Issuing(r, e)
  /\ kind[r] = "replace" => plan[r] \in Seq(ReplaceStep) /\ plan[r] # <<>>

(* The type invariant, with what a plan holds left to RequestInv.           *)
CertTypes ==
  /\ disk \in [Owners -> FileRecord]
  /\ \A e \in Clients : disk[e].zip # None => e \in Acs
  /\ kind \in [Threads -> {"idle", "generate", "issue", "replace"}]
  /\ DOMAIN plan = Threads
  /\ backup \in {None} \cup SetFiles
  /\ jobs \in 0 .. MaxJobs
  /\ keys \in 2 .. MaxKeys
  /\ alone \subseteq Threads
  /\ sound \in BOOLEAN
  /\ issued \subseteq Clients

(* The inductive invariant.                                                 *)
CertInv ==
  /\ CertTypes
  /\ \A r \in Threads : RequestInv(r)
  /\ GeneratedSetServes
  /\ IssuedPairsVerify

-----------------------------------------------------------------------------

(* The steps of generate and issue; a directory is made for clients and a   *)
(* bundle for Application Centers only.                                     *)
MadeStep ==
  {Step(op, o) : op \in {"key", "selfSign", "csr", "sign", "clean"},
                 o \in Owners}
    \cup {Step("mkdir", e) : e \in Clients}
    \cup {Step("zip", e) : e \in Acs}

(* Every step a plan may hold.                                              *)
AnyStep == MadeStep \cup ReplaceStep

(* One step put before a sequence is taken off again by Head and Tail.      *)
LEMMA SeqThen ==
  ASSUME NEW S, NEW s \in S, NEW p \in Seq(S)
  PROVE  /\ Then(s, p) \in Seq(S)
         /\ Then(s, p) # <<>>
         /\ Head(Then(s, p)) = s
         /\ Tail(Then(s, p)) = p
         /\ Len(Then(s, p)) = Len(p) + 1
  BY DEF Then

(* The same for plans of made steps; such a plan is never at its last       *)
(* step.                                                                    *)
LEMMA MadeThen ==
  ASSUME NEW s \in MadeStep, NEW p \in Seq(MadeStep), p # <<>>
  PROVE  /\ Then(s, p) # <<>> /\ Head(Then(s, p)) = s
         /\ Tail(Then(s, p)) = p /\ Len(Then(s, p)) # 1
<1>1. Len(p) \in Nat /\ Len(p) # 0
  BY EmptySeq, LenProperties
<1>2. Then(s, p) # <<>> /\ Head(Then(s, p)) = s /\ Tail(Then(s, p)) = p
  BY SeqThen
<1>3. Len(Then(s, p)) = Len(p) + 1
  BY SeqThen
<1> QED
  BY <1>1, <1>2, <1>3

(* A plan of one step.                                                      *)
LEMMA OneStep ==
  ASSUME NEW S, NEW s \in S
  PROVE  /\ <<s>> \in Seq(S)
         /\ <<s>> # <<>>
         /\ Head(<<s>>) = s
         /\ Tail(<<s>>) = <<>>
         /\ Len(<<s>>) = 1
  OBVIOUS

(* What a made step consists of.                                            *)
LEMMA StepParts ==
  ASSUME NEW op, NEW o
  PROVE  /\ Step(op, o).op = op /\ Step(op, o).of = o
         /\ Step(op, o).file = None
  BY DEF Step

(* Each kind of made step is one.                                           *)
LEMMA MadeSteps ==
  /\ \A o \in Owners : /\ Step("key", o) \in MadeStep
                       /\ Step("selfSign", o) \in MadeStep
                       /\ Step("csr", o) \in MadeStep
                       /\ Step("sign", o) \in MadeStep
                       /\ Step("clean", o) \in MadeStep
  /\ \A e \in Clients : Step("mkdir", e) \in MadeStep
  /\ \A e \in Acs : Step("zip", e) \in MadeStep
  BY DEF MadeStep

(* The authority, the server and the clients are different owners.          *)
LEMMA OwnersAre ==
  /\ Ca \in Owners /\ Svc \in Owners
  /\ \A e \in Clients : e \in Owners /\ e # Ca /\ e # Svc
  /\ \A e \in Acs : e \in Clients
  /\ Ca # Svc
  BY CertificatesAssumption DEF Owners, Clients

(* What is left of a generate is a plan of made steps.                      *)
LEMMA GenerateSeqs ==
  /\ GenerateLeft1 \in Seq(MadeStep)
  /\ GenerateLeft2 \in Seq(MadeStep)
  /\ GenerateLeft3 \in Seq(MadeStep)
  /\ GenerateLeft4 \in Seq(MadeStep)
  /\ GenerateLeft5 \in Seq(MadeStep)
  /\ GenerateLeft6 \in Seq(MadeStep)
<1>1. GenerateLeft1 \in Seq(MadeStep)
  BY OneStep, MadeSteps, OwnersAre DEF GenerateLeft1
<1>2. GenerateLeft2 \in Seq(MadeStep)
  BY <1>1, SeqThen, MadeSteps, OwnersAre DEF GenerateLeft2
<1>3. GenerateLeft3 \in Seq(MadeStep)
  BY <1>2, SeqThen, MadeSteps, OwnersAre DEF GenerateLeft3
<1>4. GenerateLeft4 \in Seq(MadeStep)
  BY <1>3, SeqThen, MadeSteps, OwnersAre DEF GenerateLeft4
<1>5. GenerateLeft5 \in Seq(MadeStep)
  BY <1>4, SeqThen, MadeSteps, OwnersAre DEF GenerateLeft5
<1>6. GenerateLeft6 \in Seq(MadeStep)
  BY <1>5, SeqThen, MadeSteps, OwnersAre DEF GenerateLeft6
<1> QED
  BY <1>1, <1>2, <1>3, <1>4, <1>5, <1>6

(* What is left of an issue is a plan of made steps.                        *)
LEMMA IssueSeqs ==
  ASSUME NEW e \in Clients
  PROVE  /\ IssueLeft1(e) \in Seq(MadeStep)
         /\ e \in Acs => IssueLeft2(e) \in Seq(MadeStep)
         /\ IssueLeft3(e) \in Seq(MadeStep)
         /\ IssueLeft4(e) \in Seq(MadeStep)
         /\ IssueLeft5(e) \in Seq(MadeStep)
         /\ IssueLeft6(e) \in Seq(MadeStep)
         /\ IssueLeft7(e) \in Seq(MadeStep)
         /\ IssueLeft8(e) \in Seq(MadeStep)
<1>1. IssueLeft1(e) \in Seq(MadeStep)
  BY OneStep, MadeSteps, OwnersAre DEF IssueLeft1
<1>2. ASSUME e \in Acs PROVE IssueLeft2(e) \in Seq(MadeStep)
  BY <1>1, <1>2, SeqThen, MadeSteps DEF IssueLeft2
<1>3. IssueLeft3(e) \in Seq(MadeStep)
  <2>1. CASE e \in Acs
    BY <1>2, <2>1, SeqThen, MadeSteps, OwnersAre DEF IssueLeft3
  <2>2. CASE e \notin Acs
    BY <1>1, <2>2, SeqThen, MadeSteps, OwnersAre DEF IssueLeft3
  <2> QED
    BY <2>1, <2>2
<1>4. IssueLeft4(e) \in Seq(MadeStep)
  BY <1>3, SeqThen, MadeSteps, OwnersAre DEF IssueLeft4
<1>5. IssueLeft5(e) \in Seq(MadeStep)
  BY <1>4, SeqThen, MadeSteps, OwnersAre DEF IssueLeft5
<1>6. IssueLeft6(e) \in Seq(MadeStep)
  BY <1>5, SeqThen, MadeSteps, OwnersAre DEF IssueLeft6
<1>7. IssueLeft7(e) \in Seq(MadeStep)
  BY <1>6, SeqThen, MadeSteps, OwnersAre DEF IssueLeft7
<1>8. IssueLeft8(e) \in Seq(MadeStep)
  BY <1>7, SeqThen, MadeSteps, OwnersAre DEF IssueLeft8
<1> QED
  BY <1>1, <1>2, <1>3, <1>4, <1>5, <1>6, <1>7, <1>8

(* A step before another, as one tuple.                                     *)
LEMMA TwoSteps ==
  ASSUME NEW a, NEW b
  PROVE  <<a>> \o <<b>> = <<a, b>>
<1> DEFINE S == {a, b}
<1>1. <<a>> \in Seq(S) /\ <<b>> \in Seq(S) /\ <<a, b>> \in Seq(S)
  OBVIOUS
<1>2. <<a>> \o <<b>> \in Seq(S) /\ Len(<<a>> \o <<b>>) = 2
  BY <1>1
<1>3. \A i \in 1 .. 2 : (<<a>> \o <<b>>)[i] = <<a, b>>[i]
  BY <1>1, <1>2
<1> QED
  BY <1>1, <1>2, <1>3, SeqEqual

(* A step before two others, as one tuple.                                  *)
LEMMA ThreeSteps ==
  ASSUME NEW a, NEW b, NEW c
  PROVE  <<a>> \o <<b, c>> = <<a, b, c>>
<1> DEFINE S == {a, b, c}
<1>1. <<a>> \in Seq(S) /\ <<b, c>> \in Seq(S) /\ <<a, b, c>> \in Seq(S)
  OBVIOUS
<1>2. <<a>> \o <<b, c>> \in Seq(S) /\ Len(<<a>> \o <<b, c>>) = 3
  BY <1>1
<1>3. \A i \in 1 .. 3 : (<<a>> \o <<b, c>>)[i] = <<a, b, c>>[i]
  BY <1>1, <1>2
<1> QED
  BY <1>1, <1>2, <1>3, SeqEqual

(* Four steps put one before the other, as one tuple.                       *)
LEMMA FourSteps ==
  ASSUME NEW a, NEW b, NEW c, NEW d
  PROVE  <<a>> \o (<<b>> \o (<<c>> \o <<d>>)) = <<a, b, c, d>>
<1> DEFINE S == {a, b, c, d}
<1>1. <<b>> \o (<<c>> \o <<d>>) = <<b, c, d>>
  BY TwoSteps, ThreeSteps
<1>2. /\ <<a>> \in Seq(S) /\ <<b, c, d>> \in Seq(S)
      /\ <<a, b, c, d>> \in Seq(S)
  OBVIOUS
<1>3. <<a>> \o <<b, c, d>> \in Seq(S) /\ Len(<<a>> \o <<b, c, d>>) = 4
  BY <1>2
<1>4. \A i \in 1 .. 4 : (<<a>> \o <<b, c, d>>)[i] = <<a, b, c, d>>[i]
  BY <1>2, <1>3
<1>5. <<a>> \o <<b, c, d>> = <<a, b, c, d>>
  BY <1>2, <1>3, <1>4, SeqEqual
<1> QED
  BY <1>1, <1>5

(* The plan of a generate is what is left of it before its first step.     *)
LEMMA WholeGenerate == GeneratePlan = GenerateLeft6
<1>1. PICK a, b, c, d, e, f :
        /\ a = Step("key", Ca)
        /\ b = Step("selfSign", Ca)
        /\ c = Step("key", Svc)
        /\ d = Step("csr", Svc)
        /\ e = Step("sign", Svc)
        /\ f = Step("clean", Svc)
  OBVIOUS
<1>2. GenerateLeft6
        = <<a>> \o (<<b>> \o (<<c>> \o (<<d>> \o (<<e>> \o <<f>>))))
  BY <1>1 DEF GenerateLeft1, GenerateLeft2, GenerateLeft3, GenerateLeft4,
              GenerateLeft5, GenerateLeft6, Then
<1>3. GeneratePlan = <<a, b, c, d, e, f>>
  BY <1>1 DEF GeneratePlan
<1>4. <<a>> \o (<<b>> \o (<<c>> \o (<<d>> \o (<<e>> \o <<f>>))))
        = <<a, b, c, d, e, f>>
  <2> DEFINE S == {a, b, c, d, e, f}
  <2>1. <<c>> \o (<<d>> \o (<<e>> \o <<f>>)) = <<c, d, e, f>>
    BY FourSteps
  <2>2. <<b>> \o <<c, d, e, f>> = <<b, c, d, e, f>>
    <3>1. /\ <<b>> \in Seq(S) /\ <<c, d, e, f>> \in Seq(S)
          /\ <<b, c, d, e, f>> \in Seq(S)
      OBVIOUS
    <3>2. /\ <<b>> \o <<c, d, e, f>> \in Seq(S)
          /\ Len(<<b>> \o <<c, d, e, f>>) = 5
      BY <3>1
    <3>3. \A i \in 1 .. 5 : (<<b>> \o <<c, d, e, f>>)[i]
                              = <<b, c, d, e, f>>[i]
      BY <3>1, <3>2
    <3> QED
      BY <3>1, <3>2, <3>3, SeqEqual
  <2>3. <<a>> \o <<b, c, d, e, f>> = <<a, b, c, d, e, f>>
    <3>1. /\ <<a>> \in Seq(S) /\ <<b, c, d, e, f>> \in Seq(S)
          /\ <<a, b, c, d, e, f>> \in Seq(S)
      OBVIOUS
    <3>2. /\ <<a>> \o <<b, c, d, e, f>> \in Seq(S)
          /\ Len(<<a>> \o <<b, c, d, e, f>>) = 6
      BY <3>1
    <3>3. \A i \in 1 .. 6 : (<<a>> \o <<b, c, d, e, f>>)[i]
                              = <<a, b, c, d, e, f>>[i]
      BY <3>1, <3>2
    <3> QED
      BY <3>1, <3>2, <3>3, SeqEqual
  <2> QED
    BY <2>1, <2>2, <2>3
<1> QED
  BY <1>2, <1>3, <1>4

(* Two steps put before the rest one by one or together.                    *)
LEMMA RegroupedTwo ==
  ASSUME NEW S, NEW p \in Seq(S), NEW a \in S, NEW b \in S
  PROVE  <<a, b>> \o p = <<a>> \o (<<b>> \o p)
<1>1. <<a>> \in Seq(S) /\ <<b>> \in Seq(S)
  OBVIOUS
<1>2. <<a>> \o <<b>> = <<a, b>>
  BY TwoSteps
<1>3. (<<a>> \o <<b>>) \o p = <<a>> \o (<<b>> \o p)
  BY <1>1, ConcatAssociative
<1> QED
  BY <1>2, <1>3

(* A request that issues a pair starts with or without the authority's     *)
(* two steps.                                                              *)
LEMMA WholeIssue ==
  ASSUME NEW e \in Clients
  PROVE  IssuePlan(e) \in {IssueLeft8(e), IssueLeft6(e)}
<1> DEFINE a == Step("key", Ca)
           b == Step("selfSign", Ca)
           m == Step("mkdir", e)
           k == Step("key", e)
           c == Step("csr", e)
           s == Step("sign", e)
           z == Step("zip", e)
           f == Step("clean", e)
           packing == IF e \in Acs THEN <<z>> ELSE <<>>
           four == <<m, k, c, s>>
<1>1. /\ a \in MadeStep /\ b \in MadeStep /\ m \in MadeStep
      /\ k \in MadeStep /\ c \in MadeStep /\ s \in MadeStep
      /\ f \in MadeStep
  BY MadeSteps, OwnersAre
<1>2. packing \in Seq(MadeStep) /\ packing \o <<f>> \in Seq(MadeStep)
  <2>1. packing \in Seq(MadeStep)
    BY MadeSteps
  <2>2. <<f>> \in Seq(MadeStep)
    BY <1>1
  <2> QED
    BY <2>1, <2>2
<1>3. IssueLeft3(e) = <<s>> \o (packing \o <<f>>)
  <2>1. CASE e \in Acs
    BY <2>1 DEF IssueLeft3, IssueLeft2, IssueLeft1, Then
  <2>2. CASE e \notin Acs
    <3>1. <<>> \o <<f>> = <<f>>
      BY <1>1, OneStep, ConcatEmptySeq
    <3> QED
      BY <2>2, <3>1 DEF IssueLeft3, IssueLeft1, Then
  <2> QED
    BY <2>1, <2>2
<1>4. four \in Seq(MadeStep)
  BY <1>1
<1>5. IssueLeft6(e) = four \o (packing \o <<f>>)
  <2>1. IssueLeft6(e)
          = <<m>> \o (<<k>> \o (<<c>> \o (<<s>> \o (packing \o <<f>>))))
    BY <1>3 DEF IssueLeft6, IssueLeft5, IssueLeft4, Then
  <2> DEFINE q == packing \o <<f>>
  <2>2. /\ <<m>> \in Seq(MadeStep) /\ <<k>> \in Seq(MadeStep)
        /\ <<c>> \in Seq(MadeStep) /\ <<s>> \in Seq(MadeStep)
    BY <1>1
  <2>3. <<m>> \o (<<k>> \o (<<c>> \o <<s>>)) = four
    BY FourSteps
  <2> HIDE DEF packing, m, k, c, s, f, four
  <2>4. /\ <<c>> \o <<s>> \in Seq(MadeStep)
        /\ <<k>> \o (<<c>> \o <<s>>) \in Seq(MadeStep)
    BY <2>2
  <2>5. (<<m>> \o (<<k>> \o (<<c>> \o <<s>>))) \o q
          = <<m>> \o ((<<k>> \o (<<c>> \o <<s>>)) \o q)
    BY <1>2, <2>2, <2>4, ConcatAssociative
  <2>6. (<<k>> \o (<<c>> \o <<s>>)) \o q = <<k>> \o ((<<c>> \o <<s>>) \o q)
    BY <1>2, <2>2, <2>4, ConcatAssociative
  <2>7. (<<c>> \o <<s>>) \o q = <<c>> \o (<<s>> \o q)
    BY <1>2, <2>2, ConcatAssociative
  <2> QED
    BY <2>1, <2>3, <2>5, <2>6, <2>7
<1>6. IssueLeft6(e) = four \o packing \o <<f>>
  <2> HIDE DEF packing, four
  <2>1. <<f>> \in Seq(MadeStep)
    BY <1>1
  <2> QED
    BY <1>2, <1>4, <1>5, <2>1, ConcatAssociative
<1>7. CASE disk[Ca].key # None /\ disk[Ca].cert # None
  <2>1. IssuePlan(e) = <<>> \o four \o packing \o <<f>>
    BY <1>7 DEF IssuePlan, EnsureCa
  <2> HIDE DEF packing, four
  <2> QED
    BY <1>4, <1>6, <2>1, ConcatEmptySeq
<1>8. CASE ~(disk[Ca].key # None /\ disk[Ca].cert # None)
  <2>1. IssuePlan(e) = <<a, b>> \o four \o packing \o <<f>>
    BY <1>8 DEF IssuePlan, EnsureCa
  <2>2. <<a, b>> \in Seq(MadeStep) /\ <<f>> \in Seq(MadeStep)
    BY <1>1
  <2> HIDE DEF packing, four, f, a, b
  <2>3. four \o packing \in Seq(MadeStep)
    BY <1>2, <1>4
  <2>4. <<a, b>> \o four \o packing \o <<f>>
          = (<<a, b>> \o (four \o packing)) \o <<f>>
    BY <1>2, <1>4, <2>2, ConcatAssociative
  <2>5. (<<a, b>> \o (four \o packing)) \o <<f>> = <<a, b>> \o IssueLeft6(e)
    BY <1>6, <2>2, <2>3, ConcatAssociative
  <2>6. <<a, b>> \o IssueLeft6(e) = <<a>> \o (<<b>> \o IssueLeft6(e))
    BY <1>1, IssueSeqs, RegroupedTwo
  <2> QED
    BY <2>1, <2>4, <2>5, <2>6 DEF IssueLeft8, IssueLeft7, Then, a, b
<1> QED
  BY <1>7, <1>8

(* The next step of what is left of a generate, and what is left after it.  *)
LEMMA GenerateParts ==
  /\ GenerateLeft1 # <<>> /\ Head(GenerateLeft1) = Step("clean", Svc)
  /\ Tail(GenerateLeft1) = <<>> /\ Len(GenerateLeft1) = 1
  /\ GenerateLeft2 # <<>> /\ Head(GenerateLeft2) = Step("sign", Svc)
  /\ Tail(GenerateLeft2) = GenerateLeft1 /\ Len(GenerateLeft2) # 1
  /\ GenerateLeft3 # <<>> /\ Head(GenerateLeft3) = Step("csr", Svc)
  /\ Tail(GenerateLeft3) = GenerateLeft2 /\ Len(GenerateLeft3) # 1
  /\ GenerateLeft4 # <<>> /\ Head(GenerateLeft4) = Step("key", Svc)
  /\ Tail(GenerateLeft4) = GenerateLeft3 /\ Len(GenerateLeft4) # 1
  /\ GenerateLeft5 # <<>> /\ Head(GenerateLeft5) = Step("selfSign", Ca)
  /\ Tail(GenerateLeft5) = GenerateLeft4 /\ Len(GenerateLeft5) # 1
  /\ GenerateLeft6 # <<>> /\ Head(GenerateLeft6) = Step("key", Ca)
  /\ Tail(GenerateLeft6) = GenerateLeft5 /\ Len(GenerateLeft6) # 1
<1>1. /\ GenerateLeft1 # <<>> /\ Head(GenerateLeft1) = Step("clean", Svc)
      /\ Tail(GenerateLeft1) = <<>> /\ Len(GenerateLeft1) = 1
  BY OneStep, MadeSteps, OwnersAre DEF GenerateLeft1
<1>2. /\ GenerateLeft2 # <<>> /\ Head(GenerateLeft2) = Step("sign", Svc)
      /\ Tail(GenerateLeft2) = GenerateLeft1 /\ Len(GenerateLeft2) # 1
  BY <1>1, MadeThen, GenerateSeqs, MadeSteps, OwnersAre DEF GenerateLeft2
<1>3. /\ GenerateLeft3 # <<>> /\ Head(GenerateLeft3) = Step("csr", Svc)
      /\ Tail(GenerateLeft3) = GenerateLeft2 /\ Len(GenerateLeft3) # 1
  BY <1>2, MadeThen, GenerateSeqs, MadeSteps, OwnersAre DEF GenerateLeft3
<1>4. /\ GenerateLeft4 # <<>> /\ Head(GenerateLeft4) = Step("key", Svc)
      /\ Tail(GenerateLeft4) = GenerateLeft3 /\ Len(GenerateLeft4) # 1
  BY <1>3, MadeThen, GenerateSeqs, MadeSteps, OwnersAre DEF GenerateLeft4
<1>5. /\ GenerateLeft5 # <<>> /\ Head(GenerateLeft5) = Step("selfSign", Ca)
      /\ Tail(GenerateLeft5) = GenerateLeft4 /\ Len(GenerateLeft5) # 1
  BY <1>4, MadeThen, GenerateSeqs, MadeSteps, OwnersAre DEF GenerateLeft5
<1>6. /\ GenerateLeft6 # <<>> /\ Head(GenerateLeft6) = Step("key", Ca)
      /\ Tail(GenerateLeft6) = GenerateLeft5 /\ Len(GenerateLeft6) # 1
  BY <1>5, MadeThen, GenerateSeqs, MadeSteps, OwnersAre DEF GenerateLeft6
<1> QED
  BY <1>1, <1>2, <1>3, <1>4, <1>5, <1>6

(* The next step of what is left of an issue, and what is left after it.    *)
LEMMA IssueParts ==
  ASSUME NEW e \in Clients
  PROVE  /\ IssueLeft1(e) # <<>> /\ Head(IssueLeft1(e)) = Step("clean", e)
         /\ Tail(IssueLeft1(e)) = <<>> /\ Len(IssueLeft1(e)) = 1
         /\ e \in Acs =>
              /\ IssueLeft2(e) # <<>> /\ Head(IssueLeft2(e)) = Step("zip", e)
              /\ Tail(IssueLeft2(e)) = IssueLeft1(e)
              /\ Len(IssueLeft2(e)) # 1
         /\ IssueLeft3(e) # <<>> /\ Head(IssueLeft3(e)) = Step("sign", e)
         /\ Tail(IssueLeft3(e)) = IF e \in Acs THEN IssueLeft2(e)
                                  ELSE IssueLeft1(e)
         /\ Len(IssueLeft3(e)) # 1
         /\ IssueLeft4(e) # <<>> /\ Head(IssueLeft4(e)) = Step("csr", e)
         /\ Tail(IssueLeft4(e)) = IssueLeft3(e) /\ Len(IssueLeft4(e)) # 1
         /\ IssueLeft5(e) # <<>> /\ Head(IssueLeft5(e)) = Step("key", e)
         /\ Tail(IssueLeft5(e)) = IssueLeft4(e) /\ Len(IssueLeft5(e)) # 1
         /\ IssueLeft6(e) # <<>> /\ Head(IssueLeft6(e)) = Step("mkdir", e)
         /\ Tail(IssueLeft6(e)) = IssueLeft5(e) /\ Len(IssueLeft6(e)) # 1
         /\ IssueLeft7(e) # <<>> /\ Head(IssueLeft7(e)) = Step("selfSign", Ca)
         /\ Tail(IssueLeft7(e)) = IssueLeft6(e) /\ Len(IssueLeft7(e)) # 1
         /\ IssueLeft8(e) # <<>> /\ Head(IssueLeft8(e)) = Step("key", Ca)
         /\ Tail(IssueLeft8(e)) = IssueLeft7(e) /\ Len(IssueLeft8(e)) # 1
<1>1. /\ IssueLeft1(e) # <<>> /\ Head(IssueLeft1(e)) = Step("clean", e)
      /\ Tail(IssueLeft1(e)) = <<>> /\ Len(IssueLeft1(e)) = 1
  BY OneStep, MadeSteps, OwnersAre DEF IssueLeft1
<1>2. ASSUME e \in Acs
      PROVE  /\ IssueLeft2(e) # <<>> /\ Head(IssueLeft2(e)) = Step("zip", e)
             /\ Tail(IssueLeft2(e)) = IssueLeft1(e) /\ Len(IssueLeft2(e)) # 1
  BY <1>1, <1>2, MadeThen, IssueSeqs, MadeSteps DEF IssueLeft2
<1>3. /\ IssueLeft3(e) # <<>> /\ Head(IssueLeft3(e)) = Step("sign", e)
      /\ Tail(IssueLeft3(e)) = IF e \in Acs THEN IssueLeft2(e)
                               ELSE IssueLeft1(e)
      /\ Len(IssueLeft3(e)) # 1
  <2>1. CASE e \in Acs
    BY <1>2, <2>1, MadeThen, IssueSeqs, MadeSteps, OwnersAre
    DEF IssueLeft3
  <2>2. CASE e \notin Acs
    BY <1>1, <2>2, MadeThen, IssueSeqs, MadeSteps, OwnersAre
    DEF IssueLeft3
  <2> QED
    BY <2>1, <2>2
<1>4. /\ IssueLeft4(e) # <<>> /\ Head(IssueLeft4(e)) = Step("csr", e)
      /\ Tail(IssueLeft4(e)) = IssueLeft3(e) /\ Len(IssueLeft4(e)) # 1
  BY <1>3, MadeThen, IssueSeqs, MadeSteps, OwnersAre DEF IssueLeft4
<1>5. /\ IssueLeft5(e) # <<>> /\ Head(IssueLeft5(e)) = Step("key", e)
      /\ Tail(IssueLeft5(e)) = IssueLeft4(e) /\ Len(IssueLeft5(e)) # 1
  BY <1>4, MadeThen, IssueSeqs, MadeSteps, OwnersAre DEF IssueLeft5
<1>6. /\ IssueLeft6(e) # <<>> /\ Head(IssueLeft6(e)) = Step("mkdir", e)
      /\ Tail(IssueLeft6(e)) = IssueLeft5(e) /\ Len(IssueLeft6(e)) # 1
  BY <1>5, MadeThen, IssueSeqs, MadeSteps, OwnersAre DEF IssueLeft6
<1>7. /\ IssueLeft7(e) # <<>> /\ Head(IssueLeft7(e)) = Step("selfSign", Ca)
      /\ Tail(IssueLeft7(e)) = IssueLeft6(e) /\ Len(IssueLeft7(e)) # 1
  BY <1>6, MadeThen, IssueSeqs, MadeSteps, OwnersAre DEF IssueLeft7
<1>8. /\ IssueLeft8(e) # <<>> /\ Head(IssueLeft8(e)) = Step("key", Ca)
      /\ Tail(IssueLeft8(e)) = IssueLeft7(e) /\ Len(IssueLeft8(e)) # 1
  BY <1>7, MadeThen, IssueSeqs, MadeSteps, OwnersAre DEF IssueLeft8
<1> QED
  BY <1>1, <1>2, <1>3, <1>4, <1>5, <1>6, <1>7, <1>8

(* How far a generate has come can be read off its plan: no two of the      *)
(* plans are equal.                                                         *)
LEMMA GenerateDistinct ==
  /\ GenerateLeft1 \notin {GenerateLeft2, GenerateLeft3, GenerateLeft4,
                           GenerateLeft5, GenerateLeft6}
  /\ GenerateLeft2 \notin {GenerateLeft3, GenerateLeft4, GenerateLeft5,
                           GenerateLeft6}
  /\ GenerateLeft3 \notin {GenerateLeft4, GenerateLeft5, GenerateLeft6}
  /\ GenerateLeft4 \notin {GenerateLeft5, GenerateLeft6}
<1>1. \A op, to \in STRING, o, p \in Owners :
        op # to => Step(op, o) # Step(to, p)
  BY StepParts
<1>2. Step("key", Svc) # Step("key", Ca)
  BY StepParts, OwnersAre
<1> QED
  BY <1>1, <1>2, GenerateParts, OwnersAre

(* The same for an issue, for the plans Issuing says something of.          *)
LEMMA IssueDistinct ==
  ASSUME NEW e \in Clients
  PROVE  /\ IssueLeft1(e) \notin {IssueLeft3(e), IssueLeft4(e), IssueLeft5(e),
                                  IssueLeft6(e), IssueLeft7(e), IssueLeft8(e)}
         /\ IssueLeft3(e) \notin {IssueLeft4(e), IssueLeft5(e), IssueLeft6(e),
                                  IssueLeft7(e), IssueLeft8(e)}
         /\ e \in Acs =>
              IssueLeft2(e) \notin {IssueLeft1(e), IssueLeft3(e),
                                   IssueLeft4(e), IssueLeft5(e),
                                   IssueLeft6(e), IssueLeft7(e),
                                   IssueLeft8(e)}
<1>1. \A op, to \in STRING, o, p \in Owners :
        op # to => Step(op, o) # Step(to, p)
  BY StepParts
<1> QED
  BY <1>1, IssueParts, OwnersAre

-----------------------------------------------------------------------------

(* A plan is a sequence of steps.                                           *)
LEMMA PlanTyped ==
  ASSUME NEW r \in Threads, RequestInv(r),
         kind \in [Threads -> {"idle", "generate", "issue", "replace"}]
  PROVE  plan[r] \in Seq(AnyStep)
<1>1. MadeStep \subseteq AnyStep /\ ReplaceStep \subseteq AnyStep
  BY DEF AnyStep
<1>2. CASE kind[r] = "idle"
  BY <1>2, EmptySeq DEF RequestInv
<1>3. CASE kind[r] = "generate"
  <2>1. plan[r] \in Seq(MadeStep)
    BY <1>3, GenerateSeqs DEF RequestInv, Generating
  <2> QED
    BY <1>1, <2>1, SeqMonotonic
<1>4. CASE kind[r] = "issue"
  <2>1. plan[r] \in Seq(MadeStep)
    BY <1>4, IssueSeqs DEF RequestInv, Issuing
  <2> QED
    BY <1>1, <2>1, SeqMonotonic
<1>5. CASE kind[r] = "replace"
  <2>1. plan[r] \in Seq(ReplaceStep)
    BY <1>5 DEF RequestInv
  <2> QED
    BY <1>1, <2>1, SeqMonotonic
<1> QED
  BY <1>2, <1>3, <1>4, <1>5

(* A step writes the files of an owner.                                     *)
LEMMA StepOwner ==
  ASSUME NEW s \in AnyStep
  PROVE  s.of \in Owners
<1>1. CASE s \in ReplaceStep
  BY <1>1, OwnersAre DEF ReplaceStep
<1>2. CASE s \in MadeStep
  BY <1>2, OwnersAre, StepParts DEF MadeStep
<1> QED
  BY <1>1, <1>2 DEF AnyStep

(* A step that can run leaves files of the right types, and bundles only    *)
(* with Application Centers.                                                *)
LEMMA FilesTyped ==
  ASSUME CertTypes, NEW s \in AnyStep, CanRun(s)
  PROVE  /\ Files(s) \in FileRecord
         /\ s.of \in Clients /\ Files(s).zip # None => s.of \in Acs
<1> DEFINE d == disk[s.of]
<1>1. s.of \in Owners /\ d \in FileRecord
  BY StepOwner DEF CertTypes
<1>2. None \notin Keys /\ keys \in 2 .. MaxKeys /\ MaxKeys \in Nat
  BY CertificatesAssumption DEF CertTypes, Keys, Empty
<1>3. disk[Ca] \in FileRecord
  BY OwnersAre DEF CertTypes
<1>4. \A e \in Clients : disk[e].zip # None => e \in Acs
  BY DEF CertTypes
<1>5. ASSUME s \in ReplaceStep
      PROVE  /\ Files(s) \in FileRecord
             /\ s.of \notin Clients
  <2>1. s.of \notin Clients
    BY <1>5, OwnersAre DEF ReplaceStep
  <2>2. CASE s.op = "away"
    <3>1. Files(s) = [d EXCEPT ![s.file] = None]
      BY <2>2 DEF Files
    <3>2. s.file \in {"cert", "key"}
      BY <1>5, <2>2 DEF ReplaceStep
    <3> QED
      BY <1>1, <2>1, <3>1, <3>2 DEF FileRecord
  <2>3. CASE s.op = "put"
    <3>1. Files(s) = [d EXCEPT ![s.file] = s.as]
      BY <2>3 DEF Files
    <3>2. CASE s.file = "cert"
      <4>1. s.as \in Cert
        BY <1>5, <2>3, <3>2 DEF ReplaceStep
      <4> QED
        BY <1>1, <2>1, <3>1, <3>2, <4>1 DEF FileRecord
    <3>3. CASE s.file = "key"
      <4>1. s.as \in Keys
        BY <1>5, <2>3, <3>3 DEF ReplaceStep
      <4> QED
        BY <1>1, <2>1, <3>1, <3>3, <4>1 DEF FileRecord
    <3> QED
      BY <1>5, <2>3, <3>2, <3>3 DEF ReplaceStep
  <2> QED
    BY <1>5, <2>2, <2>3 DEF ReplaceStep
<1>6. CASE s.op = "key"
  <2>1. Files(s) = [d EXCEPT !.key = keys + 1]
    BY <1>6 DEF Files
  <2>2. keys + 1 \in Keys
    BY <1>2, <1>6 DEF CanRun, Keys, Empty
  <2> QED
    BY <1>1, <1>4, <2>1, <2>2 DEF FileRecord
<1>7. CASE s.op = "selfSign"
  <2>1. Files(s) = [d EXCEPT !.cert = [key |-> d.key, by |-> d.key]]
    BY <1>7 DEF Files
  <2>2. d.key \in Keys
    BY <1>1, <1>7 DEF CanRun, Readable, FileRecord
  <2>3. [key |-> d.key, by |-> d.key] \in Cert
    BY <2>2 DEF Cert
  <2> QED
    BY <1>1, <1>4, <2>1, <2>3 DEF FileRecord
<1>8. CASE s.op = "csr"
  <2>1. Files(s) = [d EXCEPT !.csr = d.key]
    BY <1>8 DEF Files
  <2> QED
    BY <1>1, <1>4, <2>1 DEF FileRecord
<1>9. CASE s.op = "sign"
  <2>1. Files(s) = [d EXCEPT !.cert = [key |-> d.csr, by |-> disk[Ca].key]]
    BY <1>9 DEF Files
  <2>2. d.csr \in Keys /\ disk[Ca].key \in Keys
    BY <1>1, <1>3, <1>9 DEF CanRun, Readable, FileRecord
  <2>3. [key |-> d.csr, by |-> disk[Ca].key] \in Cert
    BY <2>2 DEF Cert
  <2> QED
    BY <1>1, <1>4, <2>1, <2>3 DEF FileRecord
<1>10. CASE s.op = "clean"
  <2>1. Files(s) = [d EXCEPT !.csr = None]
    BY <1>10 DEF Files
  <2> QED
    BY <1>1, <1>4, <2>1 DEF FileRecord
<1>11. CASE s.op = "mkdir"
  <2>1. Files(s) = [d EXCEPT !.dir = TRUE]
    BY <1>11 DEF Files
  <2> QED
    BY <1>1, <1>4, <2>1 DEF FileRecord
<1>12. ASSUME s.op = "zip", s.of \in Acs
       PROVE  Files(s) \in FileRecord
  <2>1. Files(s) = [d EXCEPT !.zip = [ca |-> disk[Ca].cert, cert |-> d.cert,
                                      key |-> d.key]]
    BY <1>12 DEF Files
  <2>2. disk[Ca].cert \in Cert /\ d.cert \in Cert /\ d.key \in Keys
    BY <1>1, <1>3, <1>12 DEF CanRun, FileRecord
  <2>3. [ca |-> disk[Ca].cert, cert |-> d.cert, key |-> d.key] \in Bundle
    BY <2>2 DEF Bundle
  <2> QED
    BY <1>1, <2>1, <2>3 DEF FileRecord
<1>13. s \in MadeStep =>
         \/ s.op \in {"key", "selfSign", "csr", "sign", "clean", "mkdir"}
         \/ s.op = "zip" /\ s.of \in Acs
  BY StepParts DEF MadeStep
<1> QED
  BY <1>5, <1>6, <1>7, <1>8, <1>9, <1>10, <1>11, <1>12, <1>13 DEF AnyStep

(* A request that another one has run beside keeps its plan and no longer   *)
(* promises anything.                                                       *)
LEMMA OtherRequest ==
  ASSUME NEW q \in Threads, RequestInv(q), q \notin alone',
         plan'[q] = plan[q], kind'[q] = kind[q]
  PROVE  RequestInv(q)'
<1>1. Generating(q) => Generating(q)'
  BY DEF Generating
<1>2. \A e \in Clients : Issuing(q, e) => Issuing(q, e)'
  BY DEF Issuing
<1> QED
  BY <1>1, <1>2 DEF RequestInv

(* A request keeps what it promises while no file changes.                  *)
LEMMA SameFiles ==
  ASSUME NEW q \in Threads, RequestInv(q), q \in alone' => q \in alone,
         plan'[q] = plan[q], kind'[q] = kind[q], disk' = disk
  PROVE  RequestInv(q)'
<1>1. Generating(q) => Generating(q)'
  BY DEF Generating, CaFits
<1>2. \A e \in Clients : Issuing(q, e) => Issuing(q, e)'
  BY DEF Issuing, PairFits, Packed
<1> QED
  BY <1>1, <1>2 DEF RequestInv

(* Writing files of one owner keeps both properties: the history gives up   *)
(* exactly what the write can break.                                        *)
LEMMA TouchKeeps ==
  ASSUME CertTypes, GeneratedSetServes, IssuedPairsVerify,
         NEW o \in Owners, Touch(o),
         \A x \in Owners : x # o => disk'[x] = disk[x]
  PROVE  /\ GeneratedSetServes' /\ IssuedPairsVerify'
         /\ sound' \in BOOLEAN /\ issued' \subseteq Clients
<1>1. GeneratedSetServes' /\ sound' \in BOOLEAN
  <2>1. CASE o \in {Ca, Svc}
    BY <2>1 DEF GeneratedSetServes, Touch
  <2>2. CASE o \notin {Ca, Svc}
    BY <2>2, OwnersAre DEF GeneratedSetServes, Touch, CertTypes
  <2> QED
    BY <2>1, <2>2
<1>2. issued' \subseteq issued \ {o}
  BY DEF Touch
<1>3. IssuedPairsVerify'
  <2>1. CASE o = Ca
    BY <2>1 DEF IssuedPairsVerify, Touch
  <2>2. CASE o # Ca
    <3> SUFFICES ASSUME NEW e \in issued'
                 PROVE  IssuedPairsVerify!(e)'
      BY DEF IssuedPairsVerify
    <3>1. e \in issued /\ e \in Owners /\ e # o
      BY <1>2, OwnersAre DEF CertTypes
    <3>2. disk'[e] = disk[e] /\ disk'[Ca] = disk[Ca]
      BY <2>2, <3>1, OwnersAre
    <3> QED
      BY <3>1, <3>2 DEF IssuedPairsVerify
  <2> QED
    BY <2>1, <2>2
<1> QED
  BY <1>1, <1>2, <1>3 DEF CertTypes

(* A step that succeeds keeps the invariant (Run).                          *)
LEMMA RunKeeps ==
  ASSUME CertInv, NEW r \in Threads, Run(r)
  PROVE  CertInv'
<1> DEFINE s == Head(plan[r])
           o == s.of
           last == Len(plan[r]) = 1
<1>1. CertTypes /\ RequestInv(r) /\ GeneratedSetServes /\ IssuedPairsVerify
  BY DEF CertInv
<1>2. plan[r] \in Seq(AnyStep) /\ plan[r] # <<>>
  BY <1>1, PlanTyped DEF Run, CertTypes
<1>3. s \in AnyStep /\ Tail(plan[r]) \in Seq(AnyStep)
  BY <1>2
<1>4. o \in Owners
  BY <1>3, StepOwner
<1>5. CanRun(s)
  BY DEF Run
<1>6. /\ disk' = [disk EXCEPT ![o] = Files(s)]
      /\ keys' = IF s.op = "key" THEN keys + 1 ELSE keys
      /\ plan' = [plan EXCEPT ![r] = Tail(@)]
      /\ kind' = IF last THEN [kind EXCEPT ![r] = "idle"] ELSE kind
      /\ alone' = alone \ Others(r)
      /\ backup' = backup /\ jobs' = jobs
  BY DEF Run
<1>7. IF last /\ r \in alone /\ kind[r] = "generate"
      THEN sound' = TRUE /\ issued' = issued
      ELSE IF last /\ r \in alone /\ kind[r] = "issue"
      THEN issued' = issued \cup {o} /\ sound' = sound
      ELSE Touch(o)
  BY DEF Run
<1> HIDE DEF s, o
<1>8. /\ Files(s) \in FileRecord
      /\ o \in Clients /\ Files(s).zip # None => o \in Acs
  BY <1>1, <1>3, <1>5, FilesTyped DEF o
<1>9. /\ DOMAIN disk = Owners /\ disk'[o] = Files(s)
      /\ \A x \in Owners : x # o => disk'[x] = disk[x]
  BY <1>1, <1>4, <1>6 DEF CertTypes
<1>10. /\ DOMAIN plan = Threads /\ DOMAIN kind = Threads
       /\ plan'[r] = Tail(plan[r])
       /\ kind'[r] = IF last THEN "idle" ELSE kind[r]
       /\ \A q \in Threads : q # r => plan'[q] = plan[q] /\ kind'[q] = kind[q]
  BY <1>1, <1>6 DEF CertTypes
<1>11. r \in alone' <=> r \in alone
  BY <1>6 DEF Others
<1>12. \A q \in Threads : q # r => RequestInv(q)'
  <2> SUFFICES ASSUME NEW q \in Threads, q # r
               PROVE  RequestInv(q)'
    OBVIOUS
  <2>1. q \notin alone'
    BY <1>6 DEF Others
  <2> QED
    BY <1>10, <2>1, OtherRequest DEF CertInv
<1>13. disk' \in [Owners -> FileRecord]
  BY <1>1, <1>4, <1>6, <1>8 DEF CertTypes
<1>14. \A e \in Clients : disk'[e].zip # None => e \in Acs
  BY <1>1, <1>8, <1>9, OwnersAre DEF CertTypes
<1>15. /\ kind' \in [Threads -> {"idle", "generate", "issue", "replace"}]
       /\ DOMAIN plan' = Threads
       /\ backup' \in {None} \cup SetFiles
       /\ jobs' \in 0 .. MaxJobs
       /\ alone' \subseteq Threads
  BY <1>1, <1>6 DEF CertTypes
<1>16. keys' \in 2 .. MaxKeys
  BY <1>1, <1>5, <1>6, CertificatesAssumption DEF CertTypes, CanRun
<1>17. SUFFICES RequestInv(r)' /\ GeneratedSetServes' /\ IssuedPairsVerify'
                /\ sound' \in BOOLEAN /\ issued' \subseteq Clients
  BY <1>12, <1>13, <1>14, <1>15, <1>16 DEF CertInv, CertTypes
<1>18. ASSUME Touch(o)
       PROVE  /\ GeneratedSetServes' /\ IssuedPairsVerify'
              /\ sound' \in BOOLEAN /\ issued' \subseteq Clients
  BY <1>1, <1>4, <1>9, <1>18, TouchKeeps
<1>19. CASE kind[r] = "generate"
  <2>1. Generating(r)
    BY <1>1, <1>19 DEF RequestInv
  <2>2. CASE plan[r] = GenerateLeft1
    <3>1. s = Step("clean", Svc) /\ o = Svc /\ last
      BY <2>2, GenerateParts, StepParts DEF s, o
    <3>2. RequestInv(r)'
      BY <1>10, <2>2, <3>1, GenerateParts DEF RequestInv
    <3>3. CASE r \notin alone
      BY <1>7, <1>18, <3>2, <3>3
    <3>4. CASE r \in alone
      <4>1. sound' = TRUE /\ issued' = issued
        BY <1>7, <1>19, <3>1, <3>4
      <4>2. /\ disk[Ca].cert.key = disk[Ca].key
            /\ disk[Svc].cert = [key |-> disk[Svc].key, by |-> disk[Ca].key]
            /\ Readable(disk[Svc].key)
        BY <2>1, <2>2, <3>4, GenerateDistinct DEF Generating, CaFits
      <4>3. /\ disk'[Svc].key = disk[Svc].key
            /\ disk'[Svc].cert = disk[Svc].cert
        <5>1. Files(s) = [disk[Svc] EXCEPT !.csr = None]
          BY <3>1, StepParts DEF Files
        <5> QED
          BY <1>1, <1>9, <3>1, <5>1, OwnersAre DEF CertTypes, FileRecord
      <4>4. \A x \in Owners : x # Svc => disk'[x] = disk[x]
        BY <1>9, <3>1
      <4>5. GeneratedSetServes'
        BY <4>2, <4>3, <4>4, OwnersAre DEF GeneratedSetServes
      <4>6. IssuedPairsVerify'
        BY <1>1, <4>1, <4>4, OwnersAre DEF IssuedPairsVerify, CertTypes
      <4> QED
        BY <1>1, <3>2, <4>1, <4>5, <4>6 DEF CertTypes
    <3> QED
      BY <3>3, <3>4
  <2>3. ASSUME plan[r] \in {GenerateLeft2, GenerateLeft3, GenerateLeft4,
                            GenerateLeft5, GenerateLeft6}
        PROVE  Touch(o) /\ kind'[r] = "generate"
    BY <1>7, <1>10, <1>19, <2>3, GenerateParts
  <2>4. ASSUME plan[r] \in {GenerateLeft2, GenerateLeft3, GenerateLeft4,
                            GenerateLeft5, GenerateLeft6},
               Generating(r)'
        PROVE  RequestInv(r)'
    BY <2>3, <2>4 DEF RequestInv
  <2>5. CASE plan[r] = GenerateLeft2
    <3>1. s = Step("sign", Svc) /\ o = Svc /\ plan'[r] = GenerateLeft1
      BY <1>10, <2>5, GenerateParts, StepParts DEF s, o
    <3>2. disk'[Ca] = disk[Ca]
      BY <1>9, <3>1, OwnersAre
    <3>3. Files(s) = [disk[Svc] EXCEPT !.cert =
                        [key |-> disk[Svc].csr, by |-> disk[Ca].key]]
      BY <3>1, StepParts DEF Files
    <3>4. /\ disk'[Svc].key = disk[Svc].key
          /\ disk'[Svc].cert = [key |-> disk[Svc].csr, by |-> disk[Ca].key]
      BY <1>1, <1>9, <3>1, <3>3, OwnersAre DEF CertTypes, FileRecord
    <3>5. r \in alone =>
            /\ CaFits
            /\ disk[Svc].csr = disk[Svc].key /\ Readable(disk[Svc].key)
      BY <2>1, <2>5, GenerateDistinct DEF Generating
    <3>6. Generating(r)'
      BY <1>11, <3>1, <3>2, <3>4, <3>5 DEF Generating, CaFits
    <3> QED
      BY <1>18, <2>3, <2>4, <2>5, <3>6
  <2>6. CASE plan[r] = GenerateLeft3
    <3>1. s = Step("csr", Svc) /\ o = Svc /\ plan'[r] = GenerateLeft2
      BY <1>10, <2>6, GenerateParts, StepParts DEF s, o
    <3>2. disk'[Ca] = disk[Ca]
      BY <1>9, <3>1, OwnersAre
    <3>3. Files(s) = [disk[Svc] EXCEPT !.csr = disk[Svc].key]
      BY <3>1, StepParts DEF Files
    <3>4. /\ disk'[Svc].key = disk[Svc].key
          /\ disk'[Svc].csr = disk[Svc].key
      BY <1>1, <1>9, <3>1, <3>3, OwnersAre DEF CertTypes, FileRecord
    <3>5. Readable(disk[Svc].key)
      BY <1>5, <3>1, StepParts DEF CanRun
    <3>6. r \in alone => CaFits
      BY <2>1, <2>6, GenerateDistinct DEF Generating
    <3>7. Generating(r)'
      BY <1>11, <3>1, <3>2, <3>4, <3>5, <3>6 DEF Generating, CaFits
    <3> QED
      BY <1>18, <2>3, <2>4, <2>6, <3>7
  <2>7. CASE plan[r] = GenerateLeft4
    <3>1. o = Svc /\ plan'[r] = GenerateLeft3
      BY <1>10, <2>7, GenerateParts, StepParts DEF s, o
    <3>2. disk'[Ca] = disk[Ca]
      BY <1>9, <3>1, OwnersAre
    <3>3. r \in alone => CaFits
      BY <2>1, <2>7, GenerateDistinct DEF Generating
    <3>4. Generating(r)'
      BY <1>11, <3>1, <3>2, <3>3 DEF Generating, CaFits
    <3> QED
      BY <1>18, <2>3, <2>4, <2>7, <3>4
  <2>8. CASE plan[r] = GenerateLeft5
    <3>1. s = Step("selfSign", Ca) /\ o = Ca /\ plan'[r] = GenerateLeft4
      BY <1>10, <2>8, GenerateParts, StepParts DEF s, o
    <3>2. Files(s) = [disk[Ca] EXCEPT !.cert =
                        [key |-> disk[Ca].key, by |-> disk[Ca].key]]
      BY <3>1, StepParts DEF Files
    <3>3. disk'[Ca].cert.key = disk'[Ca].key
      BY <1>1, <1>9, <3>1, <3>2, OwnersAre DEF CertTypes, FileRecord
    <3>4. Generating(r)'
      BY <3>1, <3>3 DEF Generating, CaFits
    <3> QED
      BY <1>18, <2>3, <2>4, <2>8, <3>4
  <2>9. CASE plan[r] = GenerateLeft6
    <3>1. plan'[r] = GenerateLeft5
      BY <1>10, <2>9, GenerateParts
    <3>2. Generating(r)'
      BY <3>1 DEF Generating
    <3> QED
      BY <1>18, <2>3, <2>4, <2>9, <3>2
  <2> QED
    BY <1>18, <2>1, <2>2, <2>3, <2>4, <2>5, <2>6, <2>7, <2>8, <2>9
    DEF Generating
<1>20. CASE kind[r] = "issue"
  <2>1. PICK e \in Clients : Issuing(r, e)
    BY <1>1, <1>20 DEF RequestInv
  <2>2. CASE plan[r] = IssueLeft1(e)
    <3>1. s = Step("clean", e) /\ o = e /\ last
      BY <2>2, IssueParts, StepParts DEF s, o
    <3>2. RequestInv(r)'
      BY <1>10, <2>2, <3>1, IssueParts DEF RequestInv
    <3>3. CASE r \notin alone
      BY <1>7, <1>18, <3>2, <3>3
    <3>4. CASE r \in alone
      <4>1. sound' = sound /\ issued' = issued \cup {e}
        BY <1>7, <1>20, <3>1, <3>4
      <4>2. PairFits(e) /\ (e \in Acs => Packed(e))
        BY <2>1, <2>2, <3>4, IssueDistinct DEF Issuing
      <4>3. /\ disk'[e].key = disk[e].key /\ disk'[e].cert = disk[e].cert
            /\ disk'[e].zip = disk[e].zip
        <5>1. Files(s) = [disk[e] EXCEPT !.csr = None]
          BY <3>1, StepParts DEF Files
        <5> QED
          BY <1>1, <1>9, <3>1, <5>1, OwnersAre DEF CertTypes, FileRecord
      <4>4. \A x \in Owners : x # e => disk'[x] = disk[x]
        BY <1>9, <3>1
      <4>5. GeneratedSetServes'
        BY <1>1, <4>1, <4>4, OwnersAre DEF GeneratedSetServes
      <4>6. IssuedPairsVerify'
        <5> SUFFICES ASSUME NEW f \in issued'
                     PROVE  IssuedPairsVerify!(f)'
          BY DEF IssuedPairsVerify
        <5>1. disk'[Ca] = disk[Ca]
          BY <4>4, OwnersAre
        <5>2. CASE f = e
          BY <4>2, <4>3, <5>1, <5>2 DEF PairFits, Packed
        <5>3. CASE f # e
          <6>1. f \in issued /\ f \in Clients
            BY <1>1, <4>1, <5>3 DEF CertTypes
          <6>2. disk'[f] = disk[f]
            BY <4>4, <5>3, <6>1, OwnersAre
          <6> QED
            BY <1>1, <5>1, <6>1, <6>2 DEF IssuedPairsVerify
        <5> QED
          BY <5>2, <5>3
      <4> QED
        BY <1>1, <3>2, <4>1, <4>5, <4>6 DEF CertTypes
    <3> QED
      BY <3>3, <3>4
  <2>3. ASSUME ~last
        PROVE  Touch(o) /\ kind'[r] = "issue"
    BY <1>7, <1>10, <1>20, <2>3
  <2>4. ASSUME ~last, Issuing(r, e)'
        PROVE  RequestInv(r)'
    BY <2>3, <2>4 DEF RequestInv
  <2>5. CASE plan[r] = IssueLeft2(e) /\ e \in Acs
    <3>1. /\ s = Step("zip", e) /\ o = e /\ ~last
          /\ plan'[r] = IssueLeft1(e)
      BY <1>10, <2>5, IssueParts, StepParts DEF s, o
    <3>2. disk'[Ca] = disk[Ca]
      BY <1>9, <3>1, OwnersAre
    <3>3. Files(s) = [disk[e] EXCEPT !.zip =
                        [ca |-> disk[Ca].cert, cert |-> disk[e].cert,
                         key |-> disk[e].key]]
      BY <3>1, StepParts DEF Files
    <3>4. /\ disk'[e].key = disk[e].key /\ disk'[e].cert = disk[e].cert
          /\ disk'[e].zip = [ca |-> disk[Ca].cert, cert |-> disk[e].cert,
                             key |-> disk[e].key]
      BY <1>1, <1>9, <3>1, <3>3, OwnersAre DEF CertTypes, FileRecord
    <3>5. r \in alone => PairFits(e)
      BY <2>1, <2>5, IssueDistinct DEF Issuing
    <3>6. Issuing(r, e)'
      BY <1>11, <3>1, <3>2, <3>4, <3>5 DEF Issuing, PairFits, Packed
    <3> QED
      BY <1>18, <2>3, <2>4, <3>1, <3>6
  <2>6. CASE plan[r] = IssueLeft3(e)
    <3>1. /\ s = Step("sign", e) /\ o = e /\ ~last
          /\ plan'[r] = IF e \in Acs THEN IssueLeft2(e) ELSE IssueLeft1(e)
      BY <1>10, <2>6, IssueParts, StepParts DEF s, o
    <3>2. disk'[Ca] = disk[Ca]
      BY <1>9, <3>1, OwnersAre
    <3>3. Files(s) = [disk[e] EXCEPT !.cert =
                        [key |-> disk[e].csr, by |-> disk[Ca].key]]
      BY <3>1, StepParts DEF Files
    <3>4. /\ disk'[e].key = disk[e].key
          /\ disk'[e].cert = [key |-> disk[e].csr, by |-> disk[Ca].key]
      BY <1>1, <1>9, <3>1, <3>3, OwnersAre DEF CertTypes, FileRecord
    <3>5. disk[Ca].cert.key = disk[Ca].key
      BY <1>5, <3>1, StepParts DEF CanRun
    <3>6. r \in alone => disk[e].csr = disk[e].key
      BY <2>1, <2>6, IssueDistinct DEF Issuing
    <3>7. r \in alone => PairFits(e)'
      BY <3>2, <3>4, <3>5, <3>6 DEF PairFits
    <3>8. Issuing(r, e)'
      <4>1. CASE e \in Acs
        BY <1>11, <3>1, <3>7, <4>1 DEF Issuing
      <4>2. CASE e \notin Acs
        BY <1>11, <3>1, <3>7, <4>2 DEF Issuing
      <4> QED
        BY <4>1, <4>2
    <3> QED
      BY <1>18, <2>3, <2>4, <3>1, <3>8
  <2>7. CASE plan[r] = IssueLeft4(e)
    <3>1. /\ s = Step("csr", e) /\ o = e /\ ~last
          /\ plan'[r] = IssueLeft3(e)
      BY <1>10, <2>7, IssueParts, StepParts DEF s, o
    <3>2. Files(s) = [disk[e] EXCEPT !.csr = disk[e].key]
      BY <3>1, StepParts DEF Files
    <3>3. disk'[e].csr = disk'[e].key
      BY <1>1, <1>9, <3>1, <3>2, OwnersAre DEF CertTypes, FileRecord
    <3>4. Issuing(r, e)'
      BY <3>1, <3>3 DEF Issuing
    <3> QED
      BY <1>18, <2>3, <2>4, <3>1, <3>4
  <2>8. CASE plan[r] \in {IssueLeft5(e), IssueLeft6(e), IssueLeft7(e),
                          IssueLeft8(e)}
    <3>1. /\ ~last
          /\ plan'[r] \in {IssueLeft4(e), IssueLeft5(e), IssueLeft6(e),
                           IssueLeft7(e)}
      BY <1>10, <2>8, IssueParts
    <3>2. Issuing(r, e)'
      BY <3>1 DEF Issuing
    <3> QED
      BY <1>18, <2>3, <2>4, <3>1, <3>2
  <2> QED
    BY <2>1, <2>2, <2>5, <2>6, <2>7, <2>8 DEF Issuing
<1>21. CASE kind[r] = "replace"
  <2>1. plan[r] \in Seq(ReplaceStep)
    BY <1>1, <1>21 DEF RequestInv
  <2>2. Touch(o)
    BY <1>7, <1>21
  <2>3. /\ Tail(plan[r]) \in Seq(ReplaceStep)
        /\ Len(Tail(plan[r])) = Len(plan[r]) - 1
    BY <1>2, <2>1
  <2>4. last <=> Tail(plan[r]) = <<>>
    <3>1. \A t \in Seq(ReplaceStep) : Len(t) = 0 <=> t = <<>>
      BY EmptySeq
    <3>2. Len(plan[r]) \in Nat
      BY <2>1
    <3>3. Len(Tail(plan[r])) = 0 <=> Tail(plan[r]) = <<>>
      BY ONLY <2>3, <3>1, Zenon
    <3>4. last <=> Len(plan[r]) - 1 = 0
      BY <3>2
    <3> QED
      BY ONLY <2>3, <3>3, <3>4
  <2>5. RequestInv(r)'
    BY <1>10, <1>21, <2>3, <2>4 DEF RequestInv
  <2> QED
    BY <1>18, <2>2, <2>5
<1> QED
  <2>1. kind[r] # "idle"
    BY <1>1, <1>2 DEF RequestInv
  <2> QED
    BY <1>1, <1>19, <1>20, <1>21, <2>1 DEF CertTypes

(* A step that fails keeps the invariant (Fail): whatever it leaves behind  *)
(* is given up in the history, and the request ends.                        *)
LEMMA FailKeeps ==
  ASSUME CertInv, NEW r \in Threads, Fail(r)
  PROVE  CertInv'
<1> DEFINE s == Head(plan[r])
           o == s.of
<1>1. CertTypes /\ RequestInv(r) /\ GeneratedSetServes /\ IssuedPairsVerify
  BY DEF CertInv
<1>2. plan[r] \in Seq(AnyStep) /\ plan[r] # <<>>
  BY <1>1, PlanTyped DEF Fail, CertTypes
<1>3. s \in AnyStep
  BY <1>2
<1>4. o \in Owners
  BY <1>3, StepOwner
<1>5. /\ s.op \notin {"clean", "mkdir", "away"}
      /\ \/ disk' = disk
         \/ /\ s.op \notin {"put", "zip"}
            /\ disk' = [disk EXCEPT ![o][Output(s)] = EmptyOf[Output(s)]]
      /\ Touch(o)
      /\ plan' = [plan EXCEPT ![r] = <<>>]
      /\ kind' = [kind EXCEPT ![r] = "idle"]
      /\ alone' = alone \ Others(r)
      /\ backup' = backup /\ jobs' = jobs /\ keys' = keys
  BY DEF Fail
<1> HIDE DEF s, o
<1>6. ASSUME s.op \notin {"put", "zip"}
      PROVE  Output(s) \in {"key", "csr", "cert"}
  <2>1. s.op \in {"key", "csr", "selfSign", "sign"}
    BY <1>3, <1>5, <1>6, StepParts DEF AnyStep, MadeStep, ReplaceStep
  <2> QED
    BY <2>1 DEF Output
<1>7. /\ disk' \in [Owners -> FileRecord]
      /\ \A x \in Owners : disk'[x].zip = disk[x].zip
      /\ \A x \in Owners : x # o => disk'[x] = disk[x]
  <2>1. CASE disk' = disk
    BY <1>1, <2>1 DEF CertTypes
  <2>2. CASE disk' # disk
    <3> DEFINE f == Output(s)
               d == [disk[o] EXCEPT ![f] = EmptyOf[f]]
    <3>1. f \in {"key", "csr", "cert"} /\ disk' = [disk EXCEPT ![o] = d]
      BY <1>5, <1>6, <2>2
    <3>2. disk[o] \in FileRecord /\ DOMAIN disk = Owners
      BY <1>1, <1>4 DEF CertTypes
    <3>3. /\ EmptyOf.key \in Keys /\ EmptyOf.csr \in Keys
          /\ EmptyOf.cert \in Cert
      BY CertificatesAssumption DEF EmptyOf, Keys, Cert, Empty
    <3>4. d \in FileRecord /\ d.zip = disk[o].zip
      <4>1. CASE f = "key"
        BY <3>2, <3>3, <4>1 DEF FileRecord
      <4>2. CASE f = "csr"
        BY <3>2, <3>3, <4>2 DEF FileRecord
      <4>3. CASE f = "cert"
        BY <3>2, <3>3, <4>3 DEF FileRecord
      <4> QED
        BY <3>1, <4>1, <4>2, <4>3
    <3> HIDE DEF d
    <3> QED
      BY <1>1, <1>4, <3>1, <3>2, <3>4 DEF CertTypes
  <2> QED
    BY <2>1, <2>2
<1>8. /\ GeneratedSetServes' /\ IssuedPairsVerify'
      /\ sound' \in BOOLEAN /\ issued' \subseteq Clients
  BY <1>1, <1>4, <1>5, <1>7, TouchKeeps
<1>9. CertTypes'
  BY <1>1, <1>5, <1>7, <1>8, OwnersAre DEF CertTypes
<1>10. ASSUME NEW q \in Threads
       PROVE  RequestInv(q)'
  <2>1. CASE q = r
    BY <1>1, <1>5, <2>1 DEF RequestInv, CertTypes
  <2>2. CASE q # r
    <3>1. q \notin alone' /\ plan'[q] = plan[q] /\ kind'[q] = kind[q]
      BY <1>1, <1>5, <2>2 DEF Others, CertTypes
    <3> QED
      BY <3>1, OtherRequest DEF CertInv
  <2> QED
    BY <2>1, <2>2
<1> QED
  BY <1>8, <1>9, <1>10 DEF CertInv

(* A request that begins keeps the invariant if its own plan does: no file  *)
(* changes.                                                                 *)
LEMMA BeginKeeps ==
  ASSUME CertInv, NEW r \in Threads, NEW p,
         NEW k \in {"generate", "issue", "replace"}, Begin(r, k, p),
         RequestInv(r)'
  PROVE  CertInv'
<1>1. CertTypes /\ GeneratedSetServes /\ IssuedPairsVerify
  BY DEF CertInv
<1>2. /\ jobs < MaxJobs /\ jobs' = jobs + 1
      /\ plan' = [plan EXCEPT ![r] = p]
      /\ kind' = [kind EXCEPT ![r] = k]
      /\ alone' = alone \cup {r}
      /\ disk' = disk /\ backup' = backup /\ keys' = keys
      /\ sound' = sound /\ issued' = issued
  BY DEF Begin
<1>3. CertTypes'
  BY <1>1, <1>2, CertificatesAssumption DEF CertTypes
<1>4. GeneratedSetServes' /\ IssuedPairsVerify'
  BY <1>1, <1>2 DEF GeneratedSetServes, IssuedPairsVerify
<1>5. ASSUME NEW q \in Threads
      PROVE  RequestInv(q)'
  <2>1. CASE q = r
    BY <2>1
  <2>2. CASE q # r
    <3>1. /\ q \in alone' => q \in alone
          /\ plan'[q] = plan[q] /\ kind'[q] = kind[q]
      BY <1>1, <1>2, <2>2 DEF CertTypes
    <3> QED
      BY <1>2, <3>1, SameFiles DEF CertInv
  <2> QED
    BY <2>1, <2>2
<1> QED
  BY <1>3, <1>4, <1>5 DEF CertInv

(* What a thread holds after it has begun a request.                        *)
LEMMA Begun ==
  ASSUME CertTypes, NEW r \in Threads, NEW p, NEW k, Begin(r, k, p)
  PROVE  plan'[r] = p /\ kind'[r] = k /\ p # <<>>
  BY DEF Begin, CertTypes

(* generate_certificates begins.                                            *)
LEMMA GenerateKeeps ==
  ASSUME CertInv, NEW r \in Threads, Generate(r)
  PROVE  CertInv'
<1>1. Begin(r, "generate", GenerateLeft6)
  BY WholeGenerate DEF Generate
<1>2. plan'[r] = GenerateLeft6 /\ kind'[r] = "generate"
  BY <1>1, Begun DEF CertInv
<1>3. RequestInv(r)'
  BY <1>2 DEF RequestInv, Generating
<1> QED
  BY <1>1, <1>3, BeginKeeps

(* _generate_bs_certificate or _generate_ac_certificate begins.             *)
LEMMA IssueKeeps ==
  ASSUME CertInv, NEW r \in Threads, NEW e \in Clients, Issue(r, e)
  PROVE  CertInv'
<1>1. Begin(r, "issue", IssuePlan(e))
  BY DEF Issue
<1>2. plan'[r] \in {IssueLeft8(e), IssueLeft6(e)} /\ kind'[r] = "issue"
  BY <1>1, Begun, WholeIssue DEF CertInv
<1>3. Issuing(r, e)'
  BY <1>2 DEF Issuing
<1>4. RequestInv(r)'
  BY <1>2, <1>3 DEF RequestInv
<1> QED
  BY <1>1, <1>4, BeginKeeps

(* The files that are uploaded or restored have the right types.            *)
LEMMA SetTyped ==
  ASSUME CertTypes, NEW b \in {Elsewhere, backup} \ {None}
  PROVE  b \in SetFiles
  BY CertificatesAssumption
  DEF CertTypes, Elsewhere, SetFiles, Cert, Keys, Empty

(* Replacing a file takes two replacing steps.                              *)
LEMMA ReplaceTyped ==
  ASSUME NEW o \in {Ca, Svc}, NEW f \in {"cert", "key"}, NEW v,
         f = "cert" => v \in Cert, f = "key" => v \in Keys
  PROVE  /\ Replace(o, f, v) \in Seq(ReplaceStep)
         /\ Replace(o, f, v) # <<>>
<1>1. [op |-> "away", of |-> o, file |-> f, as |-> None] \in ReplaceStep
  BY DEF ReplaceStep
<1>2. [op |-> "put", of |-> o, file |-> f, as |-> v] \in ReplaceStep
  BY DEF ReplaceStep
<1> QED
  BY <1>1, <1>2 DEF Replace

(* A request that replaces files begins.                                    *)
LEMMA ReplacementKeeps ==
  ASSUME CertInv, NEW r \in Threads, NEW p \in Seq(ReplaceStep),
         Begin(r, "replace", p)
  PROVE  CertInv'
<1>1. plan'[r] = p /\ kind'[r] = "replace" /\ p # <<>>
  BY Begun DEF CertInv
<1>2. RequestInv(r)'
  BY <1>1 DEF RequestInv
<1> QED
  BY <1>2, BeginKeeps

(* upload_certificate begins.                                               *)
LEMMA UploadKeeps ==
  ASSUME CertInv, NEW r \in Threads, Upload(r)
  PROVE  CertInv'
<1>1. PICK b \in {Elsewhere, backup} \ {None} :
        \E p \in {Replace(Ca, "cert", b.ca), Replace(Svc, "cert", b.cert),
                  Replace(Svc, "key", b.key)} :
          p[2].as # None /\ Begin(r, "replace", p)
  BY DEF Upload
<1>2. PICK p \in {Replace(Ca, "cert", b.ca), Replace(Svc, "cert", b.cert),
                  Replace(Svc, "key", b.key)} :
        p[2].as # None /\ Begin(r, "replace", p)
  BY <1>1
<1>3. b \in SetFiles
  BY SetTyped DEF CertInv
<1>4. \A o, f, v : Replace(o, f, v)[2].as = v
  BY DEF Replace
<1>5. p \in Seq(ReplaceStep)
  <2>1. CASE p = Replace(Ca, "cert", b.ca)
    <3>1. b.ca \in Cert
      BY <1>2, <1>3, <1>4, <2>1 DEF SetFiles
    <3> QED
      BY <2>1, <3>1, ReplaceTyped
  <2>2. CASE p = Replace(Svc, "cert", b.cert)
    <3>1. b.cert \in Cert
      BY <1>2, <1>3, <1>4, <2>2 DEF SetFiles
    <3> QED
      BY <2>2, <3>1, ReplaceTyped
  <2>3. CASE p = Replace(Svc, "key", b.key)
    <3>1. b.key \in Keys
      BY <1>2, <1>3, <1>4, <2>3 DEF SetFiles
    <3> QED
      BY <2>3, <3>1, ReplaceTyped
  <2> QED
    BY <1>2, <2>1, <2>2, <2>3
<1> QED
  BY <1>2, <1>5, ReplacementKeeps

(* restore_certificates begins.                                             *)
LEMMA RestoreKeeps ==
  ASSUME CertInv, NEW r \in Threads, Restore(r)
  PROVE  CertInv'
<1>1. PICK b \in {Elsewhere, backup} \ {None} :
        Begin(r, "replace", RestorePlan(b))
  BY DEF Restore
<1>2. b \in SetFiles
  BY SetTyped DEF CertInv
<1> DEFINE x == IF b.ca # None THEN Replace(Ca, "cert", b.ca) ELSE <<>>
           y == IF b.cert # None THEN Replace(Svc, "cert", b.cert) ELSE <<>>
           z == IF b.key # None THEN Replace(Svc, "key", b.key) ELSE <<>>
<1>3. x \in Seq(ReplaceStep)
  <2>1. CASE b.ca # None
    <3>1. b.ca \in Cert
      BY <1>2, <2>1 DEF SetFiles
    <3> QED
      BY <2>1, <3>1, ReplaceTyped
  <2>2. CASE b.ca = None
    BY <2>2, EmptySeq
  <2> QED
    BY <2>1, <2>2
<1>4. y \in Seq(ReplaceStep)
  <2>1. CASE b.cert # None
    <3>1. b.cert \in Cert
      BY <1>2, <2>1 DEF SetFiles
    <3> QED
      BY <2>1, <3>1, ReplaceTyped
  <2>2. CASE b.cert = None
    BY <2>2, EmptySeq
  <2> QED
    BY <2>1, <2>2
<1>5. z \in Seq(ReplaceStep)
  <2>1. CASE b.key # None
    <3>1. b.key \in Keys
      BY <1>2, <2>1 DEF SetFiles
    <3> QED
      BY <2>1, <3>1, ReplaceTyped
  <2>2. CASE b.key = None
    BY <2>2, EmptySeq
  <2> QED
    BY <2>1, <2>2
<1>6. RestorePlan(b) = x \o y \o z
  BY DEF RestorePlan
<1> HIDE DEF x, y, z
<1>7. x \o y \in Seq(ReplaceStep)
  BY <1>3, <1>4
<1>8. RestorePlan(b) \in Seq(ReplaceStep)
  BY <1>5, <1>6, <1>7
<1> QED
  BY <1>1, <1>8, ReplacementKeeps

(* Steps outside of requests: a backup, the deletion of a pair, the end of  *)
(* the process, and a step that changes nothing.                            *)
LEMMA OtherSteps ==
  ASSUME CertInv
  PROVE  /\ Backup => CertInv'
         /\ \A e \in Acs : Delete(e) => CertInv'
         /\ Restart => CertInv'
         /\ UNCHANGED certVars => CertInv'
<1>1. CertTypes /\ GeneratedSetServes /\ IssuedPairsVerify
  BY DEF CertInv
<1>2. ASSUME Backup PROVE CertInv'
  <2>1. /\ disk' = disk /\ plan' = plan /\ kind' = kind /\ jobs' = jobs
        /\ keys' = keys /\ alone' = alone /\ sound' = sound
        /\ issued' = issued
        /\ backup' = [ca |-> disk[Ca].cert, cert |-> disk[Svc].cert,
                      key |-> disk[Svc].key]
    BY <1>2 DEF Backup
  <2>2. backup' \in SetFiles
    BY <1>1, <2>1, OwnersAre DEF CertTypes, SetFiles, FileRecord
  <2>3. CertTypes'
    BY <1>1, <2>1, <2>2 DEF CertTypes
  <2>4. GeneratedSetServes' /\ IssuedPairsVerify'
    BY <1>1, <2>1 DEF GeneratedSetServes, IssuedPairsVerify
  <2>5. \A q \in Threads : RequestInv(q)'
    BY <2>1, SameFiles DEF CertInv
  <2> QED
    BY <2>3, <2>4, <2>5 DEF CertInv
<1>3. ASSUME NEW e \in Acs, Delete(e) PROVE CertInv'
  <2>1. /\ disk' = [disk EXCEPT ![e] = NoFiles(FALSE)]
        /\ alone' = {} /\ Touch(e) /\ plan' = plan /\ kind' = kind
        /\ backup' = backup /\ jobs' = jobs /\ keys' = keys
    BY <1>3 DEF Delete
  <2>2. NoFiles(FALSE) \in FileRecord /\ NoFiles(FALSE).zip = None
    BY DEF NoFiles, FileRecord
  <2>3. e \in Owners
    BY OwnersAre
  <2>4. /\ disk' \in [Owners -> FileRecord] /\ disk'[e].zip = None
        /\ \A x \in Owners : x # e => disk'[x] = disk[x]
    BY <1>1, <2>1, <2>2, <2>3 DEF CertTypes
  <2>5. /\ GeneratedSetServes' /\ IssuedPairsVerify'
        /\ sound' \in BOOLEAN /\ issued' \subseteq Clients
    BY <1>1, <2>1, <2>3, <2>4, TouchKeeps
  <2>6. CertTypes'
    BY <1>1, <2>1, <2>4, <2>5, OwnersAre DEF CertTypes
  <2>7. \A q \in Threads : RequestInv(q)'
    BY <2>1, OtherRequest DEF CertInv
  <2> QED
    BY <2>5, <2>6, <2>7 DEF CertInv
<1>4. ASSUME Restart PROVE CertInv'
  <2>1. /\ plan' = [r \in Threads |-> <<>>]
        /\ kind' = [r \in Threads |-> "idle"]
        /\ alone' = {} /\ disk' = disk /\ backup' = backup
        /\ jobs' = jobs /\ keys' = keys /\ sound' = sound
        /\ issued' = issued
    BY <1>4 DEF Restart
  <2>2. CertTypes'
    BY <1>1, <2>1 DEF CertTypes
  <2>3. GeneratedSetServes' /\ IssuedPairsVerify'
    BY <1>1, <2>1 DEF GeneratedSetServes, IssuedPairsVerify
  <2>4. \A q \in Threads : RequestInv(q)'
    BY <2>1 DEF RequestInv
  <2> QED
    BY <2>2, <2>3, <2>4 DEF CertInv
<1>5. ASSUME UNCHANGED certVars PROVE CertInv'
  <2>1. /\ disk' = disk /\ plan' = plan /\ kind' = kind /\ jobs' = jobs
        /\ keys' = keys /\ alone' = alone /\ sound' = sound
        /\ issued' = issued /\ backup' = backup
    BY <1>5 DEF certVars
  <2>2. CertTypes'
    BY <1>1, <2>1 DEF CertTypes
  <2>3. GeneratedSetServes' /\ IssuedPairsVerify'
    BY <1>1, <2>1 DEF GeneratedSetServes, IssuedPairsVerify
  <2>4. \A q \in Threads : RequestInv(q)'
    BY <2>1, SameFiles DEF CertInv
  <2> QED
    BY <2>2, <2>3, <2>4 DEF CertInv
<1> QED
  BY <1>2, <1>3, <1>4, <1>5

(* The invariant holds at first.                                            *)
LEMMA InitHolds ==
  ASSUME Init
  PROVE  CertInv
<1>1. CertTypes
  <2>1. ASSUME NEW o \in Owners
        PROVE  /\ NoFiles(o \in {Ca, Svc}) \in FileRecord
               /\ NoFiles(o \in {Ca, Svc}).zip = None
    <3>1. CASE o \in {Ca, Svc}
      BY <3>1 DEF NoFiles, FileRecord
    <3>2. CASE o \notin {Ca, Svc}
      BY <3>2 DEF NoFiles, FileRecord
    <3> QED
      BY <3>1, <3>2
  <2>2. /\ disk \in [Owners -> FileRecord]
        /\ \A o \in Owners : disk[o].zip = None
    BY <2>1 DEF Init
  <2>3. \A e \in Clients : disk[e].zip # None => e \in Acs
    BY <2>2, OwnersAre
  <2>4. /\ kind \in [Threads -> {"idle", "generate", "issue", "replace"}]
        /\ DOMAIN plan = Threads
        /\ backup \in {None} \cup SetFiles
        /\ jobs \in 0 .. MaxJobs /\ keys \in 2 .. MaxKeys
        /\ alone \subseteq Threads /\ issued \subseteq Clients
    BY CertificatesAssumption DEF Init
  <2>5. sound \in BOOLEAN
    BY DEF Init
  <2> QED
    BY <2>2, <2>3, <2>4, <2>5 DEF CertTypes
<1>2. \A r \in Threads : RequestInv(r)
  BY DEF Init, RequestInv
<1>3. GeneratedSetServes /\ IssuedPairsVerify
  BY DEF Init, GeneratedSetServes, IssuedPairsVerify
<1> QED
  BY <1>1, <1>2, <1>3 DEF CertInv

(* The inductive invariant holds in every behaviour.                        *)
THEOREM CertInvariance == Spec => []CertInv
<1>1. Init => CertInv
  BY InitHolds
<1>2. CertInv /\ [Next]_certVars => CertInv'
  <2> SUFFICES ASSUME CertInv, [Next]_certVars
               PROVE  CertInv'
    OBVIOUS
  <2>1. ASSUME NEW r \in Threads,
               \/ Generate(r) \/ Upload(r) \/ Restore(r) \/ Run(r) \/ Fail(r)
               \/ \E e \in Clients : Issue(r, e)
        PROVE  CertInv'
    BY <2>1, GenerateKeeps, UploadKeeps, RestoreKeeps, RunKeeps, FailKeeps,
       IssueKeeps
  <2> QED
    BY <2>1, OtherSteps DEF Next
<1> QED
  BY <1>1, <1>2, PTL DEF Spec

(* Types: every file is missing, empty or what openssl wrote, bundles       *)
(* belong to Application Centers, and a thread has a plan exactly while it  *)
(* serves a request.                                                        *)
THEOREM TypeCorrectness == Spec => []TypeOK
<1>1. CertInv => TypeOK
  <2> SUFFICES ASSUME CertInv PROVE TypeOK
    OBVIOUS
  <2>1. ASSUME NEW r \in Threads, kind[r] # "idle"
        PROVE  plan[r] # <<>>
    BY <2>1, GenerateParts, IssueParts
    DEF CertInv, CertTypes, RequestInv, Generating, Issuing
  <2> QED
    BY <2>1 DEF CertInv, CertTypes, RequestInv, TypeOK, FileRecord
<1> QED
  BY <1>1, CertInvariance, PTL

(* After generate_certificates has run undisturbed, the key of the server   *)
(* fits its certificate and the authority on disk signed it, until one of   *)
(* the three files is written again.                                        *)
THEOREM GeneratedServes == Spec => []GeneratedSetServes
<1>1. CertInv => GeneratedSetServes
  BY DEF CertInv
<1> QED
  BY <1>1, CertInvariance, PTL

(* After a pair was issued by an undisturbed request its certificate fits   *)
(* its key and was signed by the authority on disk, and the bundle of an    *)
(* Application Center holds the same, until the pair or the authority is    *)
(* written again.                                                           *)
THEOREM IssuedVerify == Spec => []IssuedPairsVerify
<1>1. CertInv => IssuedPairsVerify
  BY DEF CertInv
<1> QED
  BY <1>1, CertInvariance, PTL
=============================================================================
