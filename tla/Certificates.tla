---------------------------- MODULE Certificates ----------------------------
(***************************************************************************)
(* The certificate files under certs/ as the web interface writes them     *)
(* (web_ui.py): the authority, the server's pair, and a pair for each base *)
(* station and Application Center.  A request works through a sequence of  *)
(* openssl commands and file operations in a thread of its own, without a  *)
(* lock, and stops at the first that fails.                                *)
(*                                                                         *)
(* openssl is external.  A key is a number, a certificate names its key    *)
(* and the key that signed it, and a command that fails leaves its output  *)
(* as it was or empty.  One command, one rename and one written file are   *)
(* each one step.                                                          *)
(***************************************************************************)
EXTENDS Integers, Sequences

CONSTANTS
  Threads,     (* threads of the web server                                *)
  Ca, Svc,     (* the authority and the server                             *)
  Bss, Acs,    (* base stations and Application Centers                    *)
  None,        (* no file, no bundle                                       *)
  MaxKeys,     (* bound: keys                                              *)
  MaxJobs      (* bound: requests                                          *)

ASSUME CertificatesAssumption ==
  /\ Ca # Svc /\ {Ca, Svc} \cap (Bss \cup Acs) = {}
  /\ Bss \cap Acs = {}
  /\ None \notin Int
  /\ MaxKeys \in Nat /\ MaxKeys >= 2
  /\ MaxJobs \in Nat

VARIABLES
  disk,     (* owner -> its files, and whether its directory exists        *)
  plan,     (* thread -> the steps its request has still to take           *)
  kind,     (* thread -> the kind of its request                           *)
  backup,   (* the set an administrator has downloaded                     *)
  jobs,     (* how many requests there were                                *)
  keys,     (* how many keys were generated                                *)
  alone,    (* history: nothing else has run since the request began       *)
  sound,    (* history: the set comes from one generate and is untouched   *)
  issued    (* history: whose pair comes from one request under this CA    *)

certVars == <<disk, plan, kind, backup, jobs, keys, alone, sound, issued>>

Clients == Bss \cup Acs
Owners == {Ca, Svc} \cup Clients

(* Keys 1 and 2 were made elsewhere; an empty file holds key 0.            *)
Empty == 0
Keys == Empty .. MaxKeys
Cert == [key : Keys, by : Keys]
Bundle == [ca : Cert, cert : Cert, key : Keys]
EmptyOf == [key |-> Empty, csr |-> Empty,
            cert |-> [key |-> Empty, by |-> Empty], zip |-> None]

(* The three files that are uploaded, backed up and restored.              *)
SetFiles == [ca : Cert \cup {None}, cert : Cert \cup {None},
             key : Keys \cup {None}]
Elsewhere == [ca |-> [key |-> 1, by |-> 1], cert |-> [key |-> 2, by |-> 1],
              key |-> 2]

TypeOK ==
  /\ disk \in [Owners -> [key : {None} \cup Keys, csr : {None} \cup Keys,
                          cert : {None} \cup Cert, zip : {None} \cup Bundle,
                          dir : BOOLEAN]]
  /\ \A e \in Clients : disk[e].zip # None => e \in Acs
  /\ kind \in [Threads -> {"idle", "generate", "issue", "replace"}]
  /\ \A r \in Threads : kind[r] = "idle" <=> plan[r] = <<>>
  /\ backup \in {None} \cup SetFiles
  /\ jobs \in 0 .. MaxJobs
  /\ keys \in 2 .. MaxKeys
  /\ alone \subseteq Threads
  /\ sound \in BOOLEAN
  /\ issued \subseteq Clients

NoFiles(d) == [key |-> None, csr |-> None, cert |-> None, zip |-> None,
               dir |-> d]

Init ==
  /\ disk = [o \in Owners |-> NoFiles(o \in {Ca, Svc})]
  /\ plan = [r \in Threads |-> <<>>]
  /\ kind = [r \in Threads |-> "idle"]
  /\ backup = None
  /\ jobs = 0
  /\ keys = 2
  /\ alone = {}
  /\ sound = FALSE
  /\ issued = {}

-----------------------------------------------------------------------------
(***************************************************************************)
(* What a request sets out to do                                           *)
(***************************************************************************)

Step(op, o) == [op |-> op, of |-> o, file |-> None, as |-> None]

(* Mutant: the server's key is made after the request for its certificate. *)
GeneratePlanKeyLate ==
  <<Step("key", Ca), Step("selfSign", Ca), Step("csr", Svc),
    Step("key", Svc), Step("sign", Svc), Step("clean", Svc)>>

(* generate_certificates.                                                  *)
GeneratePlan ==
  <<Step("key", Ca), Step("selfSign", Ca), Step("key", Svc),
    Step("csr", Svc), Step("sign", Svc), Step("clean", Svc)>>

(* _ensure_ca_exists: an authority is made unless it has both files.       *)
EnsureCa ==
  IF disk[Ca].key # None /\ disk[Ca].cert # None THEN <<>>
  ELSE <<Step("key", Ca), Step("selfSign", Ca)>>

(* Mutant: a bundle is packed for base stations too.                       *)
IssuePlanPacked(e) ==
  EnsureCa
    \o <<Step("mkdir", e), Step("key", e), Step("csr", e), Step("sign", e)>>
    \o <<Step("zip", e), Step("clean", e)>>

(* _generate_bs_certificate and _generate_ac_certificate; the latter also  *)
(* packs the bundle, the former's is packed when it is downloaded.  After  *)
(* its last step the former also enters the dates in the file of base      *)
(* stations, which no certificate depends on and which is left out.        *)
IssuePlan(e) ==
  EnsureCa
    \o <<Step("mkdir", e), Step("key", e), Step("csr", e), Step("sign", e)>>
    \o (IF e \in Acs THEN <<Step("zip", e)>> ELSE <<>>)
    \o <<Step("clean", e)>>

(* A file is renamed out of the way, if there is one, and written.         *)
Replace(o, f, v) ==
  <<[op |-> "away", of |-> o, file |-> f, as |-> None],
    [op |-> "put", of |-> o, file |-> f, as |-> v]>>

(* restore_certificates: those of the three files the backup holds.        *)
RestorePlan(b) ==
  (IF b.ca # None THEN Replace(Ca, "cert", b.ca) ELSE <<>>)
    \o (IF b.cert # None THEN Replace(Svc, "cert", b.cert) ELSE <<>>)
    \o (IF b.key # None THEN Replace(Svc, "key", b.key) ELSE <<>>)

Begin(r, k, p) ==
  /\ plan[r] = <<>>
  /\ p # <<>>
  /\ jobs < MaxJobs
  /\ jobs' = jobs + 1
  /\ plan' = [plan EXCEPT ![r] = p]
  /\ kind' = [kind EXCEPT ![r] = k]
  /\ alone' = alone \cup {r}
  /\ UNCHANGED <<disk, backup, keys, sound, issued>>

Generate(r) == Begin(r, "generate", GeneratePlan)

Issue(r, e) == Begin(r, "issue", IssuePlan(e))

(* upload_certificate and restore_certificates, of files made elsewhere or *)
(* taken from the backup.                                                  *)
Upload(r) ==
  \E b \in {Elsewhere, backup} \ {None} :
    \E p \in {Replace(Ca, "cert", b.ca), Replace(Svc, "cert", b.cert),
              Replace(Svc, "key", b.key)} :
      p[2].as # None /\ Begin(r, "replace", p)

Restore(r) ==
  \E b \in {Elsewhere, backup} \ {None} : Begin(r, "replace", RestorePlan(b))

-----------------------------------------------------------------------------
(***************************************************************************)
(* Steps                                                                   *)
(***************************************************************************)

Readable(k) == k \notin {None, Empty}

(* Mutant: the key of the authority is not compared with its certificate.  *)
CanRunUnchecked(s) ==
  /\ s.op # "mkdir" => disk[s.of].dir
  /\ s.op \in {"csr", "selfSign"} => Readable(disk[s.of].key)
  /\ s.op = "sign" =>
       /\ Readable(disk[s.of].csr)
       /\ disk[Ca].cert # None /\ Readable(disk[Ca].key)
  /\ s.op = "zip" =>
       disk[Ca].cert # None /\ disk[s.of].cert # None /\ disk[s.of].key # None

(* Whether a step can succeed.  The command that signs the server's        *)
(* certificate has options that not every openssl knows for x509           *)
(* (-addext): there each generate fails at its "sign", as Fail has it, and *)
(* what is said of a generate that was completed says nothing.             *)
CanRun(s) ==
  /\ s.op # "mkdir" => disk[s.of].dir
  /\ s.op \in {"csr", "selfSign"} => Readable(disk[s.of].key)
  /\ s.op = "sign" =>
       /\ Readable(disk[s.of].csr)
       /\ disk[Ca].cert # None /\ Readable(disk[Ca].key)
       /\ disk[Ca].cert.key = disk[Ca].key
  /\ s.op = "zip" =>
       disk[Ca].cert # None /\ disk[s.of].cert # None /\ disk[s.of].key # None
  /\ s.op = "key" => keys < MaxKeys

(* The files of the owner after a step.                                    *)
Files(s) ==
  LET d == disk[s.of]
  IN  CASE s.op = "mkdir" -> [d EXCEPT !.dir = TRUE]
        [] s.op = "key" -> [d EXCEPT !.key = keys + 1]
        [] s.op = "csr" -> [d EXCEPT !.csr = d.key]
        [] s.op = "selfSign" ->
             [d EXCEPT !.cert = [key |-> d.key, by |-> d.key]]
        [] s.op = "sign" ->
             [d EXCEPT !.cert = [key |-> d.csr, by |-> disk[Ca].key]]
        [] s.op = "zip" ->
             [d EXCEPT !.zip = [ca |-> disk[Ca].cert, cert |-> d.cert,
                                key |-> d.key]]
        [] s.op = "clean" -> [d EXCEPT !.csr = None]
        [] s.op = "away" -> [d EXCEPT ![s.file] = None]
        [] s.op = "put" -> [d EXCEPT ![s.file] = s.as]

(* The file a step writes.                                                 *)
Output(s) ==
  CASE s.op \in {"selfSign", "sign"} -> "cert"
    [] s.op \in {"key", "csr", "zip"} -> s.op
    [] OTHER -> s.file

(* Whoever writes a file of the set ends what was said of it, and so does  *)
(* whoever begins anew for a client.                                       *)
Touch(o) ==
  /\ sound' = (sound /\ o \notin {Ca, Svc})
  /\ issued' = IF o = Ca THEN {} ELSE issued \ {o}

Others(r) == Threads \ {r}

(* A step succeeds; the last one ends the request.                         *)
Run(r) ==
  /\ plan[r] # <<>>
  /\ LET s == Head(plan[r])
         last == Len(plan[r]) = 1
     IN  /\ CanRun(s)
         /\ disk' = [disk EXCEPT ![s.of] = Files(s)]
         /\ keys' = IF s.op = "key" THEN keys + 1 ELSE keys
         /\ plan' = [plan EXCEPT ![r] = Tail(@)]
         /\ kind' = IF last THEN [kind EXCEPT ![r] = "idle"] ELSE kind
         /\ alone' = alone \ Others(r)
         /\ IF last /\ r \in alone /\ kind[r] = "generate"
            THEN sound' = TRUE /\ UNCHANGED issued
            ELSE IF last /\ r \in alone /\ kind[r] = "issue"
            THEN issued' = issued \cup {s.of} /\ UNCHANGED sound
            ELSE Touch(s.of)
  /\ UNCHANGED <<backup, jobs>>

(* A step fails and ends the request.                                      *)
Fail(r) ==
  /\ plan[r] # <<>>
  /\ LET s == Head(plan[r])
     IN  /\ s.op \notin {"clean", "mkdir", "away"}
         /\ \/ UNCHANGED disk
            \/ /\ disk[s.of].dir /\ s.op \notin {"put", "zip"}
               /\ disk' = [disk EXCEPT ![s.of][Output(s)] = EmptyOf[Output(s)]]
         /\ Touch(s.of)
  /\ plan' = [plan EXCEPT ![r] = <<>>]
  /\ kind' = [kind EXCEPT ![r] = "idle"]
  /\ alone' = alone \ Others(r)
  /\ UNCHANGED <<backup, jobs, keys>>

-----------------------------------------------------------------------------
(* backup_certificates: the key of the authority is not in it.             *)
Backup ==
  /\ backup' = [ca |-> disk[Ca].cert, cert |-> disk[Svc].cert,
                key |-> disk[Svc].key]
  /\ UNCHANGED <<disk, plan, kind, jobs, keys, alone, sound, issued>>

(* delete_ac_certificate.                                                  *)
Delete(e) ==
  /\ disk[e].dir
  /\ disk' = [disk EXCEPT ![e] = NoFiles(FALSE)]
  /\ alone' = {}
  /\ Touch(e)
  /\ UNCHANGED <<plan, kind, backup, jobs, keys>>

(* The process exits, as the restart routes make it: requests stop where   *)
(* they are.                                                               *)
Restart ==
  /\ plan' = [r \in Threads |-> <<>>]
  /\ kind' = [r \in Threads |-> "idle"]
  /\ alone' = {}
  /\ UNCHANGED <<disk, backup, jobs, keys, sound, issued>>

Next ==
  \/ \E r \in Threads :
       \/ Generate(r) \/ Upload(r) \/ Restore(r) \/ Run(r) \/ Fail(r)
       \/ \E e \in Clients : Issue(r, e)
  \/ Backup \/ Restart
  \/ \E e \in Acs : Delete(e)

Spec == Init /\ [][Next]_certVars

-----------------------------------------------------------------------------
(***************************************************************************)
(* Properties                                                              *)
(***************************************************************************)

(* One generate that nothing interrupts repairs the set, whatever failed,  *)
(* stopped half-way or was restored before: the server's key fits its      *)
(* certificate (load_cert_chain), and that was signed by the authority the *)
(* clients are given.  Issuing pairs later does not break it.  It takes an *)
(* openssl with which the command that signs can succeed (CanRun).         *)
GeneratedSetServes ==
  sound => /\ disk[Svc].cert = [key |-> disk[Svc].key, by |-> disk[Ca].key]
           /\ disk[Ca].cert.key = disk[Ca].key
           /\ Readable(disk[Svc].key)

(* A pair issued by a request that nothing interrupts is accepted as long  *)
(* as the authority stays: its certificate fits its key and was signed by  *)
(* the authority on disk and in the bundle, even when that was uploaded or *)
(* restored without its key.                                               *)
IssuedPairsVerify ==
  \A e \in issued :
    LET d == disk[e]
    IN  /\ d.cert = [key |-> d.key, by |-> disk[Ca].cert.key]
        /\ e \in Acs =>
             d.zip = [ca |-> disk[Ca].cert, cert |-> d.cert, key |-> d.key]
=============================================================================
