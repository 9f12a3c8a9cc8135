----------------------------- MODULE Credentials -----------------------------
(***************************************************************************)
(* What the service hands out in the name of a user: impersonation tokens  *)
(* of both kinds (services/imptoken, services/impersonation_token) and     *)
(* credentials for the storage of the cloud (services/utility and          *)
(* cloud/providers/*/credentials.ts); and the token of its own that an     *)
(* instance keeps until shortly before it expires.                         *)
(*                                                                         *)
(* One user, one application.  Rights come from the groups of access       *)
(* lists; the decisions about them are those of the module Access, which   *)
(* may be as old as its memory.                                            *)
(***************************************************************************)
EXTENDS Naturals, FiniteSets

CONSTANTS
  Proc,       \* requests that run at the same time
  Sub,        \* subprojects
  Dataset,
  Home,       \* the subproject of each dataset
  MaxItems,   \* resources in a request for a token
  MaxTokens,  \* tokens at a time
  MaxTime,    \* ticks of the clock
  Life,       \* ticks that a token of the service lives
  Margin,     \* KExpiresMargin, 300 s
  Settings,   \* cloud, policy, and what is called
  Nil

Op       == {"generate", "refresh", "patch", "credential", "service"}
Provider == {"azure", "google", "aws", "ibm", "minio"}
Setting  == [provider : Provider, policy : {"uniform", "dataset"},
             own   : SUBSET Dataset,           \* datasets with access lists of their own
             kinds : SUBSET {"old", "new"},    \* kinds of tokens that can be issued
             exact : BOOLEAN,                  \* is the expiry read from the token of the service?
             ops   : SUBSET Op,
             calls : 1 .. Cardinality(Proc)]   \* a bound: requests that run at a time

ASSUME CredentialsAssumption ==
  /\ Home \in [Dataset -> Sub] /\ Sub \cap Dataset = {}
  /\ Margin \in Nat \ {0} /\ Life \in Nat /\ Life > Margin
  /\ MaxItems \in Nat /\ MaxTokens \in Nat /\ MaxTime \in Nat
  /\ Settings \subseteq Setting
  \* tokens of the old kind are signed by Google only; elsewhere than on Azure and
  \* Google a credential always covers a subproject, and so no dataset policy there
  /\ \A s \in Settings : /\ "old" \in s.kinds => s.provider = "google"
                         /\ s.policy = "dataset" => s.provider \in {"azure", "google"}

VARIABLES
  setting,   \* the setting of this behaviour
  member,    \* the groups the user is in: of a subproject or dataset, of its admins or viewers
  recent,    \* the groups a decision in memory may rest on
  trusted,   \* is the application trusted?
  tokens,    \* the impersonation tokens, with what they rest on
  expired,   \* those of them that are over
  handed,    \* the storage credential handed out last, until the next request
  now,       \* the clock
  kept,      \* the token of the service in memory: until when it is served, and valid
  pc, req,   \* each request: the next await, and what is asked for
  todo,      \* the resources it has yet to check
  basis,     \* history: the rights of the user when it checked
  vouched,   \* history: has it found the application trusted?
  made       \* when the token it awaits was made

access == <<member, recent, trusted>>
call   == <<pc, req, todo, basis, vouched, made>>
vars   == <<setting, access, tokens, expired, handed, now, kept, call>>

Scope   == Sub \cup Dataset
Right   == [of : Scope, write : BOOLEAN]
Token   == [kind : {"old", "new"}, res : SUBSET Right, basis : SUBSET Right, vouched : BOOLEAN]
Request == [op : Op, kind : {"old", "new"}, by : Token \cup {Nil}, want : SUBSET Right]
Item    == [of : Sub, readonly : {"yes", "no", "unsaid"}]
Use     == {"list", "read", "write", "delete", "manage"}  \* of objects; of their bucket
Label   == {"idle", "vouch", "check", "validate", "url", "issue", "hand", "service", "ask",
            "arrive"}

\* a resource and what is in it
Within(x) == {x} \cup {d \in Dataset : Home[d] = x}
SubOf(x)  == IF x \in Dataset THEN Home[x] ELSE x

TypeOK ==
  /\ setting \in Settings
  /\ member \subseteq recent /\ recent \subseteq Right
  /\ trusted \in BOOLEAN
  /\ tokens \subseteq Token /\ \A t \in tokens : t.kind \in setting.kinds
  /\ expired \subseteq tokens
  /\ handed \in {Nil} \cup [of : SUBSET Scope, can : SUBSET Use, basis : SUBSET Right]
  /\ now \in 0 .. MaxTime
  /\ kept \in [until : 0 .. MaxTime + Life, real : 0 .. MaxTime + Life]
  /\ pc \in [Proc -> Label]
  /\ req \in [Proc -> Request \cup {Nil}]
  /\ todo \in [Proc -> SUBSET Right]
  /\ basis \in [Proc -> SUBSET Right]
  /\ vouched \in [Proc -> BOOLEAN]
  /\ made \in [Proc -> 0 .. MaxTime]

Init ==
  /\ setting \in Settings
  /\ member \in {R \in SUBSET Right : Cardinality(R) <= 2} /\ recent = member
  /\ trusted = TRUE
  /\ tokens = {} /\ expired = {} /\ handed = Nil
  /\ now = 0 /\ kept = [until |-> 0, real |-> 0]
  /\ pc = [p \in Proc |-> "idle"]
  /\ req = [p \in Proc |-> Nil]
  /\ todo = [p \in Proc |-> {}]
  /\ basis = [p \in Proc |-> {}]
  /\ vouched = [p \in Proc |-> FALSE]
  /\ made = [p \in Proc |-> 0]

-----------------------------------------------------------------------------
(* Requests.                                                               *)

At(p, l)   == pc[p] = l
Goto(p, l) == pc' = [pc EXCEPT ![p] = l]
Go(p, l)   == Goto(p, l) /\ UNCHANGED <<req, todo, basis, vouched, made>>

End(p) ==
  /\ Goto(p, "idle")
  /\ req' = [req EXCEPT ![p] = Nil]
  /\ todo' = [todo EXCEPT ![p] = {}]
  /\ basis' = [basis EXCEPT ![p] = {}]
  /\ vouched' = [vouched EXCEPT ![p] = FALSE]
  /\ made' = [made EXCEPT ![p] = 0]

\* ImpTokenParser.create and ImpersonationTokenParser.generate: one entry for
\* each subproject, which is readonly unless one of its items says otherwise
Parse(items) ==
  {[of |-> s, write |-> \E i \in items : i.of = s /\ i.readonly = "no"] :
     s \in {i.of : i \in items}}

\* with the user's own token, or with an impersonation token
Bearer == {Nil} \cup (tokens \ expired)

Generations ==
  {[op |-> "generate", kind |-> k, by |-> b, want |-> Parse(items)] :
     k \in setting.kinds, b \in Bearer,
     items \in {I \in SUBSET Item : Cardinality(I) \in 1 .. MaxItems}}
Refreshes ==
  {[op |-> "refresh", kind |-> t.kind, by |-> t, want |-> t.res] : t \in tokens}
Patches ==
  {[op |-> "patch", kind |-> "old", by |-> t, want |-> t.res] :
     t \in {u \in tokens : u.kind = "old"}}
CredentialRequests ==
  {[op |-> "credential", kind |-> "new", by |-> b, want |-> {r}] : b \in Bearer, r \in Right}
ServiceRequests == {[op |-> "service", kind |-> "new", by |-> Nil, want |-> {}]}

Requests == {r \in Generations \cup Refreshes \cup Patches \cup CredentialRequests
                   \cup ServiceRequests : r.op \in setting.ops}

\* where the handler of a request begins
First(r) ==
  CASE r.op = "generate"                   -> "vouch"
    [] r.op = "refresh" /\ r.kind = "new"  -> "vouch"
    [] r.op = "refresh" /\ r.kind = "old"  -> "validate"
    [] r.op = "patch"                      -> "validate"
    [] r.op = "credential"                 -> "check"
    [] r.op = "service"                    -> "service"

Renewal(r) == r.op \in {"refresh", "patch"}

Begin(p) ==
  /\ At(p, "idle")
  /\ Cardinality({q \in Proc : ~At(q, "idle")}) < setting.calls
  /\ \E r \in Requests :
       /\ Goto(p, First(r))
       /\ req' = [req EXCEPT ![p] = r]
       /\ todo' = [todo EXCEPT ![p] = IF Renewal(r) THEN {} ELSE r.want]
       /\ basis' = [basis EXCEPT ![p] = IF Renewal(r) THEN r.by.basis ELSE {}]
       /\ vouched' = [vouched EXCEPT ![p] = Renewal(r) /\ r.kind = "old" /\ r.by.vouched]
  /\ handed' = Nil
  /\ UNCHANGED <<setting, access, tokens, expired, now, kept, made>>

\* a lookup or a call that fails
Fail(p) ==
  /\ ~At(p, "idle")
  /\ End(p)
  /\ UNCHANGED <<setting, access, tokens, expired, handed, now, kept>>

-----------------------------------------------------------------------------
(* The checks of a request.                                                *)

\* isAppAuthorized; a renewal of the new kind goes on with the context it brought
Vouch(p) ==
  /\ At(p, "vouch")
  /\ trusted
  /\ Goto(p, IF todo[p] = {} THEN "issue" ELSE "check")
  /\ vouched' = [vouched EXCEPT ![p] = TRUE]
  /\ UNCHANGED <<setting, access, tokens, expired, handed, now, kept, req, todo, basis, made>>

\* SubprojectAuth.getAuthGroups and DatasetAuth.getAuthGroups
SubGroups(s, write) == {g \in Right : g.of = s /\ (write => g.write)}

Groups(r) ==
  IF r.of \in setting.own /\ setting.policy = "dataset"
  THEN {g \in Right : g.of = r.of /\ (r.write => g.write)}
  ELSE SubGroups(SubOf(r.of), r.write)

\* a slip: whether the token is readonly is not looked at
OldAllows_Read(t, r) == \E e \in t.res : e.of = SubOf(r.of)

\* what a token of either kind allows: it names the subproject, for writing or not
OldAllows(t, r) == \E e \in t.res : e.of = SubOf(r.of) /\ (r.write => e.write)
NewAllows(t, r) == \E e \in t.res : e.of = SubOf(r.of) /\ (r.write => e.write)

\* a decision of one's own groups may rest on the memory of the last minute
Allowed(by, r) ==
  IF by = Nil THEN recent \cap Groups(r) # {}
  ELSE IF by.kind = "old" THEN OldAllows(by, r) ELSE NewAllows(by, r)

\* the resources are checked in no particular order, and all of them must do
Check(p) ==
  /\ At(p, "check")
  /\ \E r \in todo[p] :
       /\ Allowed(req[p].by, r)
       /\ todo' = [todo EXCEPT ![p] = @ \ {r}]
       /\ basis' = [basis EXCEPT ![p] =
            @ \cup IF req[p].by = Nil THEN recent \cap Groups(r) ELSE req[p].by.basis]
       /\ Goto(p, IF todo[p] # {r} THEN "check"
                  ELSE IF req[p].op = "generate" THEN "issue" ELSE "hand")
  /\ UNCHANGED <<setting, access, tokens, expired, handed, now, kept, req, vouched, made>>

\* ImpTokenDAO.validate: the signature, and for a patch also the expiry
Validate(p) ==
  /\ At(p, "validate")
  /\ req[p].op = "patch" => req[p].by \in tokens \ expired
  /\ Go(p, IF req[p].op = "patch" THEN "issue" ELSE "url")
  /\ UNCHANGED <<setting, access, tokens, expired, handed, now, kept>>

\* ImpTokenDAO.canBeRefreshed: whatever is answered will do (no answer: Fail)
AskUrl(p) ==
  /\ At(p, "url")
  /\ Go(p, "issue")
  /\ UNCHANGED <<setting, access, tokens, expired, handed, now, kept>>

-----------------------------------------------------------------------------
(* What is handed out.                                                     *)

\* a token for what was asked, or for what the renewed one has
Issue(p) ==
  /\ At(p, "issue")
  /\ LET t == [kind |-> req[p].kind, res |-> req[p].want,
               basis |-> basis[p], vouched |-> vouched[p]]
     IN /\ Cardinality(tokens \cup {t}) <= MaxTokens
        /\ tokens' = tokens \cup {t}
        /\ expired' = expired \ {t}
  /\ End(p)
  /\ UNCHANGED <<setting, access, handed, now, kept>>

\* what a credential permits
Reading == {"list", "read"}
Writing == {"write", "delete"}
Permitted(r) == Reading \cup IF r.write THEN Writing ELSE {}

\* Azure: a signature for the container, which a dataset has under its policy
AzureScope(r) == IF setting.policy = "dataset" THEN {r.of} ELSE Within(SubOf(r.of))
AzureCan(r)   == Permitted(r)

\* a slip: the prefix of the dataset is left out
GoogleScope_Bucket(r) == Within(SubOf(r.of))

\* Google: the bucket, and the prefix of the dataset; the role of a viewer or an admin
GoogleScope(r) == IF r.of \in Dataset THEN {r.of} ELSE Within(r.of)
GoogleCan(r)   == Permitted(r)

\* AWS: the folder that the record of the subproject names; a policy to download or to upload
AwsScope(r) == Within(SubOf(r.of))
AwsCan(r)   == Permitted(r)

\* IBM: the bucket that the record of the subproject names; both policies also permit
\* everything (s3:*) on the bucket itself: to delete it, to rewrite its policy
CosScope(r) == Within(SubOf(r.of))
CosCan(r)   == Permitted(r) \cup {"manage"}

\* MinIO: bucket and folder are in the location, and are those of the subproject
MinioScope(r) == Within(SubOf(r.of))
MinioCan(r)   == Permitted(r)

Granted(r) ==
  CASE setting.provider = "azure"  -> [of |-> AzureScope(r),  can |-> AzureCan(r)]
    [] setting.provider = "google" -> [of |-> GoogleScope(r), can |-> GoogleCan(r)]
    [] setting.provider = "aws"    -> [of |-> AwsScope(r),    can |-> AwsCan(r)]
    [] setting.provider = "ibm"    -> [of |-> CosScope(r),    can |-> CosCan(r)]
    [] setting.provider = "minio"  -> [of |-> MinioScope(r),  can |-> MinioCan(r)]

Hand(p) ==
  /\ At(p, "hand")
  /\ \E r \in req[p].want :
       LET g == Granted(r) IN handed' = [of |-> g.of, can |-> g.can, basis |-> basis[p]]
  /\ End(p)
  /\ UNCHANGED <<setting, access, tokens, expired, now, kept>>

-----------------------------------------------------------------------------
(* The token of the service.                                               *)

\* the token in memory is served; Google's storage credentials want a new one
Serve(p) ==
  /\ At(p, "service")
  /\ \/ kept.until > now /\ End(p)
     \/ (kept.until <= now \/ setting.provider = "google") /\ Go(p, "ask")
  /\ UNCHANGED <<setting, access, tokens, expired, handed, now, kept>>

\* the issuer makes a token, and its answer is on the way
Made(p) ==
  /\ At(p, "ask")
  /\ Goto(p, "arrive")
  /\ made' = [made EXCEPT ![p] = now]
  /\ UNCHANGED <<setting, access, tokens, expired, handed, now, kept, req, todo, basis, vouched>>

\* a slip: the token is served for as long as it is said to live
Until_Whole(p) == now + Life

\* until when it is served: by the expiry it bears, or by the life it is said to have
Until(p) == (IF setting.exact THEN made[p] ELSE now) + Life - Margin

Arrive(p) ==
  /\ At(p, "arrive")
  /\ kept' = [until |-> Until(p), real |-> made[p] + Life]
  /\ End(p)
  /\ UNCHANGED <<setting, access, tokens, expired, handed, now>>

-----------------------------------------------------------------------------
(* What happens meanwhile.                                                 *)

\* the user loses a group, and a minute later the memory of it
Leave ==
  /\ \E g \in member : member' = member \ {g}
  /\ UNCHANGED <<setting, recent, trusted, tokens, expired, handed, now, kept, call>>

Elapse ==
  /\ recent # member
  /\ recent' = member
  /\ UNCHANGED <<setting, member, trusted, tokens, expired, handed, now, kept, call>>

\* a plain registration that comes late takes the trust back (see Tenant)
Distrust ==
  /\ trusted
  /\ trusted' = FALSE
  /\ UNCHANGED <<setting, member, recent, tokens, expired, handed, now, kept, call>>

Expire ==
  /\ \E t \in tokens \ expired : expired' = expired \cup {t}
  /\ UNCHANGED <<setting, access, tokens, handed, now, kept, call>>

\* no answer of the issuer takes longer than the margin
Tick ==
  /\ "service" \in setting.ops
  /\ now < MaxTime
  /\ \A p \in Proc : At(p, "arrive") => now < made[p] + Margin
  /\ now' = now + 1
  /\ UNCHANGED <<setting, access, tokens, expired, handed, kept, call>>

-----------------------------------------------------------------------------
Step(p) ==
  \/ Begin(p) \/ Fail(p) \/ Vouch(p) \/ Check(p) \/ Validate(p) \/ AskUrl(p)
  \/ Issue(p) \/ Hand(p) \/ Serve(p) \/ Made(p) \/ Arrive(p)

Next == (\E p \in Proc : Step(p)) \/ Leave \/ Elapse \/ Distrust \/ Expire \/ Tick

Spec == Init /\ [][Next]_vars

-----------------------------------------------------------------------------
(* What should hold.                                                       *)

\* the rights B give access to x
Covered(B, x, write) == \E b \in B : x \in Within(b.of) /\ (write => b.write)

\* what takes the rights of an admin.  Not held against IBM: what its credentials permit
\* on the bucket itself, to a viewer as well (ibm/stshelper.ts:129-137)
Changing == Writing \cup IF setting.provider = "ibm" THEN {} ELSE {"manage"}

\* Nothing is handed out that was not the user's: whatever a token or a storage
\* credential gives access to, through however many tokens and renewals it was
\* obtained, the user had a right to when a request checked it, at most a minute
\* before; and behind each token is an application that was found to be trusted
\* (imptoken, impersonation_token, utility and the credentials of the clouds).
\* On IBM this is said of the objects only, not of their bucket.
Conferred ==
  /\ TypeOK
  /\ \A t \in tokens : t.vouched /\ \A r \in t.res : Covered(t.basis, r.of, r.write)
  /\ handed # Nil => \A x \in handed.of :
       Covered(handed.basis, x, handed.can \cap Changing # {})

\* A token of the service that is served from memory has not expired, however
\* the answers of its issuer overlap, if none takes longer than the margin
\* (getServiceCredentials and getServiceAccountAccessToken).
Fresh == kept.until > now => kept.real > now

\* What these rest on.  A request has the rights, and the vouched application,
\* that its next await takes for granted: behind every resource it is through with
\* are rights of the user, also to all that a credential for it covers.
Grounded(B, r) == \A x \in {r.of} \cup Granted(r).of : Covered(B, x, r.write)

Checked == \A p \in Proc : ~At(p, "idle") =>
  /\ req[p] \in Request /\ todo[p] \subseteq req[p].want
  /\ req[p].by # Nil => req[p].by \in tokens
  /\ \A r \in req[p].want \ todo[p] : Grounded(basis[p], r)

Placed == \A p \in Proc :
  /\ At(p, "hand") => todo[p] = {}
  /\ At(p, "vouch") => req[p].op = "generate" \/ todo[p] = {}
  /\ pc[p] \in {"vouch", "validate", "url", "issue"} =>
       req[p].op # "credential" /\ req[p].kind \in setting.kinds
  /\ pc[p] \in {"validate", "url", "issue"} => vouched[p] /\ todo[p] = {}
  /\ At(p, "check") /\ req[p].op # "credential" =>
       req[p].op = "generate" /\ vouched[p] /\ req[p].kind \in setting.kinds

\* tokens are for subprojects
ForSubs ==
  /\ \A t \in tokens : \A r \in t.res : r.of \in Sub
  /\ \A p \in Proc : ~At(p, "idle") /\ req[p].op # "credential" =>
       \A r \in req[p].want : r.of \in Sub

\* an answer is taken up in time, and no token is served past its expiry
InTime ==
  /\ kept.until <= kept.real
  /\ \A p \in Proc : At(p, "arrive") => made[p] <= now /\ now <= made[p] + Margin

\* The inductive invariant of the module.
IInv == Conferred /\ Checked /\ Placed /\ ForSubs /\ InTime
=============================================================================
