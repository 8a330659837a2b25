------------------------------- MODULE Quota --------------------------------
(***************************************************************************)
(* The gates a run passes before it may start anything (quota.py): can     *)
(* every identity the run writes as really write, and can the workspace    *)
(* pay.  An account is what Coiled would answer if asked:                  *)
(*   endpoint  [up, has_quota, remaining] of the usage endpoint,           *)
(*   pages     the amounts of each page of billing activity,               *)
(*   broken    the billing page that cannot be read, 0 for none,           *)
(*   operator  the limit a person types, or None.                          *)
(***************************************************************************)
EXTENDS Integers, FiniteSets, Sequences

CONSTANTS
  AwsProfile,        \* settings.aws_profile
  BillingMaxPages,   \* settings.coiled_billing_max_pages
  CreditSafety,      \* settings.coiled_credit_safety
  VcpuRate,          \* credits a vCPU costs for one tick
  None

\* What is known of a balance: each part may be None, which is no answer.
Balances == [remaining : Int \cup {None}, has_quota : BOOLEAN \cup {None}, spent : Int \cup {None}]

ASSUME GatesAssumption ==
  /\ BillingMaxPages \in Nat \ {0}
  /\ CreditSafety \in Nat \ {0}
  /\ VcpuRate \in Nat
  /\ AwsProfile # None /\ None \notin Int /\ None \notin BOOLEAN /\ None \notin Balances

-----------------------------------------------------------------------------
(* Who writes.  env is the launching shell: whether it holds an access key,*)
(* and AWS_PROFILE or None.                                                *)

Operations == {"put", "get", "list", "delete"}

\* preflight_identity: one call as the driver, which any failure refuses.
PreflightIdentity(answers) == answers

\* boto3's default chain: environment keys, then the profile.
DriverIdentity(env) ==
  IF env.key THEN "key" ELSE IF env.profile # None THEN env.profile ELSE "default"

\* The credentials frozen into every worker's environment.
WorkerIdentity(env) == IF env.key THEN "key" ELSE AwsProfile

\* A mutant: the driver's own identity is the only one probed.
OneWriter(env) == {DriverIdentity(env)}

\* The identities probed: one where the source is shared, otherwise two.
WriterSpecs(env) ==
  IF env.key THEN {"key"}
  ELSE IF env.profile = AwsProfile THEN {AwsProfile}
  ELSE {DriverIdentity(env), AwsProfile}

\* One object written, read back, listed and deleted.
ProbeWriter(identity, allows) == Operations \subseteq allows[identity]

PreflightWriteAccess(env, allows) ==
  \A identity \in WriterSpecs(env) : ProbeWriter(identity, allows)

-----------------------------------------------------------------------------
(* What is left to spend.                                                  *)

SumOf(values) ==
  LET sum[k \in 0..Len(values)] == IF k = 0 THEN 0 ELSE sum[k - 1] + values[k]
  IN  sum[Len(values)]

\* Fleets <<machines, vCPUs each, ticks each>>.
CreditsForFleets(fleets) ==
  SumOf([k \in 1..Len(fleets) |-> fleets[k][1] * fleets[k][2] * fleets[k][3]]) * VcpuRate

Needed(estimate) == estimate * CreditSafety

Known(balance) == balance.remaining # None \/ balance.has_quota # None

UsageEndpointBalance(account) ==
  IF account.endpoint.up
    THEN [remaining |-> account.endpoint.remaining,
          has_quota |-> account.endpoint.has_quota, spent |-> None]
    ELSE None

Magnitude(n) == IF n < 0 THEN -n ELSE n
Debits(page) == SumOf([k \in 1..Len(page) |-> Magnitude(page[k])])

\* How many pages are read: to the first empty one or the cap.
PagesRead(account) ==
  Cardinality({k \in 1..Len(account.pages) :
                 k <= BillingMaxPages /\ \A j \in 1..(k - 1) : account.pages[j] # <<>>})

\* Every debit of the pages read; a page that fails voids the answer.
BillingBalance(account) ==
  IF account.broken \in {1} \cup 1..PagesRead(account)
    THEN None
    ELSE [remaining |-> None, has_quota |-> None,
          spent |-> SumOf([k \in 1..PagesRead(account) |-> Debits(account.pages[k])])]

\* The endpoint's verdict is final; otherwise each source gives its half.
ReadBalance(account) ==
  LET endpoint == UsageEndpointBalance(account)
      billing == BillingBalance(account)
      unknown == [remaining |-> None, has_quota |-> None, spent |-> None]
  IN  IF endpoint # None /\ endpoint.has_quota = FALSE THEN endpoint
      ELSE IF billing = None
             THEN IF endpoint # None /\ Known(endpoint) THEN endpoint ELSE unknown
           ELSE IF endpoint = None \/ ~Known(endpoint) THEN billing
           ELSE [billing EXCEPT !.remaining = endpoint.remaining,
                                !.has_quota = endpoint.has_quota]

\* A person's limit turns a known spend into a remainder.
WithOperatorLimit(balance, limit) ==
  IF \/ balance.remaining # None
     \/ balance.has_quota = FALSE
     \/ balance.spent = None
     \/ limit = None
    THEN balance
    ELSE [balance EXCEPT !.remaining = limit - balance.spent]

PreflightCredits(account, acked, estimate) ==
  LET read == ReadBalance(account)
      balance == IF acked THEN read ELSE WithOperatorLimit(read, account.operator)
  IN  /\ balance.has_quota # FALSE
      /\ IF balance.remaining # None THEN balance.remaining >= Needed(estimate) ELSE acked

=============================================================================
