----------------------------- MODULE PolicyCore -----------------------------
(* policy-core's checks of one transaction, and how a node applies them to a  *)
(* spend, to a request's escape and to a refresh: the prevouts are read from  *)
(* the node's own chain outside the lock, the user's signatures and the       *)
(* declared prevouts are compared, the policy is evaluated in a fixed order,  *)
(* and the class is derived from the outputs.                                 *)
(*                                                                            *)
(* A script is a wallet and a derivation index.  The vault's descriptor is    *)
(* definite: only its index 0 is its script.  Amounts are scaled; AmountMax   *)
(* stands for u64::MAX, and the sums of check_fee, which are u128 in the      *)
(* code, are unbounded.                                                       *)
EXTENDS Integers, Sequences, FiniteSetsExt

CONSTANTS
    AmountMax,         \* u64::MAX, scaled
    MaxFeePercent,     \* MAX_FEE_PERCENT
    HotMaxPerTx,       \* hot_max_per_tx
    MaxIndex,          \* max_derivation_index
    InputLists,        \* what a transaction may spend: sequences of inputs
    OutputLists        \* what it may pay: sequences of outputs

\* An output's script, and what a transaction spends and pays.  An input declares a
\* prevout (its witness_utxo); truth is the output the chain has at that outpoint.
ScriptPubkey == [wallet : {"none", "vault", "hot", "escape", "other"}, index : Nat]
TxOut == [script : ScriptPubkey, value : Nat]
Input == [utxo : TxOut, truth : TxOut]
Output == [script : ScriptPubkey, value : Nat, labelled : BOOLEAN]

\* The cap is refused at start if it is 0, and a TOML integer is signed, so that no cap
\* is where the sums saturate.
ASSUME PolicyAssumption ==
    /\ AmountMax \in Nat /\ MaxFeePercent \in 0 .. 100 /\ MaxIndex \in Nat
    /\ HotMaxPerTx \in 1 .. AmountMax - 1
    /\ InputLists \subseteq Seq(Input) /\ OutputLists \subseteq Seq(Output)

VARIABLES
    draft,             \* the transaction under adjudication
    seen,              \* the inputs whose prevout the backend returned
    verdict            \* where the request stands, its class and what is metered

policyVars == <<draft, seen, verdict>>

\* An absent witness_utxo.
NoUtxo == [script |-> [wallet |-> "none", index |-> 0], value |-> 0]
NoDraft == [purpose |-> "none", ins |-> <<>>, outs |-> <<>>]

\* The sum of all amounts, and of those at the indices of S in the machine's integers.
Total(amounts) ==
    LET sum[n \in 0 .. Len(amounts)] == IF n = 0 THEN 0 ELSE sum[n - 1] + amounts[n]
    IN  sum[Len(amounts)]
SaturatingSum(a, b) == IF a + b > AmountMax THEN AmountMax ELSE a + b
SaturatingTotal(amounts, S) ==
    LET sum[n \in 0 .. Len(amounts)] ==
            IF n = 0 THEN 0
            ELSE IF n \in S THEN SaturatingSum(sum[n - 1], amounts[n]) ELSE sum[n - 1]
    IN  sum[Len(amounts)]
ValuesOf(outs) == [i \in DOMAIN outs |-> outs[i].value]
Declared(ins) == [i \in DOMAIN ins |-> ins[i].utxo.value]

-----------------------------------------------------------------------------
(* The checks of evaluate.  Each is "ok" or the code of its refusal.          *)

\* derives_within: a bounded scan, of index 0 alone where there is no wildcard.
DerivesWithin(wallet, script) ==
    /\ script.wallet = wallet
    /\ script.index <= IF wallet = "vault" THEN 0 ELSE MaxIndex

\* The allowlist holds the hot wallet and the escape wallet.
Allowed(script) == DerivesWithin("hot", script) \/ DerivesWithin("escape", script)

CheckPsbtConsistency(d) ==
    IF d.ins = <<>> \/ d.outs = <<>> \/ \E i \in DOMAIN d.ins : d.ins[i].utxo = NoUtxo
    THEN "PsbtInconsistent" ELSE "ok"

CheckInputs(d) ==
    IF \A i \in DOMAIN d.ins : DerivesWithin("vault", d.ins[i].utxo.script)
    THEN "ok" ELSE "UnknownInput"

\* The first output that is neither allowed nor change decides the code.
CheckDestinations(d) ==
    LET bad == {i \in DOMAIN d.outs : /\ ~ Allowed(d.outs[i].script)
                                      /\ ~ DerivesWithin("vault", d.outs[i].script)}
    IN IF bad = {} THEN "ok"
       ELSE IF d.outs[Min(bad)].labelled THEN "ChangeNotDerivable" ELSE "DestNotAllowed"

\* The outputs that pay neither the vault nor the escape wallet.
Leaving(outs) == {i \in DOMAIN outs : /\ ~ DerivesWithin("vault", outs[i].script)
                                      /\ ~ DerivesWithin("escape", outs[i].script)}

HotOutflow(d) == SaturatingTotal(ValuesOf(d.outs), Leaving(d.outs))

CheckHotBudget(d) ==
    IF HotOutflow(d) > HotMaxPerTx THEN "HotBudgetExceeded" ELSE "ok"

CheckFee(d) ==
    LET in  == Total(Declared(d.ins))
        out == Total(ValuesOf(d.outs))
    IN IF out > in THEN "PsbtInconsistent"
       ELSE IF (in - out) * 100 > MaxFeePercent * in THEN "FeeExceedsCap" ELSE "ok"

\* evaluate: the checks in their order, the first refusal stands.
Evaluate(d) ==
    LET checks == <<CheckPsbtConsistency(d), CheckInputs(d), CheckDestinations(d),
                    CheckHotBudget(d), CheckFee(d)>>
        refusals == {i \in DOMAIN checks : checks[i] # "ok"}
    IN IF refusals = {} THEN "ok" ELSE checks[Min(refusals)]

-----------------------------------------------------------------------------
(* classify.                                                                  *)

EscapeOutputs(d) == {i \in DOMAIN d.outs : DerivesWithin("escape", d.outs[i].script)}
HotOutputs(d) == {i \in Leaving(d.outs) : Allowed(d.outs[i].script)}
Unrecognized(d) == {i \in Leaving(d.outs) : ~ Allowed(d.outs[i].script)}

\* Mutant: one output to the escape wallet makes an escape.
AnyEscape(d) ==
    CASE Unrecognized(d) # {} -> "PsbtInconsistent"
      [] Unrecognized(d) = {} /\ EscapeOutputs(d) # {} -> "Escape"
      [] OTHER -> IF HotOutputs(d) = {} THEN "Refresh" ELSE "Hot"

\* The class, or the refusal of a mixed or unrecognized spend.
Classify(d) ==
    CASE Unrecognized(d) # {} -> "PsbtInconsistent"
      [] Unrecognized(d) = {} /\ HotOutputs(d) = {} ->
            IF EscapeOutputs(d) = {} THEN "Refresh" ELSE "Escape"
      [] Unrecognized(d) = {} /\ HotOutputs(d) # {} ->
            IF EscapeOutputs(d) = {} THEN "Hot" ELSE "PsbtInconsistent"

\* The outflow the same scan measured.
ClassifiedOutflow(d) == SaturatingTotal(ValuesOf(d.outs), HotOutputs(d))

-----------------------------------------------------------------------------
(* The node's adjudication.                                                   *)

\* How a request may be refused (map_policy_code keeps the names of policy-core's).
Codes == {"PsbtInconsistent", "UnknownInput", "ChangeNotDerivable", "DestNotAllowed",
          "HotBudgetExceeded", "FeeExceedsCap", "UserSigInvalid"}

NoVerdict == [at |-> "none", class |-> "none", metered |-> 0]

PolicyInit == draft = NoDraft /\ seen = {} /\ verdict = NoVerdict

Submit(purpose, ins, outs) ==
    /\ verdict.at = "none"
    /\ draft' = [purpose |-> purpose, ins |-> ins, outs |-> outs]
    /\ verdict' = [verdict EXCEPT !.at = "preflight"]
    /\ UNCHANGED seen

Refuse(code) == verdict' = [NoVerdict EXCEPT !.at = code]

\* prefetch_*_prevouts, outside the lock: the batch fails, or returns what the chain
\* and the mempool have now; a parent that is not visible yet is no failure.
Prefetch ==
    /\ verdict.at = "preflight"
    /\ \/ Refuse("PsbtInconsistent") /\ UNCHANGED seen
       \/ /\ seen' \in SUBSET DOMAIN draft.ins
          /\ verdict' = [verdict EXCEPT !.at = "verify"]
    /\ UNCHANGED draft

\* compare_prevouts_against_chain, of one input.
SamePrevout(input) == input.utxo = input.truth

PrevoutsAgree(d) ==
    \A i \in seen : d.ins[i].utxo # NoUtxo => SamePrevout(d.ins[i])

\* The class the request must have: a spend is no refresh, the escape of a request
\* an escape, a refresh a refresh.
ClassFits(purpose, class) ==
    CASE purpose = "spend"   -> class \in {"Hot", "Escape"}
      [] purpose = "escape"  -> class = "Escape"
      [] purpose = "refresh" -> class = "Refresh"

\* verify_user_signatures goes through the inputs: the first that has no prevout or no
\* good signature decides.
MissingUtxo(d) == \E i \in DOMAIN d.ins : d.ins[i].utxo = NoUtxo

\* The user's signatures are not what the node asks for.
RefuseSignatures ==
    /\ verdict.at = "verify"
    /\ \/ MissingUtxo(draft) /\ Refuse("PsbtInconsistent")
       \/ draft.ins # <<>> /\ Refuse("UserSigInvalid")
    /\ UNCHANGED <<draft, seen>>

\* The rest of verify_spend or verify_escape under the lock, then the class; a hot
\* spend's outflow is what the velocity ledger is charged.
Adjudicate ==
    /\ verdict.at = "verify" /\ ~ MissingUtxo(draft)
    /\ \/ ~ PrevoutsAgree(draft) /\ Refuse("PsbtInconsistent")
       \/ /\ PrevoutsAgree(draft)
          /\ Evaluate(draft) # "ok" /\ Refuse(Evaluate(draft))
       \/ /\ PrevoutsAgree(draft) /\ Evaluate(draft) = "ok"
          /\ ~ ClassFits(draft.purpose, Classify(draft)) /\ Refuse("PsbtInconsistent")
       \/ /\ PrevoutsAgree(draft) /\ Evaluate(draft) = "ok"
          /\ ClassFits(draft.purpose, Classify(draft))
          /\ verdict' = [at |-> "approved", class |-> Classify(draft),
                         metered |-> IF Classify(draft) = "Hot"
                                     THEN ClassifiedOutflow(draft) ELSE 0]
    /\ UNCHANGED <<draft, seen>>

\* The answer goes out; the next request starts from nothing.
Answer ==
    /\ verdict.at \in Codes \cup {"approved"}
    /\ draft' = NoDraft /\ seen' = {} /\ verdict' = NoVerdict

PolicyNext ==
    \/ \E purpose \in {"spend", "escape", "refresh"}, ins \in InputLists, outs \in OutputLists :
          Submit(purpose, ins, outs)
    \/ Prefetch
    \/ RefuseSignatures
    \/ Adjudicate
    \/ Answer

PolicySpec == PolicyInit /\ [][PolicyNext]_policyVars

-----------------------------------------------------------------------------
(* What must hold.                                                            *)

\* Every field is of its type, and what a node meters is within the per-transaction cap.
PolicyTypeOK ==
    /\ draft # NoDraft => draft.ins \in InputLists /\ draft.outs \in OutputLists
    /\ seen \subseteq DOMAIN draft.ins
    /\ verdict.at \in Codes \cup {"none", "preflight", "verify", "approved"}
    /\ verdict.class \in {"none", "Hot", "Escape", "Refresh"}
    /\ verdict.metered \in 0 .. HotMaxPerTx

Approved == verdict.at = "approved"

\* What a transaction really takes from the vault: the value its inputs have on the
\* chain, less what comes back to the vault or goes to the escape wallet.
Real(ins) == [i \in DOMAIN ins |-> ins[i].truth.value]
OnlyAt(S, amounts) == [i \in DOMAIN amounts |-> IF i \in S THEN amounts[i] ELSE 0]
Outflow(outs) == Total(OnlyAt(Leaving(outs), ValuesOf(outs)))
Kept(outs) == Total(OnlyAt(DOMAIN outs \ Leaving(outs), ValuesOf(outs)))
Loss(d) == Total(Real(d.ins)) - Kept(d.outs)

\* check_hot_budget, check_fee and the prevout comparison together: a transaction whose
\* prevouts the node has seen takes at most the cap and the fee percentage of its real
\* inputs from the vault, whatever its inputs declare and however its outputs add up.
LossBounded ==
    Approved /\ seen = DOMAIN draft.ins =>
        100 * Loss(draft) <=
            100 * HotMaxPerTx + MaxFeePercent * Total(Real(draft.ins))

\* classify and hot_outflow are two scans: what the velocity ledger is charged is all
\* that leaves for neither the vault nor the escape wallet, and nothing leaves under a
\* class that is not held, metered and frozen.
MeterIsOutflow ==
    Approved => verdict.metered = Outflow(draft.outs)

\* What evaluate and classify promise of a transaction a node approves.
PolicyInv == PolicyTypeOK /\ LossBounded /\ MeterIsOutflow
=============================================================================
