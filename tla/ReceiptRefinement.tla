-------------------------- MODULE ReceiptRefinement --------------------------
(***************************************************************************)
(* The pipeline of concurrent jobs implements the ledger: its entries are   *)
(* the committed transactions, its subscriptions the committed rows.        *)
(***************************************************************************)
EXTENDS ReceiptPipeline

Ledger == INSTANCE ReceiptLedger WITH
  FirstOpen <- ManualKey,
  connected <- accounts,
  entries <- txns,
  open <- [s \in DOMAIN subs |-> KeyOfSub(s)]

(* Every step of a job, of the user or of a crash is one entry, one         *)
(* disconnect, one wipe, or invisible in the ledger: parse_candidate is     *)
(* atomic and idempotent, although it is a dozen statements interleaved     *)
(* with others, and although two first receipts of a key may each open a    *)
(* subscription.                                                            *)
ImplementsLedger == Ledger!Spec
=============================================================================
