--------------------------- MODULE PortfolioLedger ---------------------------
(***************************************************************************)
(* The read-only refresh of the portfolio's ledger                          *)
(* (trading/stocks/portfolio_ledger.py).  A refresh reads the two files,    *)
(* lists the wallet's token accounts, reads the signatures of every address *)
(* back to the first one the ledger already knows, fetches each transaction *)
(* and folds its fills into the ledger, and then replaces the audit file    *)
(* and the state file, one after the other.  The chain grows meanwhile, any *)
(* call to the RPC endpoint may fail, and the process may die at any step.  *)
(*                                                                          *)
(* A signature is the position of its transaction in the chain.  A fill is  *)
(* named by its transaction and its mint: side, quantity and date follow    *)
(* from the two.  Every ONDO mint has one token account, named by the mint. *)
(***************************************************************************)
EXTENDS Integers, Sequences, FiniteSets

CONSTANTS
  Mints,      \* the ONDO mints of the wallet
  Wallet,     \* the wallet's own address
  MaxItems,   \* max_items, the longest history read from one address
  Transactions, \* what a transaction may do to the wallet: the mints it
              \* moves, whether USDC moves the other way, whether it names the
              \* wallet's own address (a transfer by somebody else names the
              \* token account alone), whether it failed
  MaxChain    \* bound: the transactions of a behaviour

ASSUME MaxItemsAssumption == MaxItems \in Nat \ {0}
ASSUME TransactionsAssumption ==
  Transactions \subseteq
    {t \in [moved : SUBSET Mints, paid : BOOLEAN, signed : BOOLEAN,
            failed : BOOLEAN] :
       /\ t.moved # {}
       /\ t.paid \/ t.failed => t.signed
       /\ ~(t.paid /\ t.failed)}
ASSUME WalletAssumption == Wallet \notin Mints
ASSUME MaxChainAssumption == MaxChain \in Nat

VARIABLES
  chain,      \* the finalized transactions, oldest first
  audit,      \* ondo_solana_audit.json
  book,       \* portfolio.json
  pc,         \* where refresh stands
  fills,      \* existing_fills
  known,      \* known_signatures
  unread,     \* the history_addresses still to be read
  signatures, \* the signatures collected
  complete,   \* history_complete
  since,      \* the length of the chain when the refresh began
  reported,   \* some audit ever written says history_complete = False
  raced       \* a swap, or the first transaction of a token account, was
              \* finalized while some refresh was reading

locals == <<fills, known, unread, signatures, complete, since>>
vars == <<chain, audit, book, pc, fills, known, unread, signatures, complete,
          since, reported, raced>>

------------------------------------------------------------------------------
(***************************************************************************)
(* The chain, as the client shows it.                                       *)
(***************************************************************************)
Touches(i, address) ==
  \/ address \in chain[i].moved
  \/ address = Wallet /\ chain[i].signed

\* The transaction succeeded and moved the mint.
Moves(i, m) == m \in chain[i].moved /\ ~chain[i].failed

\* The token accounts get_token_accounts lists: every one ever used.
Accounts == {m \in Mints : \E i \in DOMAIN chain : Moves(i, m)}

Fill == [tx : Nat, mint : Mints, form : {"full", "short"},
         status : {"confirmed", "pending"}]

\* Faulty variant: the status of a cost basis is written for that of a fill.
FillsOfBasisStatus(i) ==
  {[tx |-> i, mint |-> m, form |-> "full",
    status |-> IF chain[i].paid /\ chain[i].moved = {m}
                 THEN "on_chain_confirmed" ELSE "pending"] :
     m \in {x \in Mints : Moves(i, x)}}

\* new_fill: the fills a transaction is evidence of.  Cash is attributed only
\* when one ONDO mint moved, against USDC.
FillsOf(i) ==
  {[tx |-> i, mint |-> m, form |-> "full",
    status |-> IF chain[i].paid /\ chain[i].moved = {m}
                 THEN "confirmed" ELSE "pending"] :
     m \in {x \in Mints : Moves(i, x)}}

------------------------------------------------------------------------------
(***************************************************************************)
(* The ledger's rows.                                                       *)
(***************************************************************************)
\* _signature_key and, for a truncated signature and the canonical one it is
\* a prefix of, economic_key.
SameKey(f, g) == f.tx = g.tx /\ f.mint = g.mint /\ f.form = g.form
SameEconomics(f, g) == f.tx = g.tx /\ f.mint = g.mint /\ f.form # g.form

\* Faulty variant: a truncated signature matches no canonical one.
MatchBySignature(f, g) == SameKey(f, g)

Match(f, g) == SameKey(f, g) \/ SameEconomics(f, g)

\* _prefer_fill: the canonical signature wins, and so does a confirmed row.
Prefer(current, incoming) ==
  [current EXCEPT
     !.form = IF incoming.form = "full" THEN "full" ELSE @,
     !.status = IF incoming.status = "confirmed" THEN "confirmed" ELSE @]

\* upsert_fill, for every fill of a set in which no two rows match.
Upserted(rows, new) ==
  {f \in rows : \A g \in new : ~Match(f, g)}
    \cup {Prefer(p[1], p[2]) : p \in {q \in rows \X new : Match(q[1], q[2])}}
    \cup {g \in new : \A f \in rows : ~Match(f, g)}

KnownSignatures(rows) == {f.tx : f \in {g \in rows : g.form = "full"}}

\* _collect_signatures: newest first, back to a known signature or to the
\* limit.
Unknown(address) ==
  {i \in DOMAIN chain :
     /\ Touches(i, address)
     /\ \A j \in i .. Len(chain) : Touches(j, address) => j \notin known}
Truncated(address) == Cardinality(Unknown(address)) >= MaxItems
Collected(address) ==
  {i \in Unknown(address) :
     Cardinality({j \in Unknown(address) : j >= i}) <= MaxItems}

------------------------------------------------------------------------------
(***************************************************************************)
(* One refresh.                                                             *)
(***************************************************************************)
\* Rows of an audit from before canonical signatures were kept: a truncated
\* signature, the cash possibly not attributed.
LegacyRows(i) ==
  {f \in [tx : {i}, mint : {m \in Mints : Moves(i, m)}, form : {"short"},
          status : {"confirmed", "pending"}] :
     f.status = "confirmed" => chain[i].paid /\ chain[i].moved = {f.mint}}

\* The chain holds at most one transaction, and the audit has nothing of it
\* or a legacy row of one of its fills.
Init ==
  /\ chain \in {<<>>} \cup {<<t>> : t \in Transactions}
  /\ audit \in [fills : {{}} \cup {{f} : f \in UNION {LegacyRows(i) : i \in DOMAIN chain}},
                complete : {FALSE}, upto : {0}]
  /\ book = [fills |-> {}, complete |-> FALSE, upto |-> 0]
  /\ pc = "idle"
  /\ fills = {}
  /\ known = {}
  /\ unread = {}
  /\ signatures = {}
  /\ complete = TRUE
  /\ since = 0
  /\ reported = FALSE
  /\ raced = FALSE

\* A transaction is finalized.
Land ==
  /\ Len(chain) < MaxChain
  /\ \E t \in Transactions :
       /\ chain' = Append(chain, t)
       /\ raced' = \/ raced
                   \/ /\ pc \in {"inventory", "collect"}
                      /\ ~\E m \in Accounts : t.moved = {m}
  /\ UNCHANGED <<audit, book, pc, locals, reported>>

\* refresh is over, one way or another, and its variables with it.
Return ==
  /\ pc' = "idle"
  /\ fills' = {}
  /\ known' = {}
  /\ unread' = {}
  /\ signatures' = {}
  /\ complete' = TRUE
  /\ since' = 0

\* Faulty variant: the rows of the last audit are not taken over.
BeginAfresh ==
  /\ pc = "idle"
  /\ pc' = "inventory"
  /\ fills' = {}
  /\ known' = KnownSignatures(audit.fills)
  /\ since' = Len(chain)
  /\ UNCHANGED <<chain, audit, book, unread, signatures, complete, reported, raced>>

\* refresh: the two files are read.
Begin ==
  /\ pc = "idle"
  /\ pc' = "inventory"
  /\ fills' = audit.fills
  /\ known' = KnownSignatures(audit.fills)
  /\ since' = Len(chain)
  /\ UNCHANGED <<chain, audit, book, unread, signatures, complete, reported, raced>>

\* _discover_token_accounts: some endpoint lists token accounts, of
\* ONDO mints or of others.
Discover ==
  /\ pc = "inventory"
  /\ unread' = {Wallet} \cup Accounts
  /\ pc' = "collect"
  /\ UNCHANGED <<chain, audit, book, fills, known, signatures, complete, since,
                 reported, raced>>

\* Every endpoint failed or two of them listed no account: the refresh raises.
Refuse ==
  /\ pc = "inventory"
  /\ Return
  /\ UNCHANGED <<chain, audit, book, reported, raced>>

\* Faulty variant: the addresses come in the order of a set.
ReadableInAnyOrder(address) == address \in unread

\* The wallet is the first of history_addresses.
Readable(address) ==
  /\ address \in unread
  /\ Wallet \in unread => address = Wallet

\* The signatures of one address are read to the end.
CollectSignatures(address) ==
  /\ pc = "collect"
  /\ Readable(address)
  /\ signatures' = signatures \cup Collected(address)
  /\ complete' = (complete /\ ~Truncated(address))
  /\ unread' = unread \ {address}
  /\ UNCHANGED <<chain, audit, book, pc, fills, known, since, reported, raced>>

\* A page of them cannot be read: the address is passed over.
SignaturesFail(address) ==
  /\ pc = "collect"
  /\ Readable(address)
  /\ complete' = FALSE
  /\ unread' = unread \ {address}
  /\ UNCHANGED <<chain, audit, book, pc, fills, known, signatures, since,
                 reported, raced>>

\* get_transaction for every signature, some of them unavailable.
FetchTransactions ==
  /\ pc = "collect"
  /\ unread = {}
  /\ pc' = "audit"
  /\ \E lost \in SUBSET signatures :
       /\ fills' = Upserted(fills, UNION {FillsOf(i) : i \in signatures \ lost})
       /\ complete' = (complete /\ lost = {})
  /\ UNCHANGED <<chain, audit, book, known, unread, signatures, since, reported, raced>>

\* _atomic_write(audit_path, audit)
WriteAudit ==
  /\ pc = "audit"
  /\ pc' = "state"
  /\ audit' = [fills |-> fills, complete |-> complete, upto |-> since]
  /\ reported' = (reported \/ ~complete)
  /\ UNCHANGED <<chain, book, locals, raced>>

\* _atomic_write(state_path, state): the cost basis of every position, from
\* the fills, and ledger_history_complete.
WriteState ==
  /\ pc = "state"
  /\ Return
  /\ book' = [fills |-> fills, complete |-> complete, upto |-> since]
  /\ UNCHANGED <<chain, audit, reported, raced>>

\* The process dies, or an exception leaves refresh.
Die ==
  /\ pc # "idle"
  /\ Return
  /\ UNCHANGED <<chain, audit, book, reported, raced>>

Next ==
  \/ Land
  \/ Begin
  \/ Discover
  \/ Refuse
  \/ \E address \in Mints \cup {Wallet} : CollectSignatures(address)
  \/ \E address \in Mints \cup {Wallet} : SignaturesFail(address)
  \/ FetchTransactions
  \/ WriteAudit
  \/ WriteState
  \/ Die

Spec == Init /\ [][Next]_vars

------------------------------------------------------------------------------
(***************************************************************************)
(* Properties.                                                              *)
(***************************************************************************)
\* The types of the variables: positions of the chain, sets of fills.
TypeOK ==
  /\ chain \in Seq(Transactions)
  /\ audit \in [fills : SUBSET Fill, complete : BOOLEAN, upto : Nat]
  /\ book \in [fills : SUBSET Fill, complete : BOOLEAN, upto : Nat]
  /\ pc \in {"idle", "inventory", "collect", "audit", "state"}
  /\ fills \in SUBSET Fill
  /\ known \in SUBSET Nat
  /\ unread \in SUBSET (Mints \cup {Wallet})
  /\ signatures \in SUBSET Nat
  /\ complete \in BOOLEAN
  /\ since \in Nat
  /\ reported \in BOOLEAN
  /\ raced \in BOOLEAN

\* Every row of the audit is evidence of a transaction that succeeded and
\* moved its mint, and a confirmed row is of the only ONDO mint its
\* transaction moved, against USDC: errors and retries fabricate no fill.
NoFillIsInvented ==
  \A f \in audit.fills :
    /\ f.tx \in DOMAIN chain
    /\ f.mint \in chain[f.tx].moved
    /\ ~chain[f.tx].failed
    /\ f.status = "confirmed" =>
         chain[f.tx].paid /\ chain[f.tx].moved = {f.mint}

\* However often a transaction is read, through however many addresses, and
\* whatever legacy row it had, the audit has one row of each movement.
OneRowPerMovement ==
  \A f, g \in audit.fills : f.tx = g.tx /\ f.mint = g.mint => f = g

\* The audit's rows are movements of the chain, one row each.
RowsAreMovements == NoFillIsInvented /\ OneRowPerMovement

Held(rows, i, m) == \E f \in rows : f.tx = i /\ f.mint = m

Whole(file) ==
  \A i \in 1 .. file.upto, m \in Mints : Moves(i, m) => Held(file.fills, i, m)

\* The ledger lacks a fill that was on the chain when its last refresh began
\* only if some audit written so far said the history was incomplete, or if a
\* swap or a new account's first transaction landed while a refresh read: the
\* rule of reading back to the first known signature loses nothing else.
LossWasReported == reported \/ raced \/ Whole(audit)

\* A position's cost basis never rests on a fill the audit has no row of, and
\* the state file is never of a later refresh than the audit.
BookRestsOnAudit ==
  /\ \A f \in book.fills : Held(audit.fills, f.tx, f.mint)
  /\ book.upto <= audit.upto

\* What the two files say happened on the chain did, and the state file says
\* nothing the audit does not.
FilesAreOfMovements == RowsAreMovements /\ BookRestsOnAudit

\* A refresh loses no row, makes no confirmed row pending again, and never
\* puts a truncated signature back.
RowsAreKept ==
  [][\A f \in audit.fills :
       \E g \in audit'.fills :
         /\ g.tx = f.tx
         /\ g.mint = f.mint
         /\ f.status = "confirmed" => g.status = "confirmed"
         /\ f.form = "full" => g.form = "full"]_vars

\* docs/portfolio_ledger_refresh.md: the cost basis is marked incomplete
\* whenever signature or transaction history could not be read completely. So
\* a state file that says its history is complete rests on every fill the
\* chain held when its refresh began.
CompleteMeansWhole == book.complete => Whole(book)
==============================================================================
