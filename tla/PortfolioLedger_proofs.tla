------------------------ MODULE PortfolioLedger_proofs ------------------------
(***************************************************************************)
(* What the ledger holds after any number of refreshes, failed reads and    *)
(* deaths, for every set of mints and every chain.                          *)
(***************************************************************************)
EXTENDS PortfolioLedger, FiniteSetTheorems, TLAPS

Unique(rows) == \A f, g \in rows : f.tx = g.tx /\ f.mint = g.mint => f = g

\* A row is evidence of a movement of the chain.
Real(f) ==
  /\ f.tx \in 1 .. Len(chain)
  /\ Moves(f.tx, f.mint)
  /\ f.status = "confirmed" =>
       chain[f.tx].paid /\ chain[f.tx].moved = {f.mint}

Keeps(rows, later) ==
  \A f \in rows :
    \E g \in later :
      /\ g.tx = f.tx
      /\ g.mint = f.mint
      /\ f.status = "confirmed" => g.status = "confirmed"
      /\ f.form = "full" => g.form = "full"

\* The chain was this long when the audit, and the refresh under way, read it.
Positions ==
  /\ audit.upto <= Len(chain)
  /\ book.upto <= audit.upto
  /\ since <= Len(chain)
  /\ pc # "idle" => audit.upto <= since
  /\ signatures \subseteq 1 .. Len(chain)

\* What refresh holds between two of its steps.
Course ==
  /\ pc \in {"inventory", "collect"} =>
       fills = audit.fills /\ known = KnownSignatures(audit.fills)
  /\ pc \in {"idle", "inventory"} => signatures = {}
  /\ pc = "audit" => Keeps(audit.fills, fills)
  /\ pc = "state" =>
       audit = [fills |-> fills, complete |-> complete, upto |-> since]

RowsInv ==
  /\ \A f \in audit.fills : Real(f)
  /\ \A f \in fills : Real(f)
  /\ Unique(audit.fills)
  /\ Unique(fills)
  /\ \A f \in book.fills : Held(audit.fills, f.tx, f.mint)

Shape == TypeOK /\ Positions /\ Course /\ RowsInv

------------------------------------------------------------------------------
\* Behind a signature the ledger knows, of a mint, it has every older movement
\* of that mint: this is what makes it safe to stop there.
Closed(rows) ==
  \A m \in Mints :
    \A j \in KnownSignatures(rows) :
      \A i \in 1 .. j : Moves(j, m) /\ Moves(i, m) => Held(rows, i, m)

WholeTo(rows, n) ==
  \A i \in 1 .. n : \A m \in Mints : Moves(i, m) => Held(rows, i, m)

\* The token account was listed: it had been used when the refresh began.
Listed(m) == \E k \in 1 .. since : Moves(k, m)

\* What lands while the refresh reads moves one mint, of a listed account.
Quiet ==
  \A i \in (since + 1) .. Len(chain) :
    \E m \in Mints : chain[i].moved = {m} /\ Listed(m)

\* An account that has been read has given everything up to the start of the
\* refresh, and everything older than what was collected of its mint.
Read(m) ==
  \A i \in 1 .. Len(chain) :
    /\ Moves(i, m)
    /\ i <= since \/ \E j \in signatures : i <= j /\ Moves(j, m)
    => i \in signatures \/ Held(fills, i, m)

Reading ==
  /\ \A m \in Mints : Listed(m) /\ m \notin unread => Read(m)
  /\ Wallet \in unread =>
       /\ signatures = {}
       /\ \A m \in Mints : Listed(m) => m \in unread

LossInv ==
  ~reported /\ ~raced =>
    /\ Closed(audit.fills)
    /\ WholeTo(audit.fills, audit.upto)
    /\ pc \in {"inventory", "collect"} => Quiet
    /\ pc = "collect" /\ complete => Reading
    /\ pc \in {"audit", "state"} /\ complete =>
         Closed(fills) /\ WholeTo(fills, since)

LedgerInv == Shape /\ LossInv

------------------------------------------------------------------------------
\* Folding canonical rows into the ledger: rows match when they are of one
\* movement, none is lost, none but theirs comes in.
LEMMA MatchIsMovement ==
  ASSUME NEW f \in Fill, NEW g \in Fill
  PROVE  Match(f, g) <=> f.tx = g.tx /\ f.mint = g.mint
BY DEF Match, SameKey, SameEconomics, Fill

LEMMA PreferredRow ==
  ASSUME NEW f \in Fill, NEW g \in Fill, g.form = "full"
  PROVE  /\ Prefer(f, g) \in Fill
         /\ Prefer(f, g).tx = f.tx
         /\ Prefer(f, g).mint = f.mint
         /\ Prefer(f, g).form = "full"
         /\ f.status = "confirmed" => Prefer(f, g).status = "confirmed"
         /\ Prefer(f, g).status = "confirmed" =>
              f.status = "confirmed" \/ g.status = "confirmed"
BY DEF Prefer, Fill

LEMMA UpsertedRows ==
  ASSUME NEW rows \in SUBSET Fill, NEW new \in SUBSET Fill,
         \A g \in new : g.form = "full"
  PROVE  \A u \in Upserted(rows, new) :
           /\ u \in Fill
           /\ \/ u \in rows /\ \A g \in new : ~(u.tx = g.tx /\ u.mint = g.mint)
              \/ \E f \in rows, g \in new :
                   /\ f.tx = g.tx /\ f.mint = g.mint /\ u = Prefer(f, g)
              \/ u \in new /\ \A f \in rows : ~(f.tx = u.tx /\ f.mint = u.mint)
<1> SUFFICES ASSUME NEW u \in Upserted(rows, new)
             PROVE  /\ u \in Fill
                    /\ \/ /\ u \in rows
                          /\ \A g \in new : ~(u.tx = g.tx /\ u.mint = g.mint)
                       \/ \E f \in rows, g \in new :
                            /\ f.tx = g.tx /\ f.mint = g.mint
                            /\ u = Prefer(f, g)
                       \/ /\ u \in new
                          /\ \A f \in rows : ~(f.tx = u.tx /\ f.mint = u.mint)
  OBVIOUS
<1>1. CASE u \in {f \in rows : \A g \in new : ~Match(f, g)}
  BY <1>1, MatchIsMovement
<1>2. CASE u \in {Prefer(p[1], p[2]) :
                   p \in {q \in rows \X new : Match(q[1], q[2])}}
  <2>1. PICK p \in rows \X new : Match(p[1], p[2]) /\ u = Prefer(p[1], p[2])
    BY <1>2
  <2>2. p[1] \in rows /\ p[2] \in new
    OBVIOUS
  <2>3. p[1] \in Fill /\ p[2] \in Fill
    BY <2>2
  <2>4. p[1].tx = p[2].tx /\ p[1].mint = p[2].mint
    BY <2>1, <2>3, MatchIsMovement
  <2>5. u \in Fill
    BY <2>1, <2>2, <2>3, PreferredRow
  <2> QED
    BY <2>1, <2>2, <2>4, <2>5
<1>3. CASE u \in {g \in new : \A f \in rows : ~Match(f, g)}
  BY <1>3, MatchIsMovement
<1> QED
  BY <1>1, <1>2, <1>3 DEF Upserted

LEMMA UpsertKeeps ==
  ASSUME NEW rows \in SUBSET Fill, NEW new \in SUBSET Fill,
         \A g \in new : g.form = "full"
  PROVE  /\ Keeps(rows, Upserted(rows, new))
         /\ \A g \in new : Held(Upserted(rows, new), g.tx, g.mint)
<1>1. ASSUME NEW f \in rows, NEW g \in new, f.tx = g.tx, f.mint = g.mint
      PROVE  Prefer(f, g) \in Upserted(rows, new)
  <2>1. Match(f, g)
    BY <1>1, MatchIsMovement
  <2>2. <<f, g>> \in {q \in rows \X new : Match(q[1], q[2])}
    BY <2>1
  <2>3. Prefer(f, g) \in {Prefer(p[1], p[2]) :
                          p \in {q \in rows \X new : Match(q[1], q[2])}}
    BY <2>2
  <2> QED
    BY <2>3 DEF Upserted
<1>2. ASSUME NEW f \in rows, \A g \in new : ~(f.tx = g.tx /\ f.mint = g.mint)
      PROVE  f \in Upserted(rows, new)
  BY <1>2, MatchIsMovement DEF Upserted
<1>3. ASSUME NEW g \in new, \A f \in rows : ~(f.tx = g.tx /\ f.mint = g.mint)
      PROVE  g \in Upserted(rows, new)
  BY <1>3, MatchIsMovement DEF Upserted
<1>4. Keeps(rows, Upserted(rows, new))
  <2> SUFFICES ASSUME NEW f \in rows
               PROVE  \E g \in Upserted(rows, new) :
                        /\ g.tx = f.tx
                        /\ g.mint = f.mint
                        /\ f.status = "confirmed" => g.status = "confirmed"
                        /\ f.form = "full" => g.form = "full"
    BY DEF Keeps
  <2>1. CASE \A g \in new : ~(f.tx = g.tx /\ f.mint = g.mint)
    BY <2>1, <1>2
  <2>2. ASSUME NEW g \in new, f.tx = g.tx, f.mint = g.mint
        PROVE  \E h \in Upserted(rows, new) :
                 /\ h.tx = f.tx
                 /\ h.mint = f.mint
                 /\ f.status = "confirmed" => h.status = "confirmed"
                 /\ f.form = "full" => h.form = "full"
    <3>1. Prefer(f, g) \in Upserted(rows, new)
      BY <1>1, <2>2
    <3> QED
      BY <3>1, <2>2, PreferredRow
  <2> QED
    BY <2>1, <2>2
<1>5. ASSUME NEW g \in new PROVE Held(Upserted(rows, new), g.tx, g.mint)
  <2>1. CASE \A f \in rows : ~(f.tx = g.tx /\ f.mint = g.mint)
    BY <2>1, <1>3 DEF Held
  <2>2. ASSUME NEW f \in rows, f.tx = g.tx, f.mint = g.mint
        PROVE  Held(Upserted(rows, new), g.tx, g.mint)
    <3>1. Prefer(f, g) \in Upserted(rows, new)
      BY <1>1, <2>2
    <3> QED
      BY <3>1, <2>2, PreferredRow DEF Held
  <2> QED
    BY <2>1, <2>2
<1> QED
  BY <1>4, <1>5

LEMMA UpsertUnique ==
  ASSUME NEW rows \in SUBSET Fill, NEW new \in SUBSET Fill,
         \A g \in new : g.form = "full",
         Unique(rows), Unique(new)
  PROVE  Unique(Upserted(rows, new))
<1> SUFFICES ASSUME NEW u \in Upserted(rows, new),
                    NEW v \in Upserted(rows, new),
                    u.tx = v.tx, u.mint = v.mint
             PROVE  u = v
  BY DEF Unique
<1> DEFINE Old(w) == w \in rows /\ \A g \in new : ~(w.tx = g.tx /\ w.mint = g.mint)
           Both(w) == \E f \in rows, g \in new :
                        f.tx = g.tx /\ f.mint = g.mint /\ w = Prefer(f, g)
           Only(w) == w \in new /\ \A f \in rows : ~(f.tx = w.tx /\ f.mint = w.mint)
<1>1. (Old(u) \/ Both(u) \/ Only(u)) /\ (Old(v) \/ Both(v) \/ Only(v))
  BY UpsertedRows
<1>2. ASSUME NEW w, Both(w)
      PROVE  \E f \in rows, g \in new :
               /\ f.tx = w.tx /\ f.mint = w.mint
               /\ g.tx = w.tx /\ g.mint = w.mint
               /\ w = Prefer(f, g)
  BY <1>2, PreferredRow
<1>3. CASE Both(u)
  <2>1. PICK f \in rows, g \in new : /\ f.tx = u.tx /\ f.mint = u.mint
                                    /\ g.tx = u.tx /\ g.mint = u.mint
                                    /\ u = Prefer(f, g)
    BY <1>2, <1>3
  <2>2. ~Old(v) /\ ~Only(v)
    BY <2>1
  <2>3. PICK h \in rows, k \in new : /\ h.tx = v.tx /\ h.mint = v.mint
                                    /\ k.tx = v.tx /\ k.mint = v.mint
                                    /\ v = Prefer(h, k)
    BY <1>1, <1>2, <2>2
  <2>4. f = h /\ g = k
    BY <2>1, <2>3 DEF Unique
  <2> QED
    BY <2>1, <2>3, <2>4
<1>4. CASE Old(u)
  <2>1. ~Both(v)
    BY <1>2, <1>4
  <2>2. ~Only(v)
    BY <1>4
  <2> QED
    BY <1>1, <1>4, <2>1, <2>2 DEF Unique
<1>5. CASE Only(u)
  <2>1. ~Both(v)
    BY <1>2, <1>5
  <2>2. ~Old(v)
    BY <1>5
  <2> QED
    BY <1>1, <1>5, <2>1, <2>2 DEF Unique
<1> QED
  BY <1>1, <1>3, <1>4, <1>5

\* The fills of fetched transactions.
LEMMA FetchedRows ==
  ASSUME NEW S \in SUBSET (1 .. Len(chain)), TypeOK,
         NEW new, new = UNION {FillsOf(i) : i \in S}
  PROVE  /\ new \in SUBSET Fill
         /\ \A g \in new : g.form = "full" /\ Real(g) /\ g.tx \in S
         /\ Unique(new)
         /\ \A i \in S, m \in Mints : Moves(i, m) => Held(new, i, m)
<1>1. ASSUME NEW i \in S, NEW g \in FillsOf(i)
      PROVE  /\ g \in Fill
             /\ g.form = "full"
             /\ Real(g)
             /\ g.tx = i
             /\ g.status = IF chain[i].paid /\ chain[i].moved = {g.mint}
                             THEN "confirmed" ELSE "pending"
  <2>1. PICK m \in {x \in Mints : Moves(i, x)} :
          g = [tx |-> i, mint |-> m, form |-> "full",
               status |-> IF chain[i].paid /\ chain[i].moved = {m}
                            THEN "confirmed" ELSE "pending"]
    BY DEF FillsOf
  <2>2. i \in 1 .. Len(chain) /\ i \in Nat
    BY DEF TypeOK
  <2> QED
    BY <2>1, <2>2 DEF Fill, Real
<1>2. ASSUME NEW g \in new PROVE \E i \in S : g \in FillsOf(i)
  BY <1>2
<1>3. new \in SUBSET Fill
  BY <1>1, <1>2
<1>4. \A g \in new : g.form = "full" /\ Real(g) /\ g.tx \in S
  BY <1>1, <1>2
<1>5. Unique(new)
  <2> SUFFICES ASSUME NEW f \in new, NEW g \in new, f.tx = g.tx, f.mint = g.mint
               PROVE  f = g
    BY DEF Unique
  <2>1. PICK i \in S : f \in FillsOf(i)
    BY <1>2
  <2>2. PICK j \in S : g \in FillsOf(j)
    BY <1>2
  <2>3. f.status = g.status /\ f.form = g.form
    BY <1>1, <2>1, <2>2
  <2>4. f \in Fill /\ g \in Fill
    BY <1>3
  <2> QED
    BY <2>3, <2>4 DEF Fill
<1>6. ASSUME NEW i \in S, NEW m \in Mints, Moves(i, m)
      PROVE  Held(new, i, m)
  <2> DEFINE g == [tx |-> i, mint |-> m, form |-> "full",
                   status |-> IF chain[i].paid /\ chain[i].moved = {m}
                                THEN "confirmed" ELSE "pending"]
  <2>1. g \in FillsOf(i)
    BY <1>6 DEF FillsOf
  <2>2. g \in new
    BY <2>1
  <2>3. g.tx = i /\ g.mint = m
    OBVIOUS
  <2> QED
    BY <2>2, <2>3 DEF Held
<1> QED
  BY <1>3, <1>4, <1>5, <1>6

\* A longer chain keeps what it had.
LEMMA ChainGrows ==
  ASSUME TypeOK, NEW t \in Transactions, chain' = Append(chain, t)
  PROVE  /\ chain' \in Seq(Transactions)
         /\ Len(chain) \in Nat
         /\ Len(chain') = Len(chain) + 1
         /\ chain'[Len(chain) + 1] = t
         /\ \A i \in 1 .. Len(chain) : chain'[i] = chain[i]
BY DEF TypeOK

LEMMA InitLedger ==
  ASSUME Init
  PROVE  LedgerInv
<1>1. chain \in Seq(Transactions) /\ Len(chain) \in Nat /\ DOMAIN chain = 1 .. Len(chain)
  <2>1. CASE chain = <<>>
    BY <2>1
  <2>2. ASSUME NEW t \in Transactions, chain = <<t>>
        PROVE  chain \in Seq(Transactions)
    BY <2>2
  <2>3. chain \in Seq(Transactions)
    BY <2>1, <2>2 DEF Init
  <2> QED
    BY <2>3
<1>2. ASSUME NEW f \in audit.fills
      PROVE  /\ f \in Fill
             /\ Real(f)
             /\ f.form = "short"
  <2>1. PICK i \in DOMAIN chain : f \in LegacyRows(i)
    BY <1>2 DEF Init
  <2>2. /\ f \in [tx : {i}, mint : {m \in Mints : Moves(i, m)}, form : {"short"},
                  status : {"confirmed", "pending"}]
        /\ f.status = "confirmed" => chain[i].paid /\ chain[i].moved = {f.mint}
    BY <2>1 DEF LegacyRows
  <2>3. i \in 1 .. Len(chain) /\ i \in Nat
    BY <1>1
  <2> QED
    BY <2>2, <2>3 DEF Fill, Real
<1>3. Unique(audit.fills)
  <2>1. \A f, g \in audit.fills : f = g
    BY DEF Init
  <2> QED
    BY <2>1 DEF Unique
<1>4. /\ audit.fills \in SUBSET Fill
      /\ audit.complete = FALSE
      /\ audit.upto = 0
      /\ audit \in [fills : SUBSET Fill, complete : BOOLEAN, upto : Nat]
  <2>1. audit.complete = FALSE /\ audit.upto = 0
    BY DEF Init
  <2>2. audit = [fills |-> audit.fills, complete |-> audit.complete, upto |-> audit.upto]
    BY DEF Init
  <2>3. audit.fills \in SUBSET Fill
    BY <1>2
  <2>4. [fills |-> audit.fills, complete |-> audit.complete, upto |-> audit.upto]
          \in [fills : SUBSET Fill, complete : BOOLEAN, upto : Nat]
    <3>1. audit.complete \in BOOLEAN
      BY <2>1
    <3>2. audit.upto \in Nat
      BY <2>1
    <3> QED
      BY <2>3, <3>1, <3>2
  <2>5. audit \in [fills : SUBSET Fill, complete : BOOLEAN, upto : Nat]
    BY <2>2, <2>4
  <2> QED
    BY <2>1, <2>3, <2>5
<1>5. book \in [fills : SUBSET Fill, complete : BOOLEAN, upto : Nat]
  BY DEF Init
<1>6. TypeOK
  BY <1>1, <1>4, <1>5 DEF Init, TypeOK
<1>7. Positions /\ Course
  BY <1>1, <1>4 DEF Init, Positions, Course
<1>8. RowsInv
  BY <1>2, <1>3 DEF Init, RowsInv, Unique
<1>9. Closed(audit.fills) /\ WholeTo(audit.fills, audit.upto)
  <2>1. KnownSignatures(audit.fills) = {}
    BY <1>2 DEF KnownSignatures
  <2> QED
    BY <1>4, <2>1 DEF Closed, WholeTo
<1> QED
  BY <1>6, <1>7, <1>8, <1>9 DEF LedgerInv, Shape, LossInv, Init

------------------------------------------------------------------------------
\* Each action keeps the types, the rows and the course of a refresh.
LEMMA LandShape ==
  ASSUME Shape, Land
  PROVE  Shape'
<1>1. PICK t \in Transactions : chain' = Append(chain, t)
  BY DEF Land
<1>2. UNCHANGED <<audit, book, pc, fills, known, unread, signatures, complete,
                  since, reported>>
  BY DEF Land, locals
<1>3. TypeOK /\ Positions /\ Course /\ RowsInv
  BY DEF Shape
<1>4. /\ chain' \in Seq(Transactions)
      /\ Len(chain) \in Nat
      /\ Len(chain') = Len(chain) + 1
      /\ \A i \in 1 .. Len(chain) : chain'[i] = chain[i]
  BY <1>1, <1>3, ChainGrows
<1>5. raced' \in BOOLEAN
  BY <1>3 DEF Land, TypeOK
<1>6. TypeOK'
  BY <1>2, <1>3, <1>4, <1>5 DEF TypeOK
<1>7. Positions'
  <2>1. /\ audit.upto \in Nat /\ book.upto \in Nat /\ since \in Nat
        /\ 1 .. Len(chain) \subseteq 1 .. Len(chain')
    BY <1>3, <1>4 DEF TypeOK
  <2> QED
    BY <1>2, <1>3, <1>4, <2>1 DEF Positions
<1>8. Course'
  BY <1>2, <1>3 DEF Course
<1>9. ASSUME NEW f, Real(f) PROVE Real(f)'
  <2>1. f.tx \in 1 .. Len(chain) /\ chain'[f.tx] = chain[f.tx]
    BY <1>4, <1>9 DEF Real
  <2>2. f.tx \in 1 .. Len(chain')
    BY <1>4, <2>1
  <2> QED
    BY <1>9, <2>1, <2>2 DEF Real, Moves
<1>10. RowsInv'
  BY <1>2, <1>3, <1>9 DEF RowsInv, Unique, Held
<1> QED
  BY <1>6, <1>7, <1>8, <1>10 DEF Shape

LEMMA BeginShape ==
  ASSUME Shape, Begin
  PROVE  Shape'
<1>1. TypeOK /\ Positions /\ Course /\ RowsInv
  BY DEF Shape
<1>2. Len(chain) \in Nat
  BY <1>1 DEF TypeOK
<1>3. KnownSignatures(audit.fills) \in SUBSET Nat
  BY <1>1 DEF TypeOK, KnownSignatures, Fill
<1>4. TypeOK'
  BY <1>1, <1>2, <1>3 DEF TypeOK, Begin
<1>5. Positions'
  BY <1>1, <1>2 DEF Positions, Begin
<1>6. Course'
  <2>1. signatures = {}
    BY <1>1 DEF Course, Begin
  <2> QED
    BY <1>1, <2>1 DEF Course, Begin, KnownSignatures
<1>7. RowsInv'
  BY <1>1 DEF RowsInv, Begin, Real, Moves, Unique, Held
<1> QED
  BY <1>4, <1>5, <1>6, <1>7 DEF Shape

LEMMA DiscoverShape ==
  ASSUME Shape, Discover
  PROVE  Shape'
<1>1. TypeOK /\ Positions /\ Course /\ RowsInv
  BY DEF Shape
<1>2. TypeOK'
  BY <1>1 DEF TypeOK, Discover, Accounts
<1>3. Positions' /\ Course'
  BY <1>1 DEF Positions, Course, Discover, KnownSignatures
<1>4. RowsInv'
  BY <1>1 DEF RowsInv, Discover, Real, Moves, Unique, Held
<1> QED
  BY <1>2, <1>3, <1>4 DEF Shape

LEMMA ReturnShape ==
  ASSUME Shape, Return, UNCHANGED <<chain, audit>>, reported' \in BOOLEAN,
         raced' \in BOOLEAN,
         \/ UNCHANGED book
         \/ book' = audit
  PROVE  Shape'
<1>1. TypeOK /\ Positions /\ Course /\ RowsInv
  BY DEF Shape
<1>2. TypeOK'
  BY <1>1 DEF TypeOK, Return
<1>3. Positions'
  BY <1>1 DEF TypeOK, Positions, Return
<1>4. Course'
  BY DEF Course, Return
<1>5. RowsInv'
  BY <1>1 DEF RowsInv, Return, Real, Moves, Unique, Held
<1> QED
  BY <1>2, <1>3, <1>4, <1>5 DEF Shape

LEMMA CollectShape ==
  ASSUME Shape, NEW address \in Mints \cup {Wallet},
         CollectSignatures(address) \/ SignaturesFail(address)
  PROVE  Shape'
<1>1. TypeOK /\ Positions /\ Course /\ RowsInv
  BY DEF Shape
<1>2. /\ UNCHANGED <<chain, audit, book, pc, fills, known, since, reported, raced>>
      /\ unread' = unread \ {address}
      /\ pc = "collect"
  BY DEF CollectSignatures, SignaturesFail
<1>3. complete' \in BOOLEAN
  BY <1>1 DEF TypeOK, CollectSignatures, SignaturesFail, Truncated
<1>4. signatures' \subseteq 1 .. Len(chain)
  <2>1. Collected(address) \subseteq DOMAIN chain
    BY DEF Collected, Unknown
  <2>2. DOMAIN chain = 1 .. Len(chain)
    BY <1>1 DEF TypeOK
  <2> QED
    BY <1>1, <2>1, <2>2 DEF Positions, CollectSignatures, SignaturesFail
<1>5. TypeOK'
  <2>1. 1 .. Len(chain) \subseteq Nat
    BY <1>1 DEF TypeOK
  <2>2. signatures' \in SUBSET Nat
    BY <1>4, <2>1
  <2> QED
    BY <1>1, <1>2, <1>3, <2>2 DEF TypeOK
<1>6. Positions'
  BY <1>1, <1>2, <1>4 DEF Positions
<1>7. Course'
  BY <1>1, <1>2 DEF Course, KnownSignatures
<1>8. RowsInv'
  BY <1>1, <1>2 DEF RowsInv, Real, Moves, Unique, Held
<1> QED
  BY <1>5, <1>6, <1>7, <1>8 DEF Shape

LEMMA FetchShape ==
  ASSUME Shape, FetchTransactions
  PROVE  Shape'
<1>1. TypeOK /\ Positions /\ Course /\ RowsInv
  BY DEF Shape
<1>2. PICK lost \in SUBSET signatures :
        /\ fills' = Upserted(fills, UNION {FillsOf(i) : i \in signatures \ lost})
        /\ complete' = (complete /\ lost = {})
  BY DEF FetchTransactions
<1> DEFINE S == signatures \ lost
           new == UNION {FillsOf(i) : i \in S}
<1>3. S \in SUBSET (1 .. Len(chain))
  BY <1>1 DEF Positions
<1>4. /\ new \in SUBSET Fill
      /\ \A g \in new : g.form = "full" /\ Real(g)
      /\ Unique(new)
  <2> HIDE DEF S
  <2> QED
    BY <1>1, <1>3, FetchedRows
<1>5. fills \in SUBSET Fill /\ fills = audit.fills
  BY <1>1 DEF TypeOK, Course, FetchTransactions
<1>6. fills' = Upserted(fills, new)
  BY <1>2
<1> HIDE DEF new
<1>7. \A u \in fills' :
        /\ u \in Fill
        /\ \/ u \in fills
           \/ \E f \in fills, g \in new :
                f.tx = g.tx /\ f.mint = g.mint /\ u = Prefer(f, g)
           \/ u \in new
  BY <1>4, <1>5, <1>6, UpsertedRows
<1>8. UNCHANGED <<chain, audit, book, known, unread, signatures, since, reported,
                  raced>> /\ pc' = "audit"
  BY DEF FetchTransactions
<1>9. TypeOK'
  <2>1. complete' \in BOOLEAN
    BY <1>1, <1>2 DEF TypeOK
  <2>2. fills' \in SUBSET Fill
    BY <1>7
  <2> QED
    BY <1>1, <1>8, <2>1, <2>2 DEF TypeOK
<1>10. Positions'
  BY <1>1, <1>8 DEF Positions, FetchTransactions
<1>11. Course'
  <2>1. Keeps(fills, fills')
    BY <1>4, <1>5, <1>6, UpsertKeeps
  <2> QED
    BY <1>5, <1>8, <2>1 DEF Course, Keeps
<1>12. ASSUME NEW u \in fills' PROVE Real(u)
  <2>1. CASE u \in fills \/ u \in new
    BY <1>1, <1>4, <2>1 DEF RowsInv
  <2>2. ASSUME NEW f \in fills, NEW g \in new, f.tx = g.tx, f.mint = g.mint,
               u = Prefer(f, g)
        PROVE  Real(u)
    <3>1. f \in Fill /\ g \in Fill /\ Real(f) /\ Real(g) /\ g.form = "full"
      BY <1>1, <1>4, <1>5 DEF RowsInv
    <3>2. u.tx = f.tx /\ u.mint = f.mint
      BY <2>2, <3>1, PreferredRow
    <3>3. u.status = "confirmed" => f.status = "confirmed" \/ g.status = "confirmed"
      BY <2>2, <3>1, PreferredRow
    <3> QED
      BY <2>2, <3>1, <3>2, <3>3 DEF Real
  <2> QED
    BY <1>7, <2>1, <2>2
<1>13. Unique(fills')
  BY <1>1, <1>4, <1>5, <1>6, UpsertUnique DEF RowsInv
<1>14. RowsInv'
  <2>1. \A f \in fills' : Real(f)'
    BY <1>8, <1>12 DEF Real, Moves
  <2>2. \A f \in audit.fills : Real(f)'
    BY <1>1, <1>8 DEF RowsInv, Real, Moves
  <2> QED
    BY <1>1, <1>8, <1>13, <2>1, <2>2 DEF RowsInv, Unique, Held
<1> QED
  BY <1>9, <1>10, <1>11, <1>14 DEF Shape

LEMMA WriteAuditShape ==
  ASSUME Shape, WriteAudit
  PROVE  Shape'
<1>1. TypeOK /\ Positions /\ Course /\ RowsInv
  BY DEF Shape
<1>2. UNCHANGED <<chain, book, fills, known, unread, signatures, complete, since, raced>>
  BY DEF WriteAudit, locals
<1>3. /\ pc = "audit" /\ pc' = "state"
      /\ audit' = [fills |-> fills, complete |-> complete, upto |-> since]
      /\ audit'.fills = fills /\ audit'.upto = since
  BY DEF WriteAudit
<1>4. TypeOK'
  <2>1. audit' \in [fills : SUBSET Fill, complete : BOOLEAN, upto : Nat]
    BY <1>1, <1>3 DEF TypeOK
  <2>2. reported' \in BOOLEAN
    BY <1>1 DEF TypeOK, WriteAudit
  <2> QED
    BY <1>1, <1>2, <1>3, <2>1, <2>2 DEF TypeOK
<1>5. Positions'
  BY <1>1, <1>2, <1>3 DEF TypeOK, Positions
<1>6. Course'
  BY <1>2, <1>3 DEF Course
<1>7. RowsInv'
  <2>1. Keeps(audit.fills, fills)
    BY <1>1, <1>3 DEF Course
  <2>2. \A f \in book.fills : Held(fills, f.tx, f.mint)
    BY <1>1, <2>1 DEF RowsInv, Held, Keeps
  <2>3. \A f \in fills : Real(f)'
    BY <1>1, <1>2 DEF RowsInv, Real, Moves
  <2> QED
    BY <1>1, <1>2, <1>3, <2>2, <2>3 DEF RowsInv, Unique, Held
<1> QED
  BY <1>4, <1>5, <1>6, <1>7 DEF Shape

LEMMA StepShape ==
  ASSUME Shape, [Next]_vars
  PROVE  Shape'
<1>1. CASE Land
  BY <1>1, LandShape
<1>2. CASE Begin
  BY <1>2, BeginShape
<1>3. CASE Discover
  BY <1>3, DiscoverShape
<1>4. CASE Refuse \/ Die
  <2>1. reported' \in BOOLEAN /\ raced' \in BOOLEAN
    BY <1>4 DEF Refuse, Die, Shape, TypeOK
  <2> QED
    BY <1>4, <2>1, ReturnShape DEF Refuse, Die
<1>5. ASSUME NEW address \in Mints \cup {Wallet},
             CollectSignatures(address) \/ SignaturesFail(address)
      PROVE  Shape'
  BY <1>5, CollectShape
<1>6. CASE FetchTransactions
  BY <1>6, FetchShape
<1>7. CASE WriteAudit
  BY <1>7, WriteAuditShape
<1>8. CASE WriteState
  <2>1. reported' \in BOOLEAN /\ raced' \in BOOLEAN /\ book' = audit
    BY <1>8 DEF WriteState, Shape, TypeOK, Course
  <2> QED
    BY <1>8, <2>1, ReturnShape DEF WriteState
<1>9. CASE UNCHANGED vars
  BY <1>9 DEF vars, Shape, TypeOK, Positions, Course, RowsInv, Real, Moves,
              Unique, Held, Keeps, KnownSignatures
<1> QED
  BY <1>1, <1>2, <1>3, <1>4, <1>5, <1>6, <1>7, <1>8, <1>9 DEF Next

------------------------------------------------------------------------------
\* Reading back to the first known signature leaves no movement behind.
LEMMA UnknownCovers ==
  ASSUME Shape, NEW m \in Mints, NEW i \in 1 .. Len(chain), Moves(i, m),
         Closed(fills), known = KnownSignatures(fills),
         i \notin Unknown(m)
  PROVE  Held(fills, i, m)
<1>1. DOMAIN chain = 1 .. Len(chain) /\ Len(chain) \in Nat
  BY DEF Shape, TypeOK
<1>2. Touches(i, m)
  BY DEF Touches, Moves
<1>3. PICK j \in i .. Len(chain) : Touches(j, m) /\ j \in known
  BY <1>1, <1>2 DEF Unknown
<1>4. PICK f \in fills : f.tx = j
  BY <1>3 DEF KnownSignatures
<1>5. ~chain[j].failed
  BY <1>4 DEF Shape, RowsInv, Real, Moves
<1>6. m # Wallet
  BY WalletAssumption
<1>7. Moves(j, m)
  BY <1>3, <1>5, <1>6 DEF Moves, Touches
<1>8. i \in 1 .. j
  BY <1>1, <1>3
<1> QED
  BY <1>3, <1>7, <1>8 DEF Closed

LEMMA NothingCut ==
  ASSUME Shape, NEW address, ~Truncated(address)
  PROVE  Collected(address) = Unknown(address)
<1>1. DOMAIN chain = 1 .. Len(chain) /\ Len(chain) \in Nat
  BY DEF Shape, TypeOK
<1>2. IsFiniteSet(Unknown(address)) /\ Cardinality(Unknown(address)) \in Nat
  <2>1. IsFiniteSet(1 .. Len(chain))
    BY <1>1, FS_Interval
  <2>2. Unknown(address) \subseteq 1 .. Len(chain)
    BY <1>1 DEF Unknown
  <2> QED
    BY <2>1, <2>2, FS_Subset, FS_CardinalityType
<1>3. ASSUME NEW i \in Unknown(address)
      PROVE  Cardinality({j \in Unknown(address) : j >= i}) <= MaxItems
  <2> DEFINE Newer == {j \in Unknown(address) : j >= i}
  <2>1. Newer \subseteq Unknown(address)
    OBVIOUS
  <2>2. /\ Cardinality(Newer) <= Cardinality(Unknown(address))
        /\ Cardinality(Newer) \in Nat
    BY <1>2, <2>1, FS_Subset, FS_CardinalityType
  <2>3. Cardinality(Unknown(address)) < MaxItems
    BY <1>2, MaxItemsAssumption DEF Truncated
  <2> QED
    BY <1>2, <2>2, <2>3, MaxItemsAssumption
<1> QED
  BY <1>3 DEF Collected

LEMMA LandLoss ==
  ASSUME LedgerInv, Land
  PROVE  LossInv'
<1> SUFFICES ASSUME ~reported', ~raced'
             PROVE  /\ Closed(audit.fills)'
                    /\ WholeTo(audit.fills, audit.upto)'
                    /\ (pc \in {"inventory", "collect"} => Quiet)'
                    /\ (pc = "collect" /\ complete => Reading)'
                    /\ (pc \in {"audit", "state"} /\ complete =>
                          Closed(fills) /\ WholeTo(fills, since))'
  BY DEF LossInv
<1>1. PICK t \in Transactions :
        /\ chain' = Append(chain, t)
        /\ raced' = \/ raced
                    \/ /\ pc \in {"inventory", "collect"}
                       /\ ~\E m \in Accounts : t.moved = {m}
  BY DEF Land
<1>2. UNCHANGED <<audit, book, pc, fills, known, unread, signatures, complete,
                  since, reported>>
  BY DEF Land, locals
<1>3. /\ Closed(audit.fills)
      /\ WholeTo(audit.fills, audit.upto)
      /\ pc \in {"inventory", "collect"} => Quiet
      /\ pc = "collect" /\ complete => Reading
      /\ pc \in {"audit", "state"} /\ complete =>
           Closed(fills) /\ WholeTo(fills, since)
  BY <1>1, <1>2 DEF LedgerInv, LossInv
<1>4. Shape /\ TypeOK /\ Positions /\ RowsInv
  BY DEF LedgerInv, Shape
<1>5. /\ Len(chain) \in Nat
      /\ Len(chain') = Len(chain) + 1
      /\ chain'[Len(chain) + 1] = t
      /\ \A i \in 1 .. Len(chain) : chain'[i] = chain[i]
      /\ since \in Nat /\ audit.upto \in Nat
      /\ since <= Len(chain) /\ audit.upto <= Len(chain)
      /\ signatures \subseteq 1 .. Len(chain)
      /\ DOMAIN chain = 1 .. Len(chain)
  BY <1>1, <1>4, ChainGrows DEF TypeOK, Positions
<1>6. \A i \in 1 .. Len(chain) : \A m : Moves(i, m)' <=> Moves(i, m)
  BY <1>5 DEF Moves
<1>7. ASSUME NEW rows, \A f \in rows : Real(f), Closed(rows)
      PROVE  \A m \in Mints :
               \A j \in KnownSignatures(rows) :
                 \A i \in 1 .. j : Moves(j, m)' /\ Moves(i, m)' => Held(rows, i, m)
  <2> SUFFICES ASSUME NEW m \in Mints, NEW j \in KnownSignatures(rows),
                      NEW i \in 1 .. j, Moves(j, m)', Moves(i, m)'
               PROVE  Held(rows, i, m)
    OBVIOUS
  <2>1. j \in 1 .. Len(chain)
    BY <1>7 DEF KnownSignatures, Real
  <2>2. i \in 1 .. Len(chain)
    BY <1>5, <2>1
  <2>3. Moves(j, m) /\ Moves(i, m)
    BY <1>6, <2>1, <2>2
  <2> QED
    BY <1>7, <2>3 DEF Closed
<1>8. ASSUME NEW rows, NEW n \in Nat, n <= Len(chain), WholeTo(rows, n)
      PROVE  \A i \in 1 .. n : \A m \in Mints : Moves(i, m)' => Held(rows, i, m)
  <2>1. \A i \in 1 .. n : i \in 1 .. Len(chain)
    BY <1>5, <1>8
  <2> QED
    BY <1>6, <1>8, <2>1 DEF WholeTo
<1>9. Closed(audit.fills)'
  <2>1. \A f \in audit.fills : Real(f)
    BY <1>4 DEF RowsInv
  <2> QED
    BY <1>2, <1>3, <1>7, <2>1 DEF Closed, KnownSignatures, Held
<1>10. WholeTo(audit.fills, audit.upto)'
  BY <1>2, <1>3, <1>5, <1>8 DEF WholeTo, Held
<1>11. \A m : Listed(m)' <=> Listed(m)
  <2>1. \A k \in 1 .. since : k \in 1 .. Len(chain)
    BY <1>5
  <2> QED
    BY <1>2, <1>6, <2>1 DEF Listed
<1>12. ASSUME pc \in {"inventory", "collect"} PROVE Quiet'
  <2> SUFFICES ASSUME NEW i \in (since + 1) .. Len(chain')
               PROVE  \E m \in Mints : chain'[i].moved = {m} /\ Listed(m)
    BY <1>2, <1>11 DEF Quiet
  <2>1. CASE i \in 1 .. Len(chain)
    <3>1. PICK m \in Mints : chain[i].moved = {m} /\ Listed(m)
      BY <1>3, <1>5, <1>12, <2>1 DEF Quiet
    <3> QED
      BY <1>5, <2>1, <3>1
  <2>2. CASE i = Len(chain) + 1
    <3>1. PICK m \in Accounts : t.moved = {m}
      BY <1>1, <1>12
    <3>2. PICK k \in 1 .. Len(chain) : Moves(k, m)
      BY <1>5, <3>1 DEF Accounts
    <3>3. Listed(m)
      <4>1. CASE k <= since
        BY <1>5, <3>2, <4>1 DEF Listed
      <4>2. CASE k \in (since + 1) .. Len(chain)
        <5>1. PICK n \in Mints : chain[k].moved = {n} /\ Listed(n)
          BY <1>3, <1>12, <4>2 DEF Quiet
        <5>2. n = m
          BY <3>2, <5>1 DEF Moves
        <5> QED
          BY <5>1, <5>2
      <4> QED
        BY <1>5, <3>2, <4>1, <4>2
    <3> QED
      BY <1>5, <2>2, <3>1, <3>3 DEF Accounts
  <2> QED
    BY <1>5, <2>1, <2>2
<1>13. ASSUME pc = "collect", complete PROVE Reading'
  <2>1. Reading
    BY <1>3, <1>13
  <2>2. ASSUME NEW m \in Mints, Read(m) PROVE Read(m)'
    <3> SUFFICES ASSUME NEW i \in 1 .. Len(chain'), Moves(i, m)',
                        \/ i <= since
                        \/ \E j \in signatures : i <= j /\ Moves(j, m)'
                 PROVE  i \in signatures \/ Held(fills, i, m)
      BY <1>2 DEF Read, Held
    <3>1. i \in 1 .. Len(chain)
      BY <1>5
    <3>2. i <= since \/ \E j \in signatures : i <= j /\ Moves(j, m)
      BY <1>5, <1>6
    <3> QED
      BY <1>6, <2>2, <3>1, <3>2 DEF Read
  <2> QED
    BY <1>2, <1>11, <2>1, <2>2 DEF Reading
<1>14. ASSUME pc \in {"audit", "state"}, complete
       PROVE  Closed(fills)' /\ WholeTo(fills, since)'
  <2>1. \A f \in fills : Real(f)
    BY <1>4 DEF RowsInv
  <2>2. Closed(fills)'
    BY <1>2, <1>3, <1>7, <1>14, <2>1 DEF Closed, KnownSignatures, Held
  <2>3. WholeTo(fills, since)'
    BY <1>2, <1>3, <1>5, <1>8, <1>14 DEF WholeTo, Held
  <2> QED
    BY <2>2, <2>3
<1> QED
  BY <1>2, <1>9, <1>10, <1>12, <1>13, <1>14

\* The audit and the chain as they were, its completeness is as it was.
LEMMA AuditFrame ==
  ASSUME UNCHANGED <<chain, audit>>
  PROVE  /\ Closed(audit.fills)' <=> Closed(audit.fills)
         /\ WholeTo(audit.fills, audit.upto)' <=> WholeTo(audit.fills, audit.upto)
BY DEF Closed, WholeTo, KnownSignatures, Held, Moves

LEMMA BeginLoss ==
  ASSUME LedgerInv, Begin
  PROVE  LossInv'
<1>1. /\ UNCHANGED <<chain, audit, reported, raced>>
      /\ pc' = "inventory"
      /\ since' = Len(chain)
  BY DEF Begin
<1>2. Quiet'
  <2>1. Len(chain) \in Nat
    BY DEF LedgerInv, Shape, TypeOK
  <2> QED
    BY <1>1, <2>1 DEF Quiet
<1> QED
  BY <1>1, <1>2, AuditFrame DEF LedgerInv, LossInv

LEMMA DiscoverLoss ==
  ASSUME LedgerInv, Discover
  PROVE  LossInv'
<1>1. /\ UNCHANGED <<chain, audit, fills, signatures, complete, since, reported, raced>>
      /\ pc = "inventory"
      /\ pc' = "collect"
      /\ unread' = {Wallet} \cup Accounts
  BY DEF Discover
<1>2. /\ DOMAIN chain = 1 .. Len(chain)
      /\ Len(chain) \in Nat /\ since \in Nat /\ since <= Len(chain)
      /\ signatures = {}
  BY <1>1 DEF LedgerInv, Shape, TypeOK, Positions, Course
<1>3. ASSUME NEW m \in Mints, Listed(m) PROVE m \in unread'
  BY <1>1, <1>2, <1>3 DEF Listed, Accounts
<1>4. \A m : Listed(m)' <=> Listed(m)
  BY <1>1 DEF Listed, Moves
<1>5. Reading'
  BY <1>1, <1>2, <1>3, <1>4 DEF Reading
<1>6. ~reported /\ ~raced => Quiet'
  <2>1. Quiet => Quiet'
    BY <1>1, <1>4 DEF Quiet
  <2> QED
    BY <1>1, <2>1 DEF LedgerInv, LossInv
<1> QED
  BY <1>1, <1>5, <1>6, AuditFrame DEF LedgerInv, LossInv

LEMMA ReturnLoss ==
  ASSUME LedgerInv, Return, UNCHANGED <<chain, audit, reported, raced>>
  PROVE  LossInv'
<1>1. pc' = "idle"
  BY DEF Return
<1> QED
  BY <1>1, AuditFrame DEF LedgerInv, LossInv

LEMMA FailLoss ==
  ASSUME LedgerInv, NEW address, SignaturesFail(address)
  PROVE  LossInv'
<1>1. /\ UNCHANGED <<chain, audit, pc, since, reported, raced>>
      /\ pc = "collect"
      /\ complete' = FALSE
  BY DEF SignaturesFail
<1>2. Quiet => Quiet'
  BY <1>1 DEF Quiet, Listed, Moves
<1> QED
  BY <1>1, <1>2, AuditFrame DEF LedgerInv, LossInv

LEMMA CollectLoss ==
  ASSUME LedgerInv, NEW address \in Mints \cup {Wallet}, CollectSignatures(address)
  PROVE  LossInv'
<1> SUFFICES ASSUME ~reported, ~raced
             PROVE  /\ Closed(audit.fills)'
                    /\ WholeTo(audit.fills, audit.upto)'
                    /\ Quiet'
                    /\ complete' => Reading'
  BY DEF LossInv, CollectSignatures
<1>1. /\ UNCHANGED <<chain, audit, pc, fills, known, since, reported, raced>>
      /\ pc = "collect"
      /\ Readable(address)
      /\ signatures' = signatures \cup Collected(address)
      /\ complete' = (complete /\ ~Truncated(address))
      /\ unread' = unread \ {address}
  BY DEF CollectSignatures
<1>2. Closed(audit.fills) /\ WholeTo(audit.fills, audit.upto) /\ Quiet
  BY <1>1 DEF LedgerInv, LossInv
<1>3. \A m : Listed(m)' <=> Listed(m)
  BY <1>1 DEF Listed, Moves
<1>4. Quiet'
  BY <1>1, <1>2, <1>3 DEF Quiet
<1>5. /\ Shape
      /\ Len(chain) \in Nat /\ DOMAIN chain = 1 .. Len(chain)
      /\ since \in Nat /\ since <= Len(chain)
      /\ fills = audit.fills /\ known = KnownSignatures(fills)
      /\ signatures \subseteq 1 .. Len(chain)
  BY <1>1 DEF LedgerInv, Shape, TypeOK, Positions, Course
<1>6. ASSUME complete' PROVE Reading'
  <2>1. Reading /\ ~Truncated(address)
    BY <1>1, <1>6 DEF LedgerInv, LossInv
  <2>2. Collected(address) = Unknown(address)
    BY <1>5, <2>1, NothingCut
  <2>3. Collected(address) \subseteq 1 .. Len(chain)
    BY <1>5, <2>2 DEF Unknown
  <2>4. CASE address = Wallet
    <3>1. Wallet \notin unread'
      BY <1>1, <2>4
    <3>2. \A m \in Mints : Listed(m) => m \in unread'
      BY <1>1, <2>1, <2>4, WalletAssumption DEF Reading, Readable
    <3> QED
      BY <1>3, <3>1, <3>2 DEF Reading
  <2>5. CASE address \in Mints
    <3>1. Wallet \notin unread /\ Wallet \notin unread'
      BY <1>1, <2>5, WalletAssumption DEF Readable
    <3>2. ASSUME NEW m \in Mints, Listed(m), m \notin unread'
          PROVE  Read(m)'
      <4> SUFFICES ASSUME NEW i \in 1 .. Len(chain), Moves(i, m),
                          \/ i <= since
                          \/ \E j \in signatures' : i <= j /\ Moves(j, m)
                   PROVE  i \in signatures' \/ Held(fills, i, m)
        BY <1>1 DEF Read, Held, Moves
      <4>1. CASE m = address
        <5>1. i \notin Unknown(m) => Held(fills, i, m)
          BY <1>2, <1>5, UnknownCovers
        <5> QED
          BY <1>1, <2>2, <4>1, <5>1
      <4>2. CASE m # address
        <5>1. Read(m)
          BY <1>1, <2>1, <3>2, <4>2 DEF Reading
        <5>2. CASE i <= since \/ \E j \in signatures : i <= j /\ Moves(j, m)
          BY <1>1, <5>1, <5>2 DEF Read
        <5>3. ASSUME NEW j \in Collected(address), i <= j, Moves(j, m)
              PROVE  i <= since
          <6>1. j \in 1 .. Len(chain) /\ Touches(j, address)
            BY <2>2, <2>3 DEF Unknown
          <6>2. address \in chain[j].moved /\ m \in chain[j].moved
            BY <2>5, <5>3, <6>1, WalletAssumption DEF Touches, Moves
          <6>3. j \notin (since + 1) .. Len(chain)
            BY <1>2, <4>2, <6>2 DEF Quiet
          <6> QED
            BY <1>5, <5>3, <6>1, <6>3
        <5> QED
          BY <1>1, <5>2, <5>3
      <4> QED
        BY <4>1, <4>2
    <3> QED
      BY <1>3, <3>1, <3>2 DEF Reading
  <2> QED
    BY <2>4, <2>5
<1> QED
  BY <1>1, <1>2, <1>4, <1>6, AuditFrame

LEMMA FetchLoss ==
  ASSUME LedgerInv, FetchTransactions
  PROVE  LossInv'
<1> SUFFICES ASSUME ~reported, ~raced
             PROVE  /\ Closed(audit.fills)'
                    /\ WholeTo(audit.fills, audit.upto)'
                    /\ complete' => Closed(fills)' /\ WholeTo(fills, since)'
  BY DEF LossInv, FetchTransactions
<1>1. PICK lost \in SUBSET signatures :
        /\ fills' = Upserted(fills, UNION {FillsOf(i) : i \in signatures \ lost})
        /\ complete' = (complete /\ lost = {})
  BY DEF FetchTransactions
<1>2. /\ UNCHANGED <<chain, audit, known, unread, signatures, since, reported, raced>>
      /\ pc = "collect"
      /\ unread = {}
  BY DEF FetchTransactions
<1>3. Closed(audit.fills) /\ WholeTo(audit.fills, audit.upto) /\ Quiet
  BY <1>2 DEF LedgerInv, LossInv
<1>4. /\ Shape /\ TypeOK /\ RowsInv
      /\ Len(chain) \in Nat /\ DOMAIN chain = 1 .. Len(chain)
      /\ since \in Nat /\ since <= Len(chain)
      /\ fills = audit.fills
      /\ fills \in SUBSET Fill
      /\ signatures \subseteq 1 .. Len(chain)
  BY <1>2 DEF LedgerInv, Shape, TypeOK, Positions, Course
<1>5. ASSUME complete' PROVE Closed(fills)' /\ WholeTo(fills, since)'
  <2> DEFINE new == UNION {FillsOf(i) : i \in signatures}
  <2>1. complete /\ lost = {} /\ signatures \ lost = signatures
    BY <1>1, <1>5
  <2>2. Reading
    BY <1>2, <1>3, <2>1 DEF LedgerInv, LossInv
  <2>3. fills' = Upserted(fills, new)
    BY <1>1, <2>1
  <2>4. /\ new \in SUBSET Fill
        /\ \A g \in new : g.form = "full" /\ Real(g) /\ g.tx \in signatures
        /\ \A i \in signatures, m \in Mints : Moves(i, m) => Held(new, i, m)
    BY <1>4, FetchedRows
  <2> HIDE DEF new
  <2>5. /\ Keeps(fills, fills')
        /\ \A g \in new : Held(fills', g.tx, g.mint)
    BY <1>4, <2>3, <2>4, UpsertKeeps
  <2>6. \A i, m : Held(fills, i, m) \/ Held(new, i, m) => Held(fills', i, m)
    BY <2>5 DEF Keeps, Held
  <2>7. ASSUME NEW m \in Mints, NEW i \in signatures, Moves(i, m)
        PROVE  Held(fills', i, m)
    BY <2>4, <2>6, <2>7
  <2>8. ASSUME NEW m \in Mints, NEW i \in 1 .. since, Moves(i, m)
        PROVE  Held(fills', i, m)
    <3>1. Listed(m) /\ i \in 1 .. Len(chain) /\ i <= since
      BY <1>4, <2>8 DEF Listed
    <3>2. Read(m)
      BY <1>2, <2>2, <3>1 DEF Reading
    <3>3. i \in signatures \/ Held(fills, i, m)
      BY <2>8, <3>1, <3>2 DEF Read
    <3> QED
      BY <2>6, <2>7, <2>8, <3>3
  <2>9. WholeTo(fills, since)'
    BY <1>2, <2>8 DEF WholeTo, Moves, Held
  <2>10. ASSUME NEW j \in KnownSignatures(fills')
         PROVE  j \in KnownSignatures(fills) \/ j \in signatures
    <3>1. PICK u \in fills' : u.form = "full" /\ u.tx = j
      BY <2>10 DEF KnownSignatures
    <3>2. \/ u \in fills
          \/ \E f \in fills, g \in new :
               f.tx = g.tx /\ f.mint = g.mint /\ u = Prefer(f, g)
          \/ u \in new
      BY <1>4, <2>3, <2>4, UpsertedRows
    <3>3. CASE u \in fills
      BY <3>1, <3>3 DEF KnownSignatures
    <3>4. CASE u \in new
      BY <2>4, <3>1, <3>4
    <3>5. ASSUME NEW f \in fills, NEW g \in new, f.tx = g.tx, f.mint = g.mint,
                 u = Prefer(f, g)
          PROVE  j \in signatures
      BY <1>4, <2>4, <3>1, <3>5, PreferredRow
    <3> QED
      BY <3>2, <3>3, <3>4, <3>5
  <2>11. ASSUME NEW m \in Mints, NEW j \in KnownSignatures(fills'),
                NEW i \in 1 .. j, Moves(j, m), Moves(i, m)
         PROVE  Held(fills', i, m)
    <3>1. CASE j \in KnownSignatures(fills)
      <4>1. Held(fills, i, m)
        BY <1>3, <1>4, <2>11, <3>1 DEF Closed
      <4> QED
        BY <2>6, <4>1
    <3>2. CASE j \in signatures
      <4>1. j \in 1 .. Len(chain) /\ i \in 1 .. Len(chain) /\ i <= j
        BY <1>4, <3>2
      <4>2. Listed(m)
        <5>1. CASE j <= since
          BY <1>4, <2>11, <4>1, <5>1 DEF Listed
        <5>2. CASE j \in (since + 1) .. Len(chain)
          <6>1. PICK n \in Mints : chain[j].moved = {n} /\ Listed(n)
            BY <1>3, <5>2 DEF Quiet
          <6> QED
            BY <2>11, <6>1 DEF Moves
        <5> QED
          BY <1>4, <4>1, <5>1, <5>2
      <4>3. Read(m)
        BY <1>2, <2>2, <4>2 DEF Reading
      <4>4. i \in signatures \/ Held(fills, i, m)
        BY <2>11, <3>2, <4>1, <4>3 DEF Read
      <4> QED
        BY <2>6, <2>7, <2>11, <4>4
    <3> QED
      BY <2>10, <2>11, <3>1, <3>2
  <2>12. Closed(fills)'
    BY <1>2, <2>11 DEF Closed, Moves, Held, KnownSignatures
  <2> QED
    BY <2>9, <2>12
<1> QED
  BY <1>2, <1>3, <1>5, AuditFrame

LEMMA WriteAuditLoss ==
  ASSUME LedgerInv, WriteAudit
  PROVE  LossInv'
<1>1. /\ UNCHANGED <<chain, fills, complete, since, raced>>
      /\ pc = "audit"
      /\ pc' = "state"
      /\ audit'.fills = fills /\ audit'.upto = since
      /\ reported' = (reported \/ ~complete)
  BY DEF WriteAudit, locals
<1> SUFFICES ASSUME ~reported', ~raced'
             PROVE  /\ Closed(audit.fills)'
                    /\ WholeTo(audit.fills, audit.upto)'
                    /\ Closed(fills)' /\ WholeTo(fills, since)'
  BY <1>1 DEF LossInv
<1>2. Closed(fills) /\ WholeTo(fills, since)
  BY <1>1 DEF LedgerInv, LossInv
<1>3. Closed(fills)' /\ WholeTo(fills, since)'
  BY <1>1, <1>2 DEF Closed, WholeTo, KnownSignatures, Held, Moves
<1> QED
  BY <1>1, <1>3 DEF Closed, WholeTo, KnownSignatures, Held, Moves

LEMMA StepLoss ==
  ASSUME LedgerInv, [Next]_vars
  PROVE  LossInv'
<1>1. CASE Land
  BY <1>1, LandLoss
<1>2. CASE Begin
  BY <1>2, BeginLoss
<1>3. CASE Discover
  BY <1>3, DiscoverLoss
<1>4. CASE Refuse \/ Die \/ WriteState
  BY <1>4, ReturnLoss DEF Refuse, Die, WriteState
<1>5. ASSUME NEW address \in Mints \cup {Wallet}, CollectSignatures(address)
      PROVE  LossInv'
  BY <1>5, CollectLoss
<1>6. ASSUME NEW address \in Mints \cup {Wallet}, SignaturesFail(address)
      PROVE  LossInv'
  BY <1>6, FailLoss
<1>7. CASE FetchTransactions
  BY <1>7, FetchLoss
<1>8. CASE WriteAudit
  BY <1>8, WriteAuditLoss
<1>9. CASE UNCHANGED vars
  BY <1>9 DEF vars, LedgerInv, LossInv, Closed, WholeTo, KnownSignatures, Held,
              Moves, Quiet, Listed, Reading, Read
<1> QED
  BY <1>1, <1>2, <1>3, <1>4, <1>5, <1>6, <1>7, <1>8, <1>9 DEF Next

------------------------------------------------------------------------------
LEMMA LedgerAlways == Spec => []LedgerInv
<1>1. Init => LedgerInv
  BY InitLedger
<1>2. LedgerInv /\ [Next]_vars => LedgerInv'
  BY StepShape, StepLoss DEF LedgerInv
<1> QED
  BY <1>1, <1>2, PTL DEF Spec

\* The types of the chain, of both files and of what a refresh holds.
THEOREM TypeCorrect == Spec => []TypeOK
<1>1. LedgerInv => TypeOK
  BY DEF LedgerInv, Shape
<1> QED
  BY <1>1, LedgerAlways, PTL

\* Whatever fails and whatever is retried, every row of the audit is evidence
\* of a successful movement, confirmed only by a payment for that mint alone.
THEOREM NothingInvented == Spec => []NoFillIsInvented
<1>1. LedgerInv => NoFillIsInvented
  <2>1. TypeOK => DOMAIN chain = 1 .. Len(chain)
    BY DEF TypeOK
  <2> QED
    BY <2>1 DEF LedgerInv, Shape, RowsInv, Real, Moves, NoFillIsInvented
<1> QED
  BY <1>1, LedgerAlways, PTL

\* No movement has two rows, whichever addresses showed it and whichever
\* legacy row it had.
THEOREM OneRow == Spec => []OneRowPerMovement
<1>1. LedgerInv => OneRowPerMovement
  BY DEF LedgerInv, Shape, RowsInv, Unique, OneRowPerMovement
<1> QED
  BY <1>1, LedgerAlways, PTL

\* The rows of the audit are the movements of the chain: none is invented, and
\* none is there twice.
THEOREM RowsAreOfMovements == Spec => []RowsAreMovements
BY NothingInvented, OneRow, PTL DEF RowsAreMovements

\* Reading back to the first known signature loses a fill only after an audit
\* that said so, or a swap or a new account landing inside a refresh.
THEOREM LossIsReported == Spec => []LossWasReported
<1>1. LedgerInv => LossWasReported
  BY DEF LedgerInv, LossInv, LossWasReported, Whole, WholeTo
<1> QED
  BY <1>1, LedgerAlways, PTL

\* A death between the two writes leaves the state file behind the audit,
\* never ahead of it.
THEOREM BookIsBehind == Spec => []BookRestsOnAudit
<1>1. LedgerInv => BookRestsOnAudit
  BY DEF LedgerInv, Shape, RowsInv, Positions, BookRestsOnAudit
<1> QED
  BY <1>1, LedgerAlways, PTL

\* The audit is of movements of the chain, and the state file is of the audit.
THEOREM FilesAreTrue == Spec => []FilesAreOfMovements
BY RowsAreOfMovements, BookIsBehind, PTL DEF FilesAreOfMovements

\* No step drops a row, takes a confirmation back or truncates a signature.
THEOREM RowsKept == Spec => RowsAreKept
<1> DEFINE Kept == \A f \in audit.fills :
                     \E g \in audit'.fills :
                       /\ g.tx = f.tx
                       /\ g.mint = f.mint
                       /\ f.status = "confirmed" => g.status = "confirmed"
                       /\ f.form = "full" => g.form = "full"
<1>1. LedgerInv /\ [Next]_vars => Kept \/ UNCHANGED vars
  <2> SUFFICES ASSUME LedgerInv, Next PROVE Kept
    OBVIOUS
  <2>1. CASE UNCHANGED audit
    BY <2>1
  <2>2. CASE WriteAudit
    <3>1. Keeps(audit.fills, fills) /\ audit'.fills = fills
      BY <2>2 DEF WriteAudit, LedgerInv, Shape, Course
    <3> QED
      BY <3>1 DEF Keeps
  <2>3. WriteAudit \/ UNCHANGED audit
    BY DEF Next, Land, Begin, Discover, Refuse, CollectSignatures,
           SignaturesFail, FetchTransactions, WriteState, Die
  <2> QED
    BY <2>1, <2>2, <2>3
<1>2. LedgerInv /\ [Next]_vars => [Kept]_vars
  BY <1>1
<1>3. Spec => [][Kept]_vars
  BY <1>2, LedgerAlways, PTL DEF Spec
<1> QED
  BY <1>3 DEF RowsAreKept

==============================================================================
