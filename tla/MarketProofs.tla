---- MODULE MarketProofs ----
(***************************************************************************)
(* Proofs about the market: the arithmetic of fees, the instructions of    *)
(* the program and of the programs it calls, transactions, what the SDK    *)
(* builds, and the invariant of the whole, for every value of the          *)
(* constants that the assumptions allow.  Of it follow the type invariant, *)
(* what a payment for a permission does to the chain, what a swap pays     *)
(* out, and what it leaves its user.                                       *)
(***************************************************************************)
EXTENDS Market, Induction, FiniteSetTheorems

(* A share of at most the whole is at most the amount, and no rounding     *)
(* makes it more.                                                          *)
LEMMA ShareBound ==
    ASSUME NEW a \in Nat, NEW s \in Nat, NEW u \in Nat \ {0}, s <= u
    PROVE  /\ Share(a, s, u) \in Nat
           /\ Share(a, s, u) <= a
<1>1. a * s <= a * u
  OBVIOUS
<1>2. a * s \in Nat
  OBVIOUS
<1> DEFINE q == (a * s) \div u
<1>3. q \in Nat /\ u * q <= a * s
  BY <1>2
<1>4. q <= a
  <2>1. u * q <= u * a
    BY <1>1, <1>3
  <2> QED
    BY <2>1, <1>3
<1> QED
  BY <1>3, <1>4 DEF Share

(* Nothing of a bid is lost or made up: whatever the splits that the       *)
(* program accepts, the parts of router, relayer and program are natural   *)
(* numbers that add up to the bid (perform_fee_splits in utils.rs).        *)
THEOREM SplitsAddUp ==
    ASSUME NEW amount \in Nat, NEW sr \in Nat, NEW sl \in Nat,
           ValidSplit(sr), ValidSplit(sl)
    PROVE  LET b == BidSplit(amount, sr, sl)
           IN  /\ b.router \in Nat /\ b.relayer \in Nat /\ b.program \in Nat
               /\ b.router + b.relayer + b.program = amount
<1> DEFINE r == Share(amount, sr, Precision)
           l == Share(SaturatingSub(amount, r), sl, Precision)
<1>1. r \in Nat /\ r <= amount
  BY ShareBound, FeeAssumption DEF ValidSplit
<1>2. SaturatingSub(amount, r) = amount - r
  BY <1>1 DEF SaturatingSub
<1>3. l \in Nat /\ l <= amount - r
  <2>1. amount - r \in Nat
    BY <1>1
  <2> QED
    BY <2>1, <1>2, ShareBound, FeeAssumption DEF ValidSplit
<1>4. SaturatingSub(SaturatingSub(amount, r), l) = amount - r - l
  BY <1>1, <1>2, <1>3 DEF SaturatingSub
<1> QED
  BY <1>1, <1>3, <1>4 DEF BidSplit

(* A swap whose fees are accepted pays out exactly the amount that carries *)
(* them: router, relayer, program and the rest add up to it, and the       *)
(* relayer's part is a part of the platform's (compute_swap_fees in        *)
(* swap.rs).                                                               *)
THEOREM SwapFeesAddUp ==
    ASSUME NEW amount \in Nat, NEW referral \in Nat, NEW platform \in Nat, NEW sl \in Nat,
           ValidSplit(sl), SwapFees(amount, referral, platform, sl).ok
    PROVE  LET f == SwapFees(amount, referral, platform, sl)
           IN  /\ {f.router, f.relayer, f.program, f.remaining} \subseteq Nat
               /\ f.router + f.relayer + f.program + f.remaining = amount
               /\ f.relayer + f.program = f.platform
<1> DEFINE r == Share(amount, referral, PrecisionPpm)
           p == Share(amount, platform, PrecisionPpm)
           l == Share(p, sl, Precision)
<1>1. PrecisionPpm \in Nat \ {0}
  BY FeeAssumption DEF PrecisionPpm
<1>2. r \in Nat /\ p \in Nat
  <2>1. amount * referral \in Nat /\ amount * platform \in Nat
    OBVIOUS
  <2> QED
    BY <1>1, <2>1 DEF Share
<1>3. l \in Nat /\ l <= p
  BY <1>2, ShareBound, FeeAssumption DEF ValidSplit
<1>4. r + p <= amount
  BY DEF SwapFees
<1> QED
  BY <1>2, <1>3, <1>4 DEF SwapFees
(* Amounts that move from one place to another.                              *)
LEMMA MovedIs ==
  ASSUME NEW S, NEW f \in [S -> Nat], NEW from \in S, NEW to \in S, NEW n \in Nat, n <= f[from]
  PROVE  /\ Moved(f, from, to, n) \in [S -> Nat]
         /\ \A x \in S \ {from, to} : Moved(f, from, to, n)[x] = f[x]
         /\ from = to => Moved(f, from, to, n) = f
         /\ from # to => /\ Moved(f, from, to, n)[from] = f[from] - n
                         /\ Moved(f, from, to, n)[to] = f[to] + n
<1> DEFINE g == [f EXCEPT ![from] = f[from] - n]
           h == [g EXCEPT ![to] = g[to] + n]
<1>1. Moved(f, from, to, n) = h
  BY DEF Moved
<1>2. g \in [S -> Nat]
  OBVIOUS
<1>3. h \in [S -> Nat]
  BY <1>2
<1>4. from = to => h = f
  <2> SUFFICES ASSUME from = to, NEW x \in S PROVE h[x] = f[x]
    BY <1>3
  <2> QED
    BY <1>2
<1>5. from # to => h[from] = f[from] - n /\ h[to] = f[to] + n
  BY <1>2
<1>6. \A x \in S \ {from, to} : h[x] = f[x]
  BY <1>2
<1> QED
  BY <1>1, <1>3, <1>4, <1>5, <1>6

(***************************************************************************)
(* Chains.                                                                 *)
(***************************************************************************)

(* A chain on which wrapped SOL is backed and the metadata account has     *)
(* its rent.                                                               *)
Fine(c) == c \in Chains /\ SolBacked(c) /\ MetaFunded(c)

(* After an instruction: the chain is as it should be, and the program     *)
(* stays initialized.                                                      *)
Becomes(c, d) == Fine(d) /\ (c.meta # None => d.meta # None)

(* What an instruction may answer.                                         *)
Outcome(c, r) == r.err \in Failures \cup {None} /\ Becomes(c, r.chain)

(* A token account is its owner and its mint.                              *)
LEMMA TokenAccountIs ==
  ASSUME NEW a \in TokenAccounts
  PROVE  a = <<a[1], a[2]>> /\ a[1] \in Wallets /\ a[2] \in Mints
BY DEF TokenAccounts

(* Chains that differ in one field only.                                   *)
LEMMA WithLamports ==
  ASSUME NEW c \in Chains, NEW f \in [Accounts -> Nat]
  PROVE  LET d == [c EXCEPT !.lam = f]
         IN  d \in Chains /\ d.lam = f /\ d.tok = c.tok /\ d.meta = c.meta /\ d.config = c.config
BY DEF Chains

(* The same for tokens.                                                    *)
LEMMA WithTokens ==
  ASSUME NEW c \in Chains, NEW f \in [TokenAccounts -> Nat \cup {Closed}]
  PROVE  LET d == [c EXCEPT !.tok = f]
         IN  d \in Chains /\ d.tok = f /\ d.lam = c.lam /\ d.meta = c.meta /\ d.config = c.config
BY DEF Chains

(* The same for the metadata.                                              *)
LEMMA WithMeta ==
  ASSUME NEW c \in Chains, NEW m \in ExpressRelayMetadata
  PROVE  LET d == [c EXCEPT !.meta = m]
         IN  d \in Chains /\ d.tok = c.tok /\ d.lam = c.lam /\ d.meta = m /\ d.config = c.config
BY DEF Chains

(* A transfer either fails and changes nothing, or moves the amount.       *)
LEMMA MoveLamportsIs ==
  ASSUME NEW c \in Chains, NEW from \in Accounts, NEW to \in Accounts, NEW n \in Nat,
         NEW r, r = MoveLamports(c, from, to, n)
  PROVE  /\ r.chain \in Chains
         /\ r.chain.tok = c.tok /\ r.chain.meta = c.meta /\ r.chain.config = c.config
         /\ \/ r.err \in Failures /\ r.chain = c
            \/ r.err = None /\ n <= c.lam[from] /\ r.chain.lam = Moved(c.lam, from, to, n)
<1>1. c.lam \in [Accounts -> Nat]
  BY DEF Chains
<1>2. CASE c.lam[from] < n
  BY <1>2 DEF MoveLamports, Fail, Failures
<1>3. CASE ~(c.lam[from] < n)
  <2>1. n <= c.lam[from]
    BY <1>1, <1>3
  <2>2. Moved(c.lam, from, to, n) \in [Accounts -> Nat]
    BY <1>1, <2>1, MovedIs
  <2>3. r.err = None /\ r.chain = [c EXCEPT !.lam = Moved(c.lam, from, to, n)]
    BY <1>3 DEF MoveLamports, Ok
  <2> QED
    BY <2>1, <2>2, <2>3, WithLamports
<1> QED
  BY <1>2, <1>3

(* Lamports may leave any wallet but the metadata account, which keeps its *)
(* rent.                                                                   *)
LEMMA WalletPays ==
  ASSUME NEW c, Fine(c), NEW from \in Wallets, NEW to \in Accounts, NEW n \in Nat,
         from # Meta \/ c.lam[Meta] - n >= RentMeta,
         NEW r, r = MoveLamports(c, from, to, n)
  PROVE  Outcome(c, r)
<1> USE ChainAssumption
<1>1. c \in Chains /\ c.lam \in [Accounts -> Nat] /\ from \in Accounts /\ Meta \in Accounts
  BY DEF Fine, Chains, Accounts
<1>2. /\ r.chain \in Chains
      /\ r.err \in Failures \cup {None}
      /\ r.chain.tok = c.tok /\ r.chain.meta = c.meta
      /\ \/ r.chain = c
         \/ n <= c.lam[from] /\ r.chain.lam = Moved(c.lam, from, to, n)
  BY <1>1, MoveLamportsIs
<1>3. CASE r.chain = c
  BY <1>2, <1>3 DEF Becomes, Outcome
<1>4. CASE n <= c.lam[from] /\ r.chain.lam = Moved(c.lam, from, to, n)
  <2> DEFINE f == r.chain.lam
  <2>1. /\ f \in [Accounts -> Nat]
        /\ \A x \in Accounts \ {from, to} : f[x] = c.lam[x]
        /\ from = to => f = c.lam
        /\ from # to => f[from] = c.lam[from] - n /\ f[to] = c.lam[to] + n
    BY <1>1, <1>4, MovedIs
  <2>2. \A x \in Accounts \ {from} : f[x] >= c.lam[x]
    BY <1>1, <2>1
  <2>3. SolBacked(r.chain)
    <3> SUFFICES ASSUME NEW w \in Wallets, c.tok[<<w, Sol>>] # Closed
                 PROVE  f[<<w, Sol>>] >= c.tok[<<w, Sol>>] + RentToken
      BY <1>2 DEF SolBacked
    <3>1. <<w, Sol>> \in TokenAccounts /\ <<w, Sol>> \in Accounts /\ <<w, Sol>> # from
      BY DEF TokenAccounts, Accounts
    <3>2. c.tok[<<w, Sol>>] \in Nat /\ c.lam[<<w, Sol>>] >= c.tok[<<w, Sol>>] + RentToken
      BY <1>1, <3>1 DEF Fine, SolBacked, Chains
    <3> QED
      BY <1>1, <2>1, <2>2, <3>1, <3>2
  <2>4. MetaFunded(r.chain)
    <3>1. f[Meta] >= c.lam[Meta] \/ f[Meta] >= RentMeta
      BY <1>1, <2>1, <2>2
    <3> QED
      BY <1>1, <1>2, <2>1, <3>1 DEF MetaFunded, Fine
  <2> QED
    BY <1>2, <2>3, <2>4 DEF Becomes, Outcome, Fine
<1> QED
  BY <1>2, <1>3, <1>4

(* The transfer of the system program.                                     *)
LEMMA TransferFine ==
  ASSUME NEW c, Fine(c), NEW ix \in SystemInstructions, ix.from # Meta
  PROVE  Outcome(c, MoveLamports(c, ix.from, ix.to, ix.lamports))
BY WalletPays DEF SystemInstructions
(* Tokens that move between accounts of a mint; with wrapped SOL, their    *)
(* lamports move too.                                                      *)
TokensMoved(c, d, from, to, n) ==
  /\ d.meta = c.meta /\ d.config = c.config
  /\ \A w \in Wallets : d.lam[w] = c.lam[w]
  /\ d.tok = IF n = 0 THEN c.tok ELSE Moved(c.tok, from, to, n)
  /\ d.lam = IF n # 0 /\ from[2] = Sol THEN Moved(c.lam, from, to, n) ELSE c.lam
  /\ n # 0 => from[2] = to[2] /\ c.tok[from] # Closed /\ c.tok[to] # Closed /\ n <= c.tok[from]

(* Tokens that move between two accounts that exist.                       *)
LEMMA MovedTokens ==
  ASSUME NEW c \in Chains, NEW from \in TokenAccounts, NEW to \in TokenAccounts, NEW n \in Nat,
         c.tok[from] \in Nat, c.tok[to] \in Nat, n <= c.tok[from],
         NEW f, f = Moved(c.tok, from, to, n)
  PROVE  /\ f \in [TokenAccounts -> Nat \cup {Closed}]
         /\ \A x \in TokenAccounts \ {from, to} : f[x] = c.tok[x]
         /\ from = to => f = c.tok
         /\ from # to => f[from] = c.tok[from] - n /\ f[to] = c.tok[to] + n
         /\ f[from] \in Nat /\ f[to] \in Nat
<1> DEFINE g == [c.tok EXCEPT ![from] = c.tok[from] - n]
           h == [g EXCEPT ![to] = g[to] + n]
<1>0. c.tok \in [TokenAccounts -> Nat \cup {Closed}]
  BY DEF Chains
<1>1. Moved(c.tok, from, to, n) = h
  BY DEF Moved
<1>2. g \in [TokenAccounts -> Nat \cup {Closed}] /\ g[from] = c.tok[from] - n /\ g[to] \in Nat
  BY <1>0
<1>3. h \in [TokenAccounts -> Nat \cup {Closed}]
  BY <1>2
<1>4. from = to => h = c.tok
  <2> SUFFICES ASSUME from = to, NEW x \in TokenAccounts PROVE h[x] = c.tok[x]
    BY <1>0, <1>3
  <2> QED
    BY <1>0, <1>2
<1>5. from # to => h[from] = c.tok[from] - n /\ h[to] = c.tok[to] + n
  BY <1>0, <1>2
<1>6. \A x \in TokenAccounts \ {from, to} : h[x] = c.tok[x]
  BY <1>0, <1>2
<1> HIDE DEF g, h
<1> QED
  BY <1>1, <1>3, <1>4, <1>5, <1>6

(* A transfer of tokens of one mint keeps wrapped SOL backed, as the       *)
(* lamports move along, and closes no account.                             *)
LEMMA TokensPay ==
  ASSUME NEW c, Fine(c), NEW from \in TokenAccounts, NEW to \in TokenAccounts, from[2] = to[2],
         NEW n \in Nat, c.tok[from] # Closed, NEW r, r = MoveTokens(c, from, to, n)
  PROVE  /\ Outcome(c, r)
         /\ r.err = None => TokensMoved(c, r.chain, from, to, n)
         /\ \A a \in TokenAccounts : c.tok[a] # Closed => r.chain.tok[a] # Closed
<1> USE ChainAssumption
<1>0. /\ c \in Chains /\ c.lam \in [Accounts -> Nat] /\ c.tok \in [TokenAccounts -> Nat \cup {Closed}]
      /\ from \in Accounts /\ to \in Accounts /\ c.tok[from] \in Nat
      /\ from \notin Wallets /\ to \notin Wallets
  BY DEF Fine, Chains, Accounts
<1>1. CASE n = 0
  <2>1. r.err = None /\ r.chain = c
    BY <1>1 DEF MoveTokens, Ok
  <2> QED
    BY <1>0, <1>1, <2>1 DEF Outcome, Becomes, TokensMoved
<1>2. CASE n > 0 /\ (c.tok[to] = Closed \/ c.tok[from] < n)
  <2>1. r.err \in Failures /\ r.chain = c
    BY <1>2 DEF MoveTokens, Fail, Failures
  <2> QED
    BY <1>0, <1>2, <2>1 DEF Outcome, Becomes
<1>3. CASE n > 0 /\ c.tok[to] # Closed /\ ~(c.tok[from] < n)
  <2> DEFINE f == Moved(c.tok, from, to, n)
             moved == [c EXCEPT !.tok = f]
  <2>0. n <= c.tok[from] /\ c.tok[to] \in Nat
    BY <1>0, <1>3
  <2>1. /\ f \in [TokenAccounts -> Nat \cup {Closed}]
        /\ \A x \in TokenAccounts \ {from, to} : f[x] = c.tok[x]
        /\ from = to => f = c.tok
        /\ from # to => f[from] = c.tok[from] - n /\ f[to] = c.tok[to] + n
        /\ f[from] \in Nat /\ f[to] \in Nat
    BY <1>0, <2>0, MovedTokens
  <2>2. /\ moved \in Chains /\ moved.tok = f /\ moved.lam = c.lam
        /\ moved.meta = c.meta /\ moved.config = c.config
    <3> HIDE DEF f
    <3> QED
      BY <1>0, <2>1, WithTokens
  <2>3. r = IF from[2] = Sol THEN MoveLamports(moved, from, to, n) ELSE Ok(moved)
    BY <1>3, <1>0 DEF MoveTokens
  <2>4. \A a \in TokenAccounts : c.tok[a] # Closed => f[a] # Closed
    <3> HIDE DEF f
    <3> QED
      BY <2>1, <1>0
  <2> HIDE DEF f, moved
  <2>5. CASE from[2] # Sol
    <3>1. r.err = None /\ r.chain = moved
      BY <2>3, <2>5 DEF Ok
    <3>2. SolBacked(moved)
      <4> SUFFICES ASSUME NEW w \in Wallets, f[<<w, Sol>>] # Closed
                   PROVE  c.lam[<<w, Sol>>] >= f[<<w, Sol>>] + RentToken
        BY <2>2 DEF SolBacked
      <4>1. <<w, Sol>> \in TokenAccounts \ {from, to}
        BY <2>5 DEF TokenAccounts
      <4> QED
        BY <2>1, <4>1 DEF Fine, SolBacked
    <3>3. MetaFunded(moved)
      BY <2>2 DEF MetaFunded, Fine
    <3> QED
      BY <1>0, <1>3, <2>0, <2>2, <2>4, <2>5, <3>1, <3>2, <3>3 DEF Outcome, Becomes, Fine, TokensMoved, f
  <2>6. CASE from[2] = Sol
    <3>0. r = MoveLamports(moved, from, to, n)
      BY <2>3, <2>6
    <3>1. PICK w \in Wallets, v \in Wallets : from = <<w, Sol>> /\ to = <<v, Sol>>
      BY <2>6, TokenAccountIs
    <3>2. c.lam[from] >= n
      <4>1. c.lam[from] >= c.tok[from] + RentToken
        BY <3>1 DEF Fine, SolBacked
      <4>2. c.lam[from] \in Nat
        BY <1>0
      <4> QED
        BY <1>0, <2>0, <4>1, <4>2
    <3>3. /\ r.chain \in Chains
          /\ r.chain.tok = f /\ r.chain.meta = c.meta /\ r.chain.config = c.config
          /\ r.err = None /\ r.chain.lam = Moved(c.lam, from, to, n)
      <4>1. ~(moved.lam[from] < n)
        BY <1>0, <2>2, <3>2
      <4>2. r.err = None
        BY <3>0, <4>1 DEF MoveLamports, Ok
      <4>3. None \notin Failures
        BY ChainAssumption
      <4>4. /\ r.chain \in Chains
            /\ r.chain.tok = moved.tok /\ r.chain.meta = moved.meta /\ r.chain.config = moved.config
            /\ \/ r.err \in Failures /\ r.chain = moved
               \/ r.err = None /\ n <= moved.lam[from] /\ r.chain.lam = Moved(moved.lam, from, to, n)
        BY <1>0, <2>2, <3>0, MoveLamportsIs
      <4> QED
        BY <2>2, <4>2, <4>3, <4>4
    <3> DEFINE g == Moved(c.lam, from, to, n)
    <3>4. /\ g \in [Accounts -> Nat]
          /\ \A x \in Accounts \ {from, to} : g[x] = c.lam[x]
          /\ from = to => g = c.lam
          /\ from # to => g[from] = c.lam[from] - n /\ g[to] = c.lam[to] + n
      BY <1>0, <3>2, MovedIs
    <3> HIDE DEF g
    <3>5. SolBacked(r.chain)
      <4> SUFFICES ASSUME NEW u \in Wallets, f[<<u, Sol>>] # Closed
                   PROVE  g[<<u, Sol>>] >= f[<<u, Sol>>] + RentToken
        BY <3>3 DEF SolBacked, g
      <4> DEFINE x == <<u, Sol>>
      <4>1. x \in TokenAccounts /\ x \in Accounts
        BY DEF TokenAccounts, Accounts
      <4>2. c.tok[x] # Closed => c.lam[x] >= c.tok[x] + RentToken
        BY DEF Fine, SolBacked
      <4>3. c.lam[x] \in Nat
        BY <1>0, <4>1
      <4> HIDE DEF x
      <4>4. CASE x \notin {from, to} \/ from = to
        <5>1. f[x] = c.tok[x] /\ g[x] = c.lam[x]
          BY <2>1, <3>4, <4>1, <4>4
        <5> QED
          BY <4>2, <5>1 DEF x
      <4>5. CASE x \in {from, to} /\ from # to
        <5>1. c.tok[x] \in Nat /\ c.tok[x] # Closed
          BY <1>0, <2>0, <4>5
        <5> QED
          BY <2>0, <2>1, <3>4, <4>2, <4>3, <4>5, <5>1 DEF x
      <4> QED
        BY <4>4, <4>5
    <3>6. \A u \in Wallets : g[u] = c.lam[u]
      BY <1>0, <3>4 DEF Accounts
    <3>7. MetaFunded(r.chain)
      BY <3>3, <3>6 DEF MetaFunded, Fine, g
    <3> QED
      BY <1>3, <2>0, <2>4, <2>6, <3>3, <3>5, <3>6, <3>7 DEF Outcome, Becomes, Fine, TokensMoved, f, g
  <2> QED
    BY <2>5, <2>6
<1> QED
  BY <1>0, <1>1, <1>2, <1>3
(***************************************************************************)
(* The system and token programs.                                          *)
(***************************************************************************)

(* The tokens of one account may be set to what its lamports back.         *)
LEMMA SetTokens ==
  ASSUME NEW c, Fine(c), NEW a \in TokenAccounts, NEW n \in Nat \cup {Closed},
         a[2] = Sol /\ n # Closed => c.lam[a] >= n + RentToken
  PROVE  LET d == [c EXCEPT !.tok[a] = n] IN Becomes(c, d) /\ d.meta = c.meta /\ d.lam = c.lam
<1> DEFINE f == [c.tok EXCEPT ![a] = n]
           d == [c EXCEPT !.tok = f]
<1>1. c \in Chains /\ c.tok \in [TokenAccounts -> Nat \cup {Closed}]
  BY DEF Fine, Chains
<1>2. f \in [TokenAccounts -> Nat \cup {Closed}] /\ f[a] = n /\ \A x \in TokenAccounts \ {a} : f[x] = c.tok[x]
  BY <1>1
<1>3. d \in Chains /\ d.tok = f /\ d.lam = c.lam /\ d.meta = c.meta
  <2> HIDE DEF f
  <2> QED
    BY <1>1, <1>2, WithTokens
<1>4. [c EXCEPT !.tok[a] = n] = d
  BY <1>1 DEF Chains
<1> HIDE DEF f, d
<1>5. SolBacked(d)
  <2> SUFFICES ASSUME NEW w \in Wallets, f[<<w, Sol>>] # Closed
               PROVE  c.lam[<<w, Sol>>] >= f[<<w, Sol>>] + RentToken
    BY <1>3 DEF SolBacked
  <2>1. CASE a = <<w, Sol>>
    BY <1>2, <2>1
  <2>2. CASE a # <<w, Sol>>
    BY <1>2, <2>2, ChainAssumption DEF Fine, SolBacked, TokenAccounts
  <2> QED
    BY <2>1, <2>2
<1>6. MetaFunded(d)
  BY <1>3 DEF MetaFunded, Fine
<1> QED
  BY <1>3, <1>4, <1>5, <1>6 DEF Becomes, Fine

(* A token account that is created has the lamports of its rent.           *)
LEMMA CreateAtaFine ==
  ASSUME NEW c, Fine(c), NEW ix \in TokenInstructions, ix.op = "CreateAta", ix.payer # Meta
  PROVE  Outcome(c, CreateAta(c, ix))
<1> DEFINE n == SaturatingSub(RentToken, c.lam[ix.ata])
           r == MoveLamports(c, ix.payer, ix.ata, n)
           d == r.chain
           e == [d EXCEPT !.tok[ix.ata] = 0]
<1> USE ChainAssumption
<1>1. ix.payer \in Wallets /\ ix.ata \in TokenAccounts
  BY DEF TokenInstructions
<1>2. /\ c \in Chains /\ c.lam \in [Accounts -> Nat] /\ c.tok \in [TokenAccounts -> Nat \cup {Closed}]
      /\ ix.payer \in Accounts /\ ix.ata \in Accounts /\ ix.payer # ix.ata
  BY <1>1 DEF Fine, Chains, Accounts
<1>3. n \in Nat /\ c.lam[ix.ata] + n >= RentToken
  BY <1>2 DEF SaturatingSub
<1>4. CASE c.tok[ix.ata] # Closed
  BY <1>4 DEF CreateAta, Ok, Outcome, Becomes
<1>5. CASE c.tok[ix.ata] = Closed
  <2>1. CreateAta(c, ix) = IF r.err = None THEN Ok(e) ELSE r
    BY <1>5 DEF CreateAta, Then
  <2> HIDE DEF n
  <2>2. Outcome(c, r)
    BY <1>1, <1>2, <1>3, WalletPays
  <2>3. CASE r.err # None
    BY <2>1, <2>2, <2>3
  <2>4. CASE r.err = None
    <3>1. n <= c.lam[ix.payer] /\ d.lam = Moved(c.lam, ix.payer, ix.ata, n)
      BY <1>2, <1>3, <2>4, MoveLamportsIs
    <3>2. d.lam[ix.ata] = c.lam[ix.ata] + n
      BY <1>2, <1>3, <3>1, MovedIs
    <3>3. Becomes(d, e)
      <4>1. Fine(d) /\ d.lam[ix.ata] >= 0 + RentToken
        BY <1>3, <2>2, <3>2 DEF Outcome, Becomes
      <4> HIDE DEF d
      <4> QED
        BY <1>1, <4>1, SetTokens
    <3> HIDE DEF r, e
    <3> QED
      BY <2>1, <2>2, <2>4, <3>3 DEF Outcome, Becomes, Ok
  <2> QED
    BY <2>3, <2>4
<1> QED
  BY <1>4, <1>5

(* The tokens of a wrapped SOL account are set to its lamports without     *)
(* the rent.                                                               *)
LEMMA SyncNativeFine ==
  ASSUME NEW c, Fine(c), NEW ix \in TokenInstructions, ix.op = "SyncNative"
  PROVE  Outcome(c, SyncNative(c, ix))
<1> DEFINE a == ix.account
<1> USE ChainAssumption
<1>1. a \in TokenAccounts
  BY DEF TokenInstructions
<1>2. /\ c \in Chains /\ c.lam \in [Accounts -> Nat] /\ c.tok \in [TokenAccounts -> Nat \cup {Closed}]
      /\ a \in Accounts
  BY <1>1 DEF Fine, Chains, Accounts
<1>3. CASE a[2] # Sol \/ c.tok[a] = Closed
  BY <1>3 DEF SyncNative, Fail, Failures, Outcome, Becomes
<1>4. CASE a[2] = Sol /\ c.tok[a] # Closed
  <2>1. SyncNative(c, ix) = Ok([c EXCEPT !.tok[a] = c.lam[a] - RentToken])
    BY <1>4 DEF SyncNative
  <2>2. c.tok[a] \in Nat /\ c.lam[a] >= c.tok[a] + RentToken
    <3>1. a = <<a[1], Sol>> /\ a[1] \in Wallets
      BY <1>1, <1>4, TokenAccountIs
    <3> HIDE DEF a
    <3> QED
      BY <1>1, <1>2, <1>4, <3>1 DEF Fine, SolBacked
  <2>3. c.lam[a] - RentToken \in Nat /\ c.lam[a] >= (c.lam[a] - RentToken) + RentToken
    BY <1>2, <2>2
  <2> HIDE DEF a
  <2>4. Becomes(c, [c EXCEPT !.tok[a] = c.lam[a] - RentToken])
    BY <1>1, <2>3, SetTokens
  <2> QED
    BY <2>1, <2>4 DEF Outcome, Ok
<1> QED
  BY <1>3, <1>4

(* A token account that is closed has no tokens, and its lamports go to    *)
(* another account.                                                        *)
LEMMA CloseAccountFine ==
  ASSUME NEW c, Fine(c), NEW a \in TokenAccounts, NEW to \in Accounts,
         NEW ix, ix.account = a, ix.destination = to
  PROVE  Outcome(c, CloseAccount(c, ix))
<1> DEFINE r == MoveLamports(c, a, to, c.lam[a])
           d == r.chain
           e == [d EXCEPT !.tok[a] = Closed]
<1> USE ChainAssumption
<1>1. /\ c \in Chains /\ c.lam \in [Accounts -> Nat] /\ c.tok \in [TokenAccounts -> Nat \cup {Closed}]
      /\ a \in Accounts /\ c.lam[a] \in Nat
  BY DEF Fine, Chains, Accounts
<1>2. CASE c.tok[a] = Closed \/ (a[2] # Sol /\ c.tok[a] # 0)
  BY <1>2 DEF CloseAccount, Fail, Failures, Outcome, Becomes
<1>3. CASE ~(c.tok[a] = Closed \/ (a[2] # Sol /\ c.tok[a] # 0))
  <2>1. CloseAccount(c, ix) = IF r.err = None THEN Ok(e) ELSE r
    BY <1>3 DEF CloseAccount, Then
  <2>2. /\ r.err = None
        /\ d \in Chains /\ d.tok = c.tok /\ d.meta = c.meta
        /\ d.lam = Moved(c.lam, a, to, c.lam[a])
    <3>1. ~(c.lam[a] < c.lam[a])
      BY <1>1
    <3>2. r.err = None
      BY <3>1 DEF MoveLamports, Ok
    <3> HIDE DEF d, r
    <3>3. None \notin Failures
      OBVIOUS
    <3> QED
      BY <1>1, <3>2, <3>3, MoveLamportsIs DEF d, r
  <2>3. /\ d.lam \in [Accounts -> Nat]
        /\ \A x \in Accounts \ {a} : d.lam[x] >= c.lam[x]
    <3> HIDE DEF d
    <3>1. c.lam[a] <= c.lam[a]
      BY <1>1
    <3>2. /\ d.lam \in [Accounts -> Nat]
          /\ \A x \in Accounts \ {a, to} : d.lam[x] = c.lam[x]
          /\ a # to => d.lam[to] = c.lam[to] + c.lam[a]
      BY <1>1, <2>2, <3>1, MovedIs
    <3> QED
      BY <1>1, <3>2
  <2> DEFINE f == [d.tok EXCEPT ![a] = Closed]
  <2>4. f \in [TokenAccounts -> Nat \cup {Closed}] /\ f[a] = Closed /\ \A x \in TokenAccounts \ {a} : f[x] = c.tok[x]
    BY <1>1, <2>2
  <2>5. e \in Chains /\ e.tok = f /\ e.lam = d.lam /\ e.meta = c.meta
    <3>1. e = [d EXCEPT !.tok = f]
      BY <2>2 DEF Chains
    <3> HIDE DEF f, d, e
    <3> QED
      BY <2>2, <2>4, <3>1, WithTokens
  <2> HIDE DEF d, e, f
  <2>6. SolBacked(e)
    <3> SUFFICES ASSUME NEW w \in Wallets, f[<<w, Sol>>] # Closed
                 PROVE  d.lam[<<w, Sol>>] >= f[<<w, Sol>>] + RentToken
      BY <2>5 DEF SolBacked
    <3>1. <<w, Sol>> \in TokenAccounts \ {a} /\ <<w, Sol>> \in Accounts \ {a}
      BY <2>4 DEF TokenAccounts, Accounts
    <3>2. f[<<w, Sol>>] \in Nat /\ f[<<w, Sol>>] = c.tok[<<w, Sol>>]
      BY <2>4, <3>1
    <3>3. d.lam[<<w, Sol>>] >= c.lam[<<w, Sol>>] /\ c.lam[<<w, Sol>>] >= c.tok[<<w, Sol>>] + RentToken
      BY <2>3, <3>1, <3>2 DEF Fine, SolBacked
    <3>4. d.lam[<<w, Sol>>] \in Nat /\ c.lam[<<w, Sol>>] \in Nat
      BY <1>1, <2>3, <3>1
    <3> QED
      BY <3>2, <3>3, <3>4
  <2>7. MetaFunded(e)
    <3>1. Meta \in Accounts \ {a}
      BY DEF Accounts
    <3>2. d.lam[Meta] \in Nat /\ c.lam[Meta] \in Nat /\ d.lam[Meta] >= c.lam[Meta]
      BY <1>1, <2>3, <3>1
    <3> QED
      BY <2>5, <3>2 DEF MetaFunded, Fine
  <2> QED
    BY <2>1, <2>2, <2>5, <2>6, <2>7 DEF Outcome, Becomes, Fine, Ok
<1> QED
  BY <1>2, <1>3
(***************************************************************************)
(* Administration.                                                         *)
(***************************************************************************)

(* Metadata may be replaced by metadata.                                   *)
LEMMA SetMetaFine ==
  ASSUME NEW c, Fine(c), c.meta # None, NEW m \in ExpressRelayMetadata
  PROVE  Becomes(c, [c EXCEPT !.meta = m])
<1>1. c \in Chains /\ m # None
  BY ChainAssumption DEF Fine
<1> QED
  BY <1>1, WithMeta DEF Becomes, Fine, SolBacked, MetaFunded

(* What the admin alone may do is done by the admin of a program that is   *)
(* initialized.                                                            *)
LEMMA AdminOnlyIs ==
  ASSUME NEW c, NEW ix, NEW rest \in Failures \cup {None}
  PROVE  /\ AdminOnly(c, ix, rest) \in Failures \cup {None}
         /\ AdminOnly(c, ix, rest) = None => c.meta # None /\ ix.by = c.meta.admin /\ rest = None
BY ChainAssumption DEF AdminOnly, Require, Failures

(* The instructions that set a field of the metadata: a split is one that  *)
(* is at most the whole.                                                   *)
LEMMA SetterFine ==
  ASSUME NEW c, Fine(c), NEW ix \in AdminInstructions,
         ix.what \in {"SetAdmin", "SetRelayer", "SetSecondaryRelayer", "SetSplits", "SetSwapPlatformFee"}
  PROVE  Outcome(c, AdminIx(c, ix))
<1> USE ChainAssumption
<1> DEFINE Set(m) == Outcome(c, Ok([c EXCEPT !.meta = m]))
<1>1. ASSUME NEW e \in Failures PROVE Outcome(c, Fail(e, c))
  BY DEF Outcome, Becomes, Fail
<1>2. c \in Chains /\ c.meta \in ExpressRelayMetadata \cup {None}
  BY DEF Fine, Chains
<1>3. ASSUME c.meta # None, NEW m \in ExpressRelayMetadata PROVE Set(m)
  BY <1>3, SetMetaFine DEF Outcome, Ok
<1>4. CASE ix.what = "SetAdmin"
  <2> DEFINE err == AdminOnly(c, ix, None)
             m == [c.meta EXCEPT !.admin = ix.admin]
  <2>1. AdminIx(c, ix) = IF err = None THEN Ok([c EXCEPT !.meta = m]) ELSE Fail(err, c)
    BY <1>2, <1>4 DEF AdminIx, SetAdmin, Guarded, Chains
  <2>2. err \in Failures \cup {None} /\ (err = None => c.meta # None)
    BY AdminOnlyIs
  <2>3. err = None => m \in ExpressRelayMetadata
    BY <1>2, <2>2 DEF ExpressRelayMetadata, AdminInstructions
  <2> HIDE DEF err, m
  <2> QED
    BY <1>1, <1>3, <2>1, <2>2, <2>3
<1>5. CASE ix.what = "SetRelayer"
  <2> DEFINE err == AdminOnly(c, ix, None)
             m == [c.meta EXCEPT !.relayer = ix.relayer, !.feeReceiver = ix.feeReceiver]
  <2>1. AdminIx(c, ix) = IF err = None THEN Ok([c EXCEPT !.meta = m]) ELSE Fail(err, c)
    BY <1>2, <1>5 DEF AdminIx, SetRelayer, Guarded, Chains
  <2>2. err \in Failures \cup {None} /\ (err = None => c.meta # None)
    BY AdminOnlyIs
  <2>3. err = None => m \in ExpressRelayMetadata
    BY <1>2, <2>2 DEF ExpressRelayMetadata, AdminInstructions
  <2> HIDE DEF err, m
  <2> QED
    BY <1>1, <1>3, <2>1, <2>2, <2>3
<1>6. CASE ix.what = "SetSecondaryRelayer"
  <2> DEFINE err == AdminOnly(c, ix, None)
             m == [c.meta EXCEPT !.secondary = ix.relayer]
  <2>1. AdminIx(c, ix) = IF err = None THEN Ok([c EXCEPT !.meta = m]) ELSE Fail(err, c)
    BY <1>2, <1>6 DEF AdminIx, SetSecondaryRelayer, Guarded, Chains
  <2>2. err \in Failures \cup {None} /\ (err = None => c.meta # None)
    BY AdminOnlyIs
  <2>3. err = None => m \in ExpressRelayMetadata
    BY <1>2, <2>2 DEF ExpressRelayMetadata, AdminInstructions
  <2> HIDE DEF err, m
  <2> QED
    BY <1>1, <1>3, <2>1, <2>2, <2>3
<1>7. CASE ix.what = "SetSplits"
  <2> DEFINE valid == ValidSplit(ix.splitRouter) /\ ValidSplit(ix.splitRelayer)
             rest == Require(valid, "FeeSplitLargerThanPrecision", None)
             err == AdminOnly(c, ix, rest)
             m == [c.meta EXCEPT !.splitRouter = ix.splitRouter, !.splitRelayer = ix.splitRelayer]
  <2>1. AdminIx(c, ix) = IF err = None THEN Ok([c EXCEPT !.meta = m]) ELSE Fail(err, c)
    BY <1>2, <1>7 DEF AdminIx, SetSplits, Guarded, Chains
  <2>2. rest \in Failures \cup {None} /\ (rest = None => valid)
    BY DEF Require, Failures
  <2>3. err \in Failures \cup {None} /\ (err = None => c.meta # None /\ valid)
    BY <2>2, AdminOnlyIs
  <2>4. err = None => m \in ExpressRelayMetadata
    <3>1. valid => ix.splitRouter \in Splits /\ ix.splitRelayer \in Splits
      BY FeeAssumption DEF AdminInstructions, ValidSplit, Splits
    <3> QED
      BY <1>2, <2>3, <3>1 DEF ExpressRelayMetadata
  <2> HIDE DEF err, m
  <2> QED
    BY <1>1, <1>3, <2>1, <2>3, <2>4
<1>8. CASE ix.what = "SetSwapPlatformFee"
  <2> DEFINE rest == Require(ValidSplit(ix.bps), "FeeSplitLargerThanPrecision", None)
             err == AdminOnly(c, ix, rest)
             m == [c.meta EXCEPT !.platformBps = ix.bps]
  <2>1. AdminIx(c, ix) = IF err = None THEN Ok([c EXCEPT !.meta = m]) ELSE Fail(err, c)
    BY <1>2, <1>8 DEF AdminIx, SetSwapPlatformFee, Guarded, Chains
  <2>2. rest \in Failures \cup {None} /\ (rest = None => ValidSplit(ix.bps))
    BY DEF Require, Failures
  <2>3. err \in Failures \cup {None} /\ (err = None => c.meta # None /\ ValidSplit(ix.bps))
    BY <2>2, AdminOnlyIs
  <2>4. err = None => m \in ExpressRelayMetadata
    BY <1>2, <2>3 DEF ExpressRelayMetadata, AdminInstructions, ValidSplit, Splits
  <2> HIDE DEF err, m
  <2> QED
    BY <1>1, <1>3, <2>1, <2>3, <2>4
<1> QED
  BY <1>4, <1>5, <1>6, <1>7, <1>8

(* An instruction that fails leaves the chain as it is.                    *)
LEMMA FailFine ==
  ASSUME NEW c, Fine(c), NEW e \in Failures
  PROVE  Outcome(c, Fail(e, c))
BY DEF Outcome, Becomes, Fail

(* The program is initialized with valid splits and pays the rent of its   *)
(* metadata.                                                               *)
LEMMA InitializeFine ==
  ASSUME NEW c, Fine(c), NEW ix \in AdminInstructions, ix.by # Meta
  PROVE  Outcome(c, Initialize(c, ix))
<1> DEFINE valid == ValidSplit(ix.splitRouter) /\ ValidSplit(ix.splitRelayer)
           rest == Require(valid, "FeeSplitLargerThanPrecision", None)
           err == Require(c.meta = None, "AlreadyInUse", rest)
           r == MoveLamports(c, ix.by, Meta, RentMeta)
           m == [admin |-> ix.admin, relayer |-> ix.relayer,
                 secondary |-> None, feeReceiver |-> ix.feeReceiver,
                 splitRouter |-> ix.splitRouter,
                 splitRelayer |-> ix.splitRelayer, platformBps |-> 0]
           d == [r.chain EXCEPT !.meta = m]
<1> USE ChainAssumption
<1>1. Initialize(c, ix) = IF err = None THEN (IF r.err = None THEN Ok(d) ELSE r) ELSE Fail(err, c)
  BY DEF Initialize, Guarded, Then
<1>2. rest \in Failures \cup {None} /\ (rest = None => valid)
  BY DEF Require, Failures
<1>3. err \in Failures \cup {None} /\ (err = None => c.meta = None /\ valid)
  BY <1>2 DEF Require, Failures
<1>4. c \in Chains /\ c.lam \in [Accounts -> Nat] /\ Meta \in Accounts /\ ix.by \in Accounts /\ ix.by \in Wallets
  BY DEF Fine, Chains, Accounts, AdminInstructions
<1>5. Outcome(c, r)
  BY <1>4, WalletPays
<1>6. CASE err = None /\ r.err = None
  <2>1. m \in ExpressRelayMetadata
    <3>1. ix.splitRouter \in Splits /\ ix.splitRelayer \in Splits /\ 0 \in Splits
      BY <1>3, <1>6, FeeAssumption DEF AdminInstructions, ValidSplit, Splits
    <3> QED
      BY <3>1 DEF ExpressRelayMetadata, AdminInstructions
  <2>2. RentMeta <= c.lam[ix.by] /\ r.chain.lam = Moved(c.lam, ix.by, Meta, RentMeta) /\ r.chain.tok = c.tok
    BY <1>4, <1>6, MoveLamportsIs
  <2>3. r.chain.lam[Meta] = c.lam[Meta] + RentMeta
    BY <1>4, <2>2, MovedIs
  <2>4. c.lam[Meta] \in Nat
    BY <1>4
  <2>5. Fine(r.chain)
    BY <1>5 DEF Outcome, Becomes
  <2>6. r.chain \in Chains
    BY <2>5 DEF Fine
  <2>7. d \in Chains /\ d.tok = r.chain.tok /\ d.lam = r.chain.lam /\ d.meta = m
    <3> HIDE DEF r, m
    <3> QED
      BY <2>1, <2>6, WithMeta
  <2> HIDE DEF d, r, m
  <2>8. SolBacked(d) /\ MetaFunded(d)
    BY <2>3, <2>4, <2>5, <2>7 DEF Fine, SolBacked, MetaFunded
  <2>9. Outcome(c, Ok(d))
    BY <2>1, <2>7, <2>8 DEF Outcome, Becomes, Fine, Ok
  <2> QED
    BY <1>1, <1>6, <2>9
<1>7. CASE err = None /\ r.err # None
  <2> HIDE DEF err, r, d
  <2> QED
    BY <1>1, <1>5, <1>7
<1>8. CASE err # None
  <2> HIDE DEF err, r, d
  <2> QED
    BY <1>1, <1>3, <1>8, FailFine
<1> QED
  BY <1>6, <1>7, <1>8

(* A router's own split is valid, too; the admin may have to pay a rent.   *)
LEMMA SetRouterSplitFine ==
  ASSUME NEW c, Fine(c), NEW ix \in AdminInstructions, ix.by # Meta
  PROVE  Outcome(c, SetRouterSplit(c, ix))
<1> DEFINE rent == ConfigRent(c, ix.router)
           valid == Require(ValidSplit(ix.split), "FeeSplitLargerThanPrecision", None)
           rest == Require(c.lam[ix.by] >= rent, "InsufficientLamports", valid)
           err == AdminOnly(c, ix, rest)
           f == [c.lam EXCEPT ![ix.by] = c.lam[ix.by] - rent]
           d == [c EXCEPT !.config[ix.router] = ix.split, !.lam = f]
<1> USE ChainAssumption
<1>1. SetRouterSplit(c, ix) = IF err = None THEN Ok(d) ELSE Fail(err, c)
  BY DEF SetRouterSplit, Guarded
<1>2. valid \in Failures \cup {None} /\ (valid = None => ValidSplit(ix.split))
  BY DEF Require, Failures
<1>3. rest \in Failures \cup {None} /\ (rest = None => ValidSplit(ix.split) /\ c.lam[ix.by] >= rent)
  <2> HIDE DEF valid, rent
  <2> QED
    BY <1>2 DEF Require, Failures
<1>4. err \in Failures \cup {None} /\ (err = None => ValidSplit(ix.split) /\ c.lam[ix.by] >= rent)
  <2> HIDE DEF rest, rent
  <2> QED
    BY <1>3, AdminOnlyIs
<1>5. CASE err = None
  <2>1. ix.split \in Splits /\ ix.router \in Wallets /\ ix.by \in Wallets
    BY <1>4, <1>5, FeeAssumption DEF AdminInstructions, ValidSplit, Splits
  <2>2. c \in Chains /\ c.lam \in [Accounts -> Nat] /\ ix.by \in Accounts /\ Meta \in Accounts
    BY <2>1 DEF Fine, Chains, Accounts
  <2>3. rent \in Nat /\ c.lam[ix.by] >= rent
    BY <1>4, <1>5 DEF ConfigRent
  <2> HIDE DEF rent
  <2>4. f \in [Accounts -> Nat] /\ \A x \in Accounts \ {ix.by} : f[x] = c.lam[x]
    BY <2>2, <2>3
  <2> HIDE DEF f
  <2>5. d \in Chains /\ d.tok = c.tok /\ d.lam = f /\ d.meta = c.meta
    BY <2>1, <2>2, <2>4 DEF Chains
  <2> HIDE DEF d
  <2>6. f[Meta] = c.lam[Meta] /\ \A w \in Wallets : f[<<w, Sol>>] = c.lam[<<w, Sol>>]
    <3>1. \A w \in Wallets : <<w, Sol>> \in Accounts \ {ix.by}
      BY <2>1 DEF TokenAccounts, Accounts
    <3> QED
      BY <2>2, <2>4, <3>1
  <2>7. SolBacked(d) /\ MetaFunded(d)
    BY <2>5, <2>6 DEF Fine, SolBacked, MetaFunded
  <2>8. Outcome(c, Ok(d))
    BY <2>5, <2>7 DEF Outcome, Becomes, Ok, Fine
  <2> QED
    BY <1>1, <1>5, <2>8
<1>6. CASE err # None
  <2> HIDE DEF err, d
  <2> QED
    BY <1>1, <1>4, <1>6, FailFine
<1> QED
  BY <1>5, <1>6

(* The admin withdraws no more than what the metadata account has above    *)
(* its rent.                                                               *)
LEMMA WithdrawFeesFine ==
  ASSUME NEW c, Fine(c), NEW ix \in AdminInstructions
  PROVE  Outcome(c, WithdrawFees(c, ix))
<1> DEFINE err == AdminOnly(c, ix, None)
           n == SaturatingSub(c.lam[Meta], RentMeta)
           r == MoveLamports(c, Meta, ix.to, n)
<1> USE ChainAssumption
<1>1. WithdrawFees(c, ix) = IF err = None THEN r ELSE Fail(err, c)
  BY DEF WithdrawFees, Guarded
<1>2. err \in Failures \cup {None} /\ (err = None => c.meta # None)
  BY AdminOnlyIs
<1>3. CASE err = None
  <2>1. c.lam \in [Accounts -> Nat] /\ Meta \in Accounts /\ ix.to \in Accounts
    BY DEF Fine, Chains, Accounts, AdminInstructions
  <2>2. c.lam[Meta] \in Nat /\ c.lam[Meta] >= RentMeta
    BY <1>2, <1>3, <2>1 DEF Fine, MetaFunded
  <2>3. n \in Nat /\ c.lam[Meta] - n >= RentMeta
    BY <2>2 DEF SaturatingSub
  <2> HIDE DEF n
  <2>4. Outcome(c, r)
    BY <2>1, <2>3, WalletPays
  <2> QED
    BY <1>1, <1>3, <2>4
<1>4. CASE err # None
  <2> HIDE DEF err, r
  <2> QED
    BY <1>1, <1>2, <1>4, FailFine
<1> QED
  BY <1>3, <1>4

(* The same for the tokens of the program.                                 *)
LEMMA WithdrawSplFeesFine ==
  ASSUME NEW c, Fine(c), NEW ix \in AdminInstructions
  PROVE  Outcome(c, WithdrawSplFees(c, ix))
<1> DEFINE from == <<Meta, ix.mint>>
           to == <<ix.to, ix.mint>>
           open == c.tok[from] # Closed /\ c.tok[to] # Closed
           rest == Require(open, "AccountNotInitialized", None)
           err == AdminOnly(c, ix, rest)
           r == MoveTokens(c, from, to, c.tok[from])
<1> USE ChainAssumption
<1>1. WithdrawSplFees(c, ix) = IF err = None THEN r ELSE Fail(err, c)
  BY DEF WithdrawSplFees, Guarded
<1>2. rest \in Failures \cup {None} /\ (rest = None => open)
  BY DEF Require, Failures
<1>3. err \in Failures \cup {None} /\ (err = None => c.meta # None /\ open)
  BY <1>2, AdminOnlyIs
<1>4. CASE err = None
  <2>1. from \in TokenAccounts /\ to \in TokenAccounts /\ from[2] = to[2]
    BY DEF TokenAccounts, AdminInstructions
  <2>2. c.tok[from] \in Nat /\ c.tok[from] # Closed
    <3> HIDE DEF from
    <3> QED
      BY <1>3, <1>4, <2>1 DEF Fine, Chains
  <2> HIDE DEF from, to
  <2>3. Outcome(c, r)
    BY <2>1, <2>2, TokensPay
  <2> QED
    BY <1>1, <1>4, <2>3
<1>5. CASE err # None
  <2> HIDE DEF err, r
  <2> QED
    BY <1>1, <1>3, <1>5, FailFine
<1> QED
  BY <1>4, <1>5

(* Any instruction of the admin.                                           *)
LEMMA AdminFine ==
  ASSUME NEW c, Fine(c), NEW ix \in AdminInstructions, ix.by # Meta
  PROVE  Outcome(c, AdminIx(c, ix))
<1>1. ix.what \in {"Initialize", "SetAdmin", "SetRelayer", "SetSecondaryRelayer", "SetSplits",
                   "SetSwapPlatformFee", "SetRouterSplit", "WithdrawFees", "WithdrawSplFees"}
  BY DEF AdminInstructions
<1>2. CASE ix.what \in {"SetAdmin", "SetRelayer", "SetSecondaryRelayer", "SetSplits", "SetSwapPlatformFee"}
  BY <1>2, SetterFine
<1>3. CASE ix.what = "Initialize"
  BY <1>3, InitializeFine DEF AdminIx
<1>4. CASE ix.what = "SetRouterSplit"
  BY <1>4, SetRouterSplitFine DEF AdminIx
<1>5. CASE ix.what = "WithdrawFees"
  BY <1>5, WithdrawFeesFine DEF AdminIx
<1>6. CASE ix.what = "WithdrawSplFees"
  BY <1>6, WithdrawSplFeesFine DEF AdminIx
<1> QED
  BY <1>1, <1>2, <1>3, <1>4, <1>5, <1>6
(***************************************************************************)
(* Bids.                                                                   *)
(***************************************************************************)
(* One wallet pays another.                                                *)
Paid(c, d, from, to, n) ==
  /\ d.tok = c.tok /\ d.meta = c.meta /\ d.config = c.config
  /\ n <= c.lam[from] /\ d.lam = Moved(c.lam, from, to, n)

(* Moving nothing changes nothing.                                         *)
LEMMA MovedNothing ==
  ASSUME NEW S, NEW f \in [S -> Nat], NEW from \in S, NEW to \in S
  PROVE  Moved(f, from, to, 0) = f
<1>0. f[from] \in Nat /\ 0 <= f[from]
  OBVIOUS
<1>1. /\ Moved(f, from, to, 0) \in [S -> Nat]
      /\ \A x \in S \ {from, to} : Moved(f, from, to, 0)[x] = f[x]
      /\ from = to => Moved(f, from, to, 0) = f
      /\ from # to => Moved(f, from, to, 0)[from] = f[from] - 0 /\ Moved(f, from, to, 0)[to] = f[to] + 0
  BY <1>0, MovedIs
<1> DEFINE g == Moved(f, from, to, 0)
<1> HIDE DEF g
<1>2. ASSUME from # to, NEW x \in S PROVE g[x] = f[x]
  BY <1>1, <1>2 DEF g
<1> QED
  BY <1>1, <1>2 DEF g

(* A fee is paid into an account that is rent exempt with it, or it is     *)
(* zero.                                                                   *)
LEMMA PayFeeIs ==
  ASSUME NEW c, Fine(c), NEW from \in Wallets, from # Meta, NEW to \in Wallets, NEW fee \in Nat,
         NEW r, r = PayFee(c, from, to, fee)
  PROVE  /\ Outcome(c, r)
         /\ r.err = None => Paid(c, r.chain, from, to, fee) /\ (fee = 0 \/ c.lam[to] + fee >= MinRent(to))
<1> USE ChainAssumption
<1>1. c \in Chains /\ c.lam \in [Accounts -> Nat] /\ from \in Accounts /\ to \in Accounts
  BY DEF Fine, Chains, Accounts
<1>2. CASE fee = 0
  <2>1. r.err = None /\ r.chain = c
    BY <1>2 DEF PayFee, Ok
  <2>2. Moved(c.lam, from, to, 0) = c.lam /\ 0 <= c.lam[from]
    BY <1>1, MovedNothing
  <2> QED
    BY <1>2, <2>1, <2>2 DEF Outcome, Becomes, Paid
<1>3. CASE fee # 0 /\ c.lam[to] + fee < MinRent(to)
  <2>1. r = Fail("InsufficientRent", c)
    BY <1>3 DEF PayFee
  <2> QED
    BY <2>1 DEF Outcome, Becomes, Fail, Failures
<1>4. CASE fee # 0 /\ ~(c.lam[to] + fee < MinRent(to))
  <2>1. r = MoveLamports(c, from, to, fee)
    BY <1>4 DEF PayFee
  <2>2. Outcome(c, r)
    BY <1>1, <2>1, WalletPays
  <2>3. c.lam[to] + fee >= MinRent(to)
    BY <1>1, <1>4 DEF MinRent
  <2>4. r.err = None => Paid(c, r.chain, from, to, fee)
    BY <1>1, <2>1, MoveLamportsIs DEF Paid
  <2> QED
    BY <2>2, <2>3, <2>4
<1> QED
  BY <1>2, <1>3, <1>4

(* The parts of a bid.                                                     *)
PartsOf(c, ix) == BidSplit(ix.bid, RouterSplit(c, ix.router), c.meta.splitRelayer)

(* The parts of a bid on a fine chain are natural numbers that add up to   *)
(* it.                                                                     *)
LEMMA PartsAre ==
  ASSUME NEW c, Fine(c), c.meta # None, NEW ix \in BidInstructions, ix.op = "SubmitBid",
         NEW p, p = PartsOf(c, ix)
  PROVE  /\ p.router \in Nat /\ p.relayer \in Nat /\ p.program \in Nat
         /\ p.router + p.relayer + p.program = ix.bid
         /\ p.router = Share(ix.bid, RouterSplit(c, ix.router), Precision)
<1> DEFINE sr == RouterSplit(c, ix.router)
           sl == c.meta.splitRelayer
<1>1. ix.bid \in Nat /\ ix.router \in Wallets
  BY DEF BidInstructions
<1>2. sr \in Nat /\ ValidSplit(sr) /\ sl \in Nat /\ ValidSplit(sl)
  <2>1. c.meta.splitRouter \in Splits /\ c.meta.splitRelayer \in Splits
    BY DEF Fine, Chains, ExpressRelayMetadata
  <2>2. c.config[ix.router] \in Splits \cup {None}
    BY <1>1 DEF Fine, Chains
  <2> QED
    BY <2>1, <2>2, FeeAssumption DEF RouterSplit, Splits, ValidSplit
<1> HIDE DEF sr, sl
<1>3. LET b == BidSplit(ix.bid, sr, sl)
      IN  /\ b.router \in Nat /\ b.relayer \in Nat /\ b.program \in Nat
          /\ b.router + b.relayer + b.program = ix.bid
  BY <1>1, <1>2, SplitsAddUp
<1>4. BidSplit(ix.bid, sr, sl).router = Share(ix.bid, sr, Precision)
  BY DEF BidSplit
<1> QED
  BY <1>3, <1>4 DEF PartsOf, sr, sl

(* A bid is paid in three parts.                                           *)
BidPaid(c, d, ix) ==
  LET p == PartsOf(c, ix)
  IN  /\ ix.bid + RentWallet <= c.lam[ix.searcher]
      /\ \E c1, c2 : /\ Fine(c1) /\ Fine(c2)
                     /\ Paid(c, c1, ix.searcher, ix.router, p.router)
                     /\ p.router = 0 \/ c.lam[ix.router] + p.router >= MinRent(ix.router)
                     /\ Paid(c1, c2, ix.searcher, c.meta.feeReceiver, p.relayer)
                     /\ p.relayer = 0 \/ c1.lam[c.meta.feeReceiver] + p.relayer >= MinRent(c.meta.feeReceiver)
                     /\ Paid(c2, d, ix.searcher, Meta, p.program)

(* handle_bid_payment pays the three parts one after another, or fails.    *)
LEMMA PaymentIs ==
  ASSUME NEW c, Fine(c), c.meta # None,
         NEW ix \in BidInstructions, ix.op = "SubmitBid", ix.searcher # Meta,
         NEW r, r = HandleBidPayment(c, ix)
  PROVE  Outcome(c, r) /\ (r.err = None => BidPaid(c, r.chain, ix))
<1> USE ChainAssumption
<1> DEFINE p == PartsOf(c, ix)
           rest == Require(p.ok, "FeesHigherThanBid", None)
           err == Require(ix.bid + RentWallet <= c.lam[ix.searcher], "InsufficientSearcherFunds", rest)
           r1 == PayFee(c, ix.searcher, ix.router, p.router)
           r2 == PayFee(r1.chain, ix.searcher, c.meta.feeReceiver, p.relayer)
           r3 == MoveLamports(r2.chain, ix.searcher, Meta, p.program)
<1>1. r = IF err = None THEN (IF r1.err = None THEN (IF r2.err = None THEN r3 ELSE r2) ELSE r1) ELSE Fail(err, c)
  BY DEF HandleBidPayment, Guarded, Then, PartsOf
<1>2. rest \in Failures \cup {None}
  BY DEF Require, Failures
<1>3. err \in Failures \cup {None} /\ (err = None => ix.bid + RentWallet <= c.lam[ix.searcher])
  BY <1>2 DEF Require, Failures
<1>4. /\ ix.searcher \in Wallets /\ ix.router \in Wallets /\ c.meta.feeReceiver \in Wallets
      /\ ix.searcher \in Accounts /\ Meta \in Accounts
  BY DEF BidInstructions, Fine, Chains, ExpressRelayMetadata, Accounts
<1>5. p.router \in Nat /\ p.relayer \in Nat /\ p.program \in Nat
  BY PartsAre
<1> HIDE DEF p, rest, err
<1>6. CASE err # None
  <2> HIDE DEF r1, r2, r3
  <2>1. r = Fail(err, c) /\ err \in Failures
    BY <1>1, <1>3, <1>6
  <2>2. r.err = err
    BY <2>1 DEF Fail
  <2> QED
    BY <1>6, <2>1, <2>2, FailFine
<1>7. CASE err = None
  <2>1. /\ Outcome(c, r1)
        /\ r1.err = None => /\ Paid(c, r1.chain, ix.searcher, ix.router, p.router)
                            /\ p.router = 0 \/ c.lam[ix.router] + p.router >= MinRent(ix.router)
    BY <1>4, <1>5, PayFeeIs
  <2>2. Fine(r1.chain) /\ r1.chain.meta # None
    BY <2>1 DEF Outcome, Becomes
  <2>3. /\ Outcome(r1.chain, r2)
        /\ r2.err = None =>
              /\ Paid(r1.chain, r2.chain, ix.searcher, c.meta.feeReceiver, p.relayer)
              /\ p.relayer = 0 \/ r1.chain.lam[c.meta.feeReceiver] + p.relayer >= MinRent(c.meta.feeReceiver)
    <3> HIDE DEF r1
    <3> QED
      BY <1>4, <1>5, <2>2, PayFeeIs
  <2>4. Fine(r2.chain) /\ r2.chain.meta # None
    <3> HIDE DEF r1, r2
    <3> QED
      BY <2>2, <2>3 DEF Outcome, Becomes
  <2>5. Outcome(r2.chain, r3) /\ (r3.err = None => Paid(r2.chain, r3.chain, ix.searcher, Meta, p.program))
    <3> HIDE DEF r2
    <3>1. r2.chain \in Chains
      BY <2>4 DEF Fine
    <3> QED
      BY <1>4, <1>5, <2>4, <3>1, WalletPays, MoveLamportsIs DEF Paid
  <2> HIDE DEF r1, r2, r3
  <2>6. Outcome(c, r)
    BY <1>1, <1>7, <2>1, <2>2, <2>3, <2>4, <2>5 DEF Outcome, Becomes
  <2>7. ASSUME r.err = None PROVE BidPaid(c, r.chain, ix)
    <3>1. r1.err = None /\ r2.err = None /\ r3.err = None /\ r = r3
      BY <1>1, <1>7, <2>7
    <3> QED
      BY <1>3, <1>7, <2>1, <2>2, <2>3, <2>4, <2>5, <3>1 DEF BidPaid, p
  <2> QED
    BY <2>6, <2>7
<1> QED
  BY <1>6, <1>7

(* A bid that succeeds is no call of another program and the only bid of   *)
(* its transaction.                                                        *)
LEMMA SubmitBidIs ==
  ASSUME NEW c, Fine(c), NEW ix \in BidInstructions, ix.op = "SubmitBid", ix.searcher # Meta,
         NEW tx, NEW now_, NEW r, r = SubmitBid(c, tx, ix, now_)
  PROVE  /\ Outcome(c, r)
         /\ r.err = None => /\ c.meta # None /\ ~ix.cpi /\ Cardinality(SubmitBids(tx)) <= 1
                            /\ ix.feeReceiver = c.meta.feeReceiver
                            /\ BidPaid(c, r.chain, ix)
<1> DEFINE e4 == Require(Cardinality(SubmitBids(tx)) <= 1, "MultiplePermissions", None)
           e3 == Require(~ix.cpi, "InvalidCPISubmitBid", e4)
           e2 == Require(IsRelayer(c, ix.relayer), "ConstraintHasOne", e3)
           e1 == Require(ix.deadline >= now_, "DeadlinePassed", e2)
           err == Require(BidAccountsOk(c, ix), "ConstraintHasOne", e1)
           p == HandleBidPayment(c, ix)
<1> USE ChainAssumption
<1>1. r = IF err = None THEN p ELSE Fail(err, c)
  BY DEF SubmitBid, Guarded
<1>2. e4 \in Failures \cup {None} /\ (e4 = None => Cardinality(SubmitBids(tx)) <= 1)
  BY DEF Require, Failures
<1>3. e3 \in Failures \cup {None} /\ (e3 = None => e4 = None /\ ~ix.cpi)
  BY <1>2 DEF Require, Failures
<1> HIDE DEF e4, e3
<1>4. e1 \in Failures \cup {None} /\ (e1 = None => e3 = None)
  BY <1>3 DEF Require, Failures
<1> HIDE DEF e1
<1>5. err \in Failures \cup {None} /\ (err = None => e1 = None /\ BidAccountsOk(c, ix))
  BY <1>4 DEF Require, Failures
<1> HIDE DEF err
<1>6. CASE err # None
  <2> HIDE DEF p
  <2>1. r = Fail(err, c) /\ err \in Failures
    BY <1>1, <1>5, <1>6
  <2>2. r.err = err
    BY <2>1 DEF Fail
  <2> QED
    BY <1>6, <2>1, <2>2, FailFine
<1>7. CASE err = None
  <2>1. c.meta # None /\ ix.feeReceiver = c.meta.feeReceiver
    BY <1>5, <1>7 DEF BidAccountsOk
  <2>2. Outcome(c, p) /\ (p.err = None => BidPaid(c, p.chain, ix))
    BY <2>1, PaymentIs
  <2> HIDE DEF p
  <2> QED
    BY <1>1, <1>2, <1>3, <1>4, <1>5, <1>7, <2>1, <2>2
<1> QED
  BY <1>6, <1>7

(* check_permission changes nothing and fails where there is no bid.       *)
LEMMA CheckIs ==
  ASSUME NEW c, Fine(c), NEW ix, NEW tx, NEW r, r = CheckPermission(c, tx, ix)
  PROVE  /\ Outcome(c, r) /\ r.chain = c
         /\ r.err = None => Matching(tx, ix.permission, ix.router) # {}
BY ChainAssumption DEF CheckPermission, Ok, Fail, Failures, Outcome, Becomes

(***************************************************************************)
(* Swaps.                                                                  *)
(***************************************************************************)

(* No token account was closed.                                            *)
Kept(c, d) == \A a \in TokenAccounts : c.tok[a] # Closed => d.tok[a] # Closed

(* The checks on the account a fee of a swap goes to.                      *)
FeeAccountOk(c, to, owner, mint) == to[2] = mint /\ c.tok[to] # Closed /\ owner \in {None, to[1]}

(* A fee of a swap goes to an account that passed the checks on it, or is  *)
(* zero.                                                                   *)
LEMMA SwapFeeIs ==
  ASSUME NEW c, Fine(c), NEW from \in TokenAccounts, NEW to \in TokenAccounts,
         NEW owner, NEW fee \in Nat, c.tok[from] # Closed,
         NEW r, r = PaySwapFee(c, from, to, owner, from[2], fee)
  PROVE  /\ Outcome(c, r) /\ Kept(c, r.chain)
         /\ r.err = None => /\ TokensMoved(c, r.chain, from, to, fee)
                            /\ fee = 0 \/ FeeAccountOk(c, to, owner, from[2])
<1> DEFINE e3 == Require(to[2] = from[2], "ConstraintTokenMint", None)
           e2 == Require(owner \in {None, to[1]}, "ConstraintTokenOwner", e3)
           err == Require(c.tok[to] # Closed, "AccountNotInitialized", e2)
           m == MoveTokens(c, from, to, fee)
<1> USE ChainAssumption
<1>1. CASE fee = 0
  <2>1. r.err = None /\ r.chain = c
    BY <1>1 DEF PaySwapFee, Ok
  <2> QED
    BY <1>1, <2>1 DEF Outcome, Becomes, Kept, TokensMoved
<1>2. CASE fee # 0
  <2>1. r = IF err = None THEN m ELSE Fail(err, c)
    BY <1>2 DEF PaySwapFee, Guarded
  <2>2. e3 \in Failures \cup {None} /\ (e3 = None => to[2] = from[2])
    BY DEF Require, Failures
  <2>3. e2 \in Failures \cup {None} /\ (e2 = None => e3 = None /\ owner \in {None, to[1]})
    BY <2>2 DEF Require, Failures
  <2> HIDE DEF e3, e2
  <2>4. err \in Failures \cup {None} /\ (err = None => e2 = None /\ c.tok[to] # Closed)
    BY <2>3 DEF Require, Failures
  <2> HIDE DEF err
  <2>5. CASE err # None
    <3> HIDE DEF m
    <3>1. r = Fail(err, c) /\ err \in Failures
      BY <2>1, <2>4, <2>5
    <3>2. r.err = err /\ r.chain = c
      BY <3>1 DEF Fail
    <3> QED
      BY <2>5, <3>1, <3>2, FailFine DEF Kept
  <2>6. CASE err = None
    <3>1. to[2] = from[2] /\ c.tok[to] # Closed /\ owner \in {None, to[1]} /\ r = m
      BY <2>1, <2>2, <2>3, <2>4, <2>6
    <3>2. /\ Outcome(c, m)
          /\ m.err = None => TokensMoved(c, m.chain, from, to, fee)
          /\ \A a \in TokenAccounts : c.tok[a] # Closed => m.chain.tok[a] # Closed
      BY <3>1, TokensPay
    <3> HIDE DEF m
    <3> QED
      BY <3>1, <3>2 DEF Kept, FeeAccountOk
  <2> QED
    BY <2>5, <2>6
<1> QED
  BY <1>1, <1>2
(* A swap moves tokens five times: three fees, then the amounts.           *)
FeePayer(ix, args) == IF args.feeToken = "searcher" THEN SearcherSource(ix) ELSE UserSource(ix)

(* What a side's amount is once the fees are taken of it, if they are      *)
(* taken of it.                                                            *)
RestOf(args, fees, side) ==
  IF args.feeToken = side THEN fees.remaining
  ELSE IF side = "searcher" THEN args.amountSearcher ELSE args.amountUser

(* Chains after each of the five transfers.                                *)
SwapPaid(c, d, ix, args, fees) ==
  LET payer == FeePayer(ix, args)
      relayerAccount == <<ix.feeReceiver, ix.mintFee>>
      programAccount == <<Meta, ix.mintFee>>
  IN  \E c1, c2, c3, c4 :
        /\ Fine(c1) /\ Fine(c2) /\ Fine(c3) /\ Fine(c4)
        /\ TokensMoved(c, c1, payer, ix.routerAccount, fees.router)
        /\ fees.router # 0 => ix.routerAccount[2] = ix.mintFee
        /\ TokensMoved(c1, c2, payer, relayerAccount, fees.relayer)
        /\ fees.relayer # 0 => ix.feeReceiver = c.meta.feeReceiver
        /\ TokensMoved(c2, c3, payer, programAccount, fees.program)
        /\ TokensMoved(c3, c4, SearcherSource(ix), UserTarget(ix), RestOf(args, fees, "searcher"))
        /\ TokensMoved(c4, d, UserSource(ix), SearcherTarget(ix), RestOf(args, fees, "user"))

(* The fees of a swap are amounts.                                         *)
Amounts(fees) == {fees.router, fees.relayer, fees.program, fees.remaining} \subseteq Nat

(* The five transfers of a swap happen one after another, or it fails.     *)
LEMMA PaySwapIs ==
  ASSUME NEW c, Fine(c), NEW ix \in SwapInstructions, SwapAccountsExist(c, ix), ix.mintFee = MintOfFee(ix),
         NEW args \in SwapArguments, args.feeToken = ix.args.feeToken,
         NEW fees, Amounts(fees),
         NEW r, r = PaySwap(c, ix, args, fees)
  PROVE  Outcome(c, r) /\ (r.err = None => SwapPaid(c, r.chain, ix, args, fees))
<1> USE ChainAssumption
<1> DEFINE payer == FeePayer(ix, args)
           relayerAccount == <<ix.feeReceiver, ix.mintFee>>
           programAccount == <<Meta, ix.mintFee>>
           ss == SearcherSource(ix)  st == SearcherTarget(ix)
           us == UserSource(ix)      ut == UserTarget(ix)
           fromSearcher == RestOf(args, fees, "searcher")
           fromUser == RestOf(args, fees, "user")
           r1 == PaySwapFee(c, payer, ix.routerAccount, None, ix.mintFee, fees.router)
           r2 == PaySwapFee(r1.chain, payer, relayerAccount, c.meta.feeReceiver, ix.mintFee, fees.relayer)
           r3 == PaySwapFee(r2.chain, payer, programAccount, Meta, ix.mintFee, fees.program)
           r4 == MoveTokens(r3.chain, ss, ut, fromSearcher)
           r5 == MoveTokens(r4.chain, us, st, fromUser)
<1>1. r = IF r1.err = None THEN (IF r2.err = None THEN (IF r3.err = None THEN
             (IF r4.err = None THEN r5 ELSE r4) ELSE r3) ELSE r2) ELSE r1
  BY DEF PaySwap, Then, FeePayer, RestOf
<1>2. /\ {ss, st, us, ut} \subseteq TokenAccounts
      /\ relayerAccount \in TokenAccounts /\ programAccount \in TokenAccounts /\ ix.routerAccount \in TokenAccounts
      /\ ss[2] = ut[2] /\ us[2] = st[2]
  BY DEF SwapInstructions, TokenAccounts, SearcherSource, SearcherTarget, UserSource, UserTarget
<1>3. /\ payer \in {ss, us} /\ payer[2] = ix.mintFee
      /\ relayerAccount[1] = ix.feeReceiver /\ relayerAccount[2] = ix.mintFee /\ programAccount[2] = ix.mintFee
  BY DEF SwapArguments, MintOfFee, FeePayer, SearcherSource, UserSource
<1>4. /\ fees.router \in Nat /\ fees.relayer \in Nat /\ fees.program \in Nat
      /\ fromSearcher \in Nat /\ fromUser \in Nat
  BY DEF Amounts, SwapArguments, RestOf
<1>5. c.tok[ss] # Closed /\ c.tok[st] # Closed /\ c.tok[us] # Closed /\ c.tok[ut] # Closed
  BY DEF SwapAccountsExist
<1> DEFINE Open(d) == d.tok[ss] # Closed /\ d.tok[us] # Closed
<1>6. ASSUME NEW d, NEW e, Open(d), Kept(d, e) PROVE Open(e)
  BY <1>2, <1>6 DEF Kept
<1>7. ASSUME NEW d, Open(d) PROVE d.tok[payer] # Closed
  BY <1>3, <1>7
<1>8. Open(c)
  BY <1>5
<1> HIDE DEF payer, relayerAccount, programAccount, ss, st, us, ut, fromSearcher, fromUser, Open, r1, r2, r3, r4, r5
<1>11. /\ Outcome(c, r1) /\ Kept(c, r1.chain)
       /\ r1.err = None => /\ TokensMoved(c, r1.chain, payer, ix.routerAccount, fees.router)
                           /\ fees.router # 0 => ix.routerAccount[2] = payer[2]
  <2>1. r1 = PaySwapFee(c, payer, ix.routerAccount, None, payer[2], fees.router)
    BY <1>3 DEF r1
  <2>2. payer \in TokenAccounts /\ c.tok[payer] # Closed
    BY <1>2, <1>3, <1>7, <1>8
  <2> DEFINE fee == fees.router
             to == ix.routerAccount
             owner == None
  <2>3. fee \in Nat /\ to \in TokenAccounts /\ r1 = PaySwapFee(c, payer, to, owner, payer[2], fee)
    BY <1>2, <1>4, <2>1
  <2> HIDE DEF fee, to, owner
  <2>4. /\ Outcome(c, r1) /\ Kept(c, r1.chain)
        /\ r1.err = None => /\ TokensMoved(c, r1.chain, payer, to, fee)
                            /\ fee = 0 \/ FeeAccountOk(c, to, owner, payer[2])
    BY <2>2, <2>3, SwapFeeIs
  <2> QED
    BY <2>4 DEF fee, to, FeeAccountOk
<1>12. Fine(r1.chain) /\ Open(r1.chain)
  BY <1>6, <1>8, <1>11 DEF Outcome, Becomes
<1>21. /\ Outcome(r1.chain, r2) /\ Kept(r1.chain, r2.chain)
       /\ r2.err = None => /\ TokensMoved(r1.chain, r2.chain, payer, relayerAccount, fees.relayer)
                           /\ fees.relayer # 0 => c.meta.feeReceiver \in {None, relayerAccount[1]}
  <2>1. r2 = PaySwapFee(r1.chain, payer, relayerAccount, c.meta.feeReceiver, payer[2], fees.relayer)
    BY <1>3 DEF r2
  <2>2. payer \in TokenAccounts /\ r1.chain.tok[payer] # Closed
    BY <1>2, <1>3, <1>7, <1>12
  <2> DEFINE d == r1.chain
             fee == fees.relayer
             owner == c.meta.feeReceiver
  <2>3. fee \in Nat /\ Fine(d) /\ r2 = PaySwapFee(d, payer, relayerAccount, owner, payer[2], fee)
    BY <1>4, <1>12, <2>1
  <2> HIDE DEF d, fee, owner
  <2>4. /\ Outcome(d, r2) /\ Kept(d, r2.chain)
        /\ r2.err = None => /\ TokensMoved(d, r2.chain, payer, relayerAccount, fee)
                            /\ fee = 0 \/ FeeAccountOk(d, relayerAccount, owner, payer[2])
    BY <1>2, <2>2, <2>3, SwapFeeIs DEF d
  <2> QED
    BY <2>4 DEF d, fee, owner, FeeAccountOk
<1>22. Fine(r2.chain) /\ Open(r2.chain)
  BY <1>6, <1>12, <1>21 DEF Outcome, Becomes
<1>31. /\ Outcome(r2.chain, r3) /\ Kept(r2.chain, r3.chain)
       /\ r3.err = None => TokensMoved(r2.chain, r3.chain, payer, programAccount, fees.program)
  <2>1. r3 = PaySwapFee(r2.chain, payer, programAccount, Meta, payer[2], fees.program)
    BY <1>3 DEF r3
  <2>2. payer \in TokenAccounts /\ r2.chain.tok[payer] # Closed
    BY <1>2, <1>3, <1>7, <1>22
  <2> QED
    BY <1>2, <1>4, <1>22, <2>1, <2>2, SwapFeeIs
<1>32. Fine(r3.chain) /\ Open(r3.chain)
  BY <1>6, <1>22, <1>31 DEF Outcome, Becomes
<1>41. /\ Outcome(r3.chain, r4) /\ Kept(r3.chain, r4.chain)
       /\ r4.err = None => TokensMoved(r3.chain, r4.chain, ss, ut, fromSearcher)
  <2>1. r3.chain.tok[ss] # Closed
    BY <1>32 DEF Open
  <2> QED
    BY <1>2, <1>4, <1>32, <2>1, TokensPay DEF r4, Kept
<1>42. Fine(r4.chain) /\ Open(r4.chain)
  BY <1>6, <1>32, <1>41 DEF Outcome, Becomes
<1>51. /\ Outcome(r4.chain, r5)
       /\ r5.err = None => TokensMoved(r4.chain, r5.chain, us, st, fromUser)
  <2>1. r4.chain.tok[us] # Closed
    BY <1>42 DEF Open
  <2> QED
    BY <1>2, <1>4, <1>42, <2>1, TokensPay DEF r5
<1>61. Outcome(c, r)
  BY <1>1, <1>11, <1>21, <1>31, <1>41, <1>51 DEF Outcome, Becomes
<1>62. ASSUME r.err = None PROVE SwapPaid(c, r.chain, ix, args, fees)
  <2>1. r1.err = None /\ r2.err = None /\ r3.err = None /\ r4.err = None /\ r5.err = None /\ r = r5
    BY <1>1, <1>62
  <2>2. fees.router # 0 => ix.routerAccount[2] = ix.mintFee
    BY <1>3, <1>11, <2>1
  <2>3. fees.relayer # 0 => ix.feeReceiver = c.meta.feeReceiver
    <3>1. c.meta.feeReceiver # None
      <4>1. c.meta \in ExpressRelayMetadata
        BY DEF SwapAccountsExist, Fine, Chains
      <4> QED
        BY <4>1 DEF ExpressRelayMetadata
    <3> QED
      BY <1>3, <1>21, <2>1, <3>1
  <2> QED
    BY <1>11, <1>12, <1>21, <1>22, <1>31, <1>32, <1>41, <1>42, <1>51, <2>1, <2>2, <2>3
       DEF SwapPaid, payer, relayerAccount, programAccount, ss, st, us, ut, fromSearcher, fromUser
<1> QED
  BY <1>61, <1>62

(* The arguments of the first version of the instruction in parts per      *)
(* million are arguments.                                                  *)
LEMMA ArgsAre ==
  ASSUME NEW ix \in SwapInstructions, NEW bps \in Splits, NEW args, args = SwapArgs(bps, ix)
  PROVE  args \in SwapArguments /\ args.feeToken = ix.args.feeToken
<1>1. ix.args \in SwapArguments
  BY DEF SwapInstructions
<1>2. ix.args.referral * BpsToPpm \in Nat /\ bps * BpsToPpm \in Nat
  BY <1>1, FeeAssumption DEF SwapArguments, Splits
<1> QED
  BY <1>1, <1>2 DEF SwapArgs, SwapArguments

(* Fees that are accepted on a fine chain add up to the amount they are    *)
(* taken of.                                                               *)
LEMMA FeesAre ==
  ASSUME NEW c, Fine(c), c.meta # None, NEW args \in SwapArguments, NEW fees, fees = FeesOf(c, args), fees.ok
  PROVE  /\ Amounts(fees)
         /\ fees.router + fees.relayer + fees.program + fees.remaining
              = IF args.feeToken = "searcher" THEN args.amountSearcher ELSE args.amountUser
<1> DEFINE amount == IF args.feeToken = "searcher" THEN args.amountSearcher ELSE args.amountUser
           referral == args.referral
           platform == args.platform
           sl == c.meta.splitRelayer
<1>1. amount \in Nat /\ referral \in Nat /\ platform \in Nat
  BY DEF SwapArguments
<1>2. sl \in Nat /\ ValidSplit(sl)
  BY FeeAssumption DEF Fine, Chains, ExpressRelayMetadata, Splits, ValidSplit
<1>3. fees = SwapFees(amount, referral, platform, sl)
  BY DEF FeesOf
<1> HIDE DEF amount, referral, platform, sl
<1>4. LET f == SwapFees(amount, referral, platform, sl)
      IN  /\ {f.router, f.relayer, f.program, f.remaining} \subseteq Nat
          /\ f.router + f.relayer + f.program + f.remaining = amount
  <2>1. SwapFees(amount, referral, platform, sl).ok
    BY <1>3
  <2> QED
    BY <1>1, <1>2, <2>1, SwapFeesAddUp
<1> QED
  BY <1>3, <1>4 DEF Amounts, amount

(* What a swap that succeeds has paid.                                     *)
SwapDone(c, d, ix) ==
  LET args == SwapArgs(c.meta.platformBps, ix)
      fees == FeesOf(c, args)
  IN  /\ c.meta # None /\ fees.ok /\ ix.mintFee = MintOfFee(ix)
      /\ SwapPaid(c, d, ix, args, fees)

(* A swap fails, or takes accepted fees and makes its five transfers.      *)
LEMMA SwapIs ==
  ASSUME NEW c, Fine(c), NEW ix \in SwapInstructions, NEW n, NEW r, r = Swap(c, ix, n)
  PROVE  Outcome(c, r) /\ (r.err = None => SwapDone(c, r.chain, ix))
<1> USE ChainAssumption
<1> DEFINE args == SwapArgs(c.meta.platformBps, ix)
           fees == FeesOf(c, args)
           e4 == Require(fees.ok, "ArithmeticOverflow", None)
           e3 == Require(IsRelayer(c, ix.relayer), "ConstraintHasOne", e4)
           e2 == Require(args.deadline >= n, "DeadlinePassed", e3)
           err == Require(ix.mintFee = MintOfFee(ix), "ConstraintRaw", e2)
           b2 == Require(c.tok[UserSource(ix)] >= args.amountUser, "InsufficientUserFunds", None)
           bal == EnoughBalances(c, ix, args)
           p == PaySwap(c, ix, args, fees)
<1>1. CASE ~SwapAccountsExist(c, ix)
  <2>1. r = Fail("AccountNotInitialized", c)
    BY <1>1 DEF Swap
  <2> QED
    BY <2>1 DEF Outcome, Becomes, Fail, Failures
<1>2. CASE SwapAccountsExist(c, ix)
  <2>1. r = IF err = None THEN (IF bal = None THEN p ELSE Fail(bal, c)) ELSE Fail(err, c)
    BY <1>2 DEF Swap, Guarded
  <2>2. e4 \in Failures \cup {None} /\ (e4 = None => fees.ok)
    BY DEF Require, Failures
  <2>3. c.meta # None /\ c.meta.platformBps \in Splits
    BY <1>2 DEF SwapAccountsExist, Fine, Chains, ExpressRelayMetadata
  <2>4. args \in SwapArguments /\ args.feeToken = ix.args.feeToken
    BY <2>3, ArgsAre
  <2> HIDE DEF e4
  <2>5. e2 \in Failures \cup {None} /\ (e2 = None => e4 = None)
    BY <2>2 DEF Require, Failures
  <2> HIDE DEF e2
  <2>6. err \in Failures \cup {None} /\ (err = None => e2 = None /\ ix.mintFee = MintOfFee(ix))
    BY <2>5 DEF Require, Failures
  <2> HIDE DEF err
  <2>7. b2 \in Failures \cup {None}
    BY DEF Require, Failures
  <2>8. bal \in Failures \cup {None}
    BY <2>7 DEF EnoughBalances, Require, Failures
  <2> HIDE DEF bal
  <2>9. err = None => Outcome(c, p) /\ (p.err = None => SwapDone(c, p.chain, ix))
    <3> SUFFICES ASSUME err = None PROVE Outcome(c, p) /\ (p.err = None => SwapDone(c, p.chain, ix))
      OBVIOUS
    <3>1. fees.ok /\ ix.mintFee = MintOfFee(ix)
      BY <2>2, <2>5, <2>6
    <3>2. Amounts(fees)
      <4> HIDE DEF args
      <4> QED
        BY <2>3, <2>4, <3>1, FeesAre
    <3> HIDE DEF args, fees
    <3>3. Outcome(c, p) /\ (p.err = None => SwapPaid(c, p.chain, ix, args, fees))
      BY <1>2, <2>4, <3>1, <3>2, PaySwapIs
    <3> HIDE DEF p
    <3> QED
      BY <2>3, <3>1, <3>3 DEF SwapDone, args, fees
  <2> HIDE DEF p, args, fees
  <2>10. CASE err # None
    <3>1. r = Fail(err, c) /\ err \in Failures
      BY <2>1, <2>6, <2>10
    <3>2. r.err = err
      BY <3>1 DEF Fail
    <3> QED
      BY <2>10, <3>1, <3>2, FailFine
  <2>11. CASE err = None /\ bal # None
    <3>1. r = Fail(bal, c) /\ bal \in Failures
      BY <2>1, <2>8, <2>11
    <3>2. r.err = bal
      BY <3>1 DEF Fail
    <3> QED
      BY <2>11, <3>1, <3>2, FailFine
  <2>12. CASE err = None /\ bal = None
    BY <2>1, <2>9, <2>12
  <2> QED
    BY <2>10, <2>11, <2>12
<1> QED
  BY <1>1, <1>2
(***************************************************************************)
(* Transactions.                                                           *)
(***************************************************************************)

(* Any instruction, if the metadata account is not to sign it.             *)
LEMMA StepFine ==
  ASSUME NEW memos, NEW c, Fine(c), NEW ix \in Instructions(memos), Meta \notin SignersOf(ix), NEW tx, NEW n
  PROVE  Outcome(c, Step(c, tx, ix, n))
<1>1. CASE ix \in TokenInstructions
  <2>1. CASE ix.op = "CreateAta"
    <3>1. ix.payer # Meta
      BY <2>1 DEF SignersOf
    <3>2. Step(c, tx, ix, n) = CreateAta(c, ix)
      BY <2>1 DEF Step
    <3> QED
      BY <1>1, <2>1, <3>1, <3>2, CreateAtaFine
  <2>2. CASE ix.op = "SyncNative"
    <3>1. Step(c, tx, ix, n) = SyncNative(c, ix)
      BY <2>2 DEF Step
    <3> QED
      BY <1>1, <2>2, <3>1, SyncNativeFine
  <2>3. CASE ix.op = "CloseAccount"
    <3>1. Step(c, tx, ix, n) = CloseAccount(c, ix)
      BY <2>3 DEF Step
    <3>2. ix.account \in TokenAccounts /\ ix.destination \in Accounts
      BY <1>1, <2>3 DEF TokenInstructions
    <3> QED
      BY <3>1, <3>2, CloseAccountFine
  <2> QED
    BY <1>1, <2>1, <2>2, <2>3 DEF TokenInstructions
<1>2. CASE ix \in SystemInstructions
  <2>1. ix.op = "Transfer"
    BY <1>2 DEF SystemInstructions
  <2>2. ix.from # Meta
    BY <2>1 DEF SignersOf
  <2>3. Step(c, tx, ix, n) = MoveLamports(c, ix.from, ix.to, ix.lamports)
    BY <2>1 DEF Step
  <2> QED
    BY <1>2, <2>2, <2>3, TransferFine
<1>3. CASE ix \in BidInstructions
  <2>1. CASE ix.op = "SubmitBid"
    <3>1. ix.searcher # Meta
      BY <2>1 DEF SignersOf
    <3>2. Step(c, tx, ix, n) = SubmitBid(c, tx, ix, n)
      BY <2>1 DEF Step
    <3> QED
      BY <1>3, <2>1, <3>1, <3>2, SubmitBidIs
  <2>2. CASE ix.op = "Check"
    <3>1. Step(c, tx, ix, n) = CheckPermission(c, tx, ix)
      BY <2>2 DEF Step
    <3> QED
      BY <3>1, CheckIs
  <2> QED
    BY <1>3, <2>1, <2>2 DEF BidInstructions
<1>4. CASE ix \in SwapInstructions
  <2>1. ix.op \in {"Swap", "SwapV2"}
    BY <1>4 DEF SwapInstructions
  <2>2. Step(c, tx, ix, n) = Swap(c, ix, n)
    BY <2>1 DEF Step
  <2> QED
    BY <1>4, <2>2, SwapIs
<1>5. CASE ix \in AdminInstructions
  <2>1. ix.op = "Admin"
    BY <1>5 DEF AdminInstructions
  <2>2. ix.by # Meta
    BY <2>1 DEF SignersOf
  <2>3. Step(c, tx, ix, n) = AdminIx(c, ix)
    BY <2>1 DEF Step
  <2> QED
    BY <1>5, <2>2, <2>3, AdminFine
<1>6. CASE ix.op \in {"Memo", "SetComputeUnitPrice"}
  <2>1. Step(c, tx, ix, n) = Ok(c)
    BY <1>6 DEF Step
  <2> QED
    BY <2>1 DEF Ok, Outcome, Becomes
<1> QED
  BY <1>1, <1>2, <1>3, <1>4, <1>5, <1>6 DEF Instructions

(* The states of a run, and the run itself: the first, and then one        *)
(* instruction after another.                                              *)
RunStates == [err : Failures \cup {None}, chain : {c \in Chains : Fine(c)}, at : Nat]
RunsBy(run, c, tx, n) ==
  /\ run[0] = [err |-> None, chain |-> c, at |-> 0]
  /\ \A i \in 1..Len(tx.ixs) : run[i] = Executed(run[i - 1], tx, i, n)

(* The instructions of a transaction, and that the metadata account signs  *)
(* none.                                                                   *)
LEMMA TransactionIs ==
  ASSUME NEW memos, NEW tx \in Transactions(memos)
  PROVE  /\ Len(tx.ixs) \in Nat /\ DOMAIN tx.ixs = 1..Len(tx.ixs)
         /\ \A i \in 1..Len(tx.ixs) : tx.ixs[i] \in Instructions(memos)
         /\ Meta \notin tx.signers
<1> DEFINE I == Instructions(memos)
<1>1. tx.ixs \in Seq(I) /\ tx.signers \in SUBSET (Wallets \ {Meta})
  BY DEF Transactions
<1> HIDE DEF I
<1>2. Len(tx.ixs) \in Nat /\ DOMAIN tx.ixs = 1..Len(tx.ixs) /\ \A i \in 1..Len(tx.ixs) : tx.ixs[i] \in I
  BY <1>1
<1> QED
  BY <1>1, <1>2 DEF I

(* One instruction of a run.                                               *)
LEMMA ExecutedFine ==
  ASSUME NEW memos, NEW tx \in Transactions(memos), NEW n, NEW i \in 1..Len(tx.ixs), NEW st \in RunStates
  PROVE  /\ Executed(st, tx, i, n) \in RunStates
         /\ st.chain.meta # None => Executed(st, tx, i, n).chain.meta # None
<1> DEFINE ix == tx.ixs[i]
           r == IF SignersOf(ix) \subseteq tx.signers THEN Step(st.chain, tx, ix, n)
                ELSE Fail("MissingSignature", st.chain)
<1>1. Executed(st, tx, i, n) = IF st.err # None THEN st ELSE [err |-> r.err, chain |-> r.chain, at |-> i]
  BY DEF Executed
<1>2. Fine(st.chain)
  BY DEF RunStates
<1>3. Outcome(st.chain, r)
  <2>1. CASE SignersOf(ix) \subseteq tx.signers
    <3>1. ix \in Instructions(memos) /\ Meta \notin SignersOf(ix)
      BY <2>1, TransactionIs
    <3> HIDE DEF ix
    <3> QED
      BY <1>2, <2>1, <3>1, StepFine
  <2>2. CASE ~(SignersOf(ix) \subseteq tx.signers)
    <3>1. "MissingSignature" \in Failures
      BY DEF Failures
    <3> QED
      BY <1>2, <2>2, <3>1, FailFine
  <2> QED
    BY <2>1, <2>2
<1> HIDE DEF r
<1>4. [err |-> r.err, chain |-> r.chain, at |-> i] \in RunStates
  BY <1>3 DEF RunStates, Outcome, Becomes, Fine
<1> QED
  BY <1>1, <1>3, <1>4 DEF Outcome, Becomes

(* The recursion of Run has a solution, and every state of it is one of    *)
(* RunStates.                                                              *)
LEMMA RunIs ==
  ASSUME NEW memos, NEW tx \in Transactions(memos), NEW c, Fine(c), NEW n
  PROVE  /\ Run(c, tx, n) \in [0..Len(tx.ixs) -> RunStates]
         /\ RunsBy(Run(c, tx, n), c, tx, n)
<1> DEFINE L == Len(tx.ixs)
           T == RunStates
           base == [err |-> None, chain |-> c, at |-> 0]
           next(i, st) == Executed(st, tx, i, n)
           step == [p \in (1..L) \X T |-> next(p[1], p[2])]
           Is(f) == f = [i \in 0..L |-> IF i = 0 THEN base ELSE next(i, f[i - 1])]
<1>1. L \in Nat
  BY TransactionIs
<1>2. base \in T
  BY DEF RunStates, Fine
<1>3. ASSUME NEW i \in 1..L, NEW st \in T PROVE next(i, st) \in T
  BY ExecutedFine
<1>4. /\ step \in [(1..L) \X T -> T]
      /\ \A i \in 1..L : \A st \in T : step[<<i, st>>] = next(i, st)
  <2> HIDE DEF T, next, L
  <2> QED
    BY <1>3
<1>5. PICK g \in [0..L -> T] : StepsBy(g, L, base, step)
  <2> HIDE DEF T, base, step, L
  <2> QED
    BY <1>1, <1>2, <1>4, RecursionUpTo
<1>6. ASSUME NEW i \in 1..L PROVE g[i] = next(i, g[i - 1])
  <2> HIDE DEF T, base, step, next, L
  <2>1. i - 1 \in 0..L
    BY <1>1
  <2> QED
    BY <1>4, <1>5, <2>1 DEF StepsBy
<1>7. Is(g)
  <2>1. ASSUME NEW i \in 0..L
        PROVE  g[i] = IF i = 0 THEN base ELSE next(i, g[i - 1])
    <3> HIDE DEF T, base, step, next, L
    <3>1. i # 0 => i \in 1..L
      BY <1>1
    <3> QED
      BY <1>5, <1>6, <3>1 DEF StepsBy
  <2> HIDE DEF base, next, L
  <2> QED
    BY <2>1
<1> DEFINE f == Run(c, tx, n)
<1>8. Is(f)
  BY <1>7 DEF Run
<1> HIDE DEF step, f, T
<1>9. f[0] = base
  <2>1. 0 \in 0..L
    BY <1>1
  <2> HIDE DEF base, next, L
  <2> QED
    BY <1>8, <2>1
<1>10. ASSUME NEW i \in 1..L PROVE f[i] = next(i, f[i - 1])
  <2>1. i \in 0..L /\ i # 0
    BY <1>1
  <2> HIDE DEF base, next, L
  <2> QED
    BY <1>8, <2>1
<1> DEFINE Good == {i \in 0..L : f[i] \in T}
<1>11. 0..L \subseteq Good
  <2>1. 0 \in Good
    <3>1. f[0] \in T
      BY <1>2, <1>9
    <3> HIDE DEF base, next, L
    <3> QED
      BY <1>1, <3>1
  <2>2. ASSUME NEW i \in 0..(L - 1), i \in Good PROVE i + 1 \in Good
    <3> HIDE DEF base, next, L
    <3>1. i + 1 \in 1..L /\ i + 1 \in 0..L /\ (i + 1) - 1 = i
      BY <1>1
    <3>2. f[i] \in T
      BY <2>2
    <3>3. f[i + 1] = next(i + 1, f[i])
      BY <1>10, <3>1
    <3>4. f[i + 1] \in T
      BY <1>3, <3>1, <3>2, <3>3
    <3> QED
      BY <3>1, <3>4
  <2> HIDE DEF Good, L
  <2> QED
    BY <1>1, <2>1, <2>2, InductionUpTo
<1>12. f = [i \in 0..L |-> f[i]]
  <2> HIDE DEF base, next, L
  <2> QED
    BY <1>8
<1>13. f \in [0..L -> T]
  <2> HIDE DEF L
  <2> QED
    BY <1>11, <1>12
<1> QED
  BY <1>9, <1>10, <1>13 DEF RunsBy, f, T

(* A program that is initialized stays so.                                 *)
LEMMA RunKeepsMeta ==
  ASSUME NEW memos, NEW tx \in Transactions(memos), NEW c, Fine(c), c.meta # None, NEW n,
         NEW i \in 0..Len(tx.ixs)
  PROVE  Run(c, tx, n)[i].chain.meta # None
<1> DEFINE L == Len(tx.ixs)
           f == Run(c, tx, n)
           Good == {k \in 0..L : f[k].chain.meta # None}
<1>1. L \in Nat
  BY TransactionIs
<1>2. f \in [0..L -> RunStates] /\ RunsBy(f, c, tx, n)
  BY RunIs
<1> HIDE DEF f
<1>3. 0 \in Good
  BY <1>1, <1>2 DEF RunsBy
<1>4. ASSUME NEW k \in 0..(L - 1), k \in Good PROVE k + 1 \in Good
  <2>1. k + 1 \in 1..L /\ k + 1 \in 0..L /\ (k + 1) - 1 = k /\ f[k] \in RunStates
    BY <1>1, <1>2
  <2>2. f[k + 1] = Executed(f[k], tx, k + 1, n)
    BY <1>2, <2>1 DEF RunsBy
  <2>3. f[k].chain.meta # None
    BY <1>4
  <2>4. f[k + 1].chain.meta # None
    BY <2>1, <2>2, <2>3, ExecutedFine
  <2> QED
    BY <2>1, <2>4
<1>5. 0..L \subseteq Good
  <2> HIDE DEF Good, L
  <2> QED
    BY <1>1, <1>3, <1>4, InductionUpTo
<1> QED
  BY <1>5 DEF f

(* A transaction leaves a fine chain fine.                                 *)
LEMMA ExecuteFine ==
  ASSUME NEW memos, NEW tx \in Transactions(memos), NEW c, Fine(c), NEW n, NEW r, r = Execute(c, tx, n)
  PROVE  /\ Outcome(c, r)
         /\ r.err = None => r.chain = Run(c, tx, n)[Len(tx.ixs)].chain /\ Run(c, tx, n)[Len(tx.ixs)].err = None
         /\ r.err # None => r.chain = c
<1> DEFINE L == Len(tx.ixs)
           st == Run(c, tx, n)[L]
<1>1. L \in 0..L
  BY TransactionIs
<1>2. st \in RunStates
  <2>1. Run(c, tx, n) \in [0..L -> RunStates]
    BY RunIs
  <2> HIDE DEF L
  <2> QED
    BY <1>1, <2>1
<1>3. c.meta # None => st.chain.meta # None
  BY <1>1, RunKeepsMeta
<1>4. r = IF st.err = None THEN st ELSE [st EXCEPT !.chain = c]
  BY DEF Execute
<1> HIDE DEF st
<1>5. st.err # None => r.err = st.err /\ r.chain = c
  BY <1>2, <1>4 DEF RunStates
<1> QED
  BY <1>2, <1>3, <1>4, <1>5 DEF RunStates, Outcome, Becomes, Fine, st
(***************************************************************************)
(* Quotes.                                                                 *)
(***************************************************************************)

(* The sides of a swap.                                                    *)
Sides == {"user", "searcher"}

(* What a searcher's transaction takes of an opportunity.                  *)
OpportunityOk(opp) ==
  /\ opp.user \in Wallets \ {Meta} /\ opp.router \in Wallets /\ opp.memo \in Memos
  /\ opp.feeToken \in Sides
  /\ opp.mintUser \in Mints /\ opp.mintSearcher \in Mints
  /\ opp.referral \in Nat /\ opp.platform \in Nat
  /\ opp.amountUser \in Nat /\ opp.amountSearcher \in Nat /\ opp.balance \in Nat

(* The amounts of a quote and the amount with the fees in it are natural   *)
(* numbers, if nothing overflows.                                          *)
LEMMA WithFeesIs ==
  ASSUME NEW amount \in Nat, NEW referral \in Nat, NEW platform \in Nat, LeftByFees(referral, platform) # 0
  PROVE  WithFees(amount, referral, platform) \in Nat
<1> DEFINE n == Wrap(amount * PrecisionPpm)
           d == LeftByFees(referral, platform)
<1>1. PrecisionPpm \in Nat
  BY FeeAssumption DEF PrecisionPpm
<1>2. MaxU64 + 1 \in Nat \ {0}
  BY FeeAssumption
<1>3. amount * PrecisionPpm \in Nat /\ PrecisionPpm - referral - platform \in Int
  BY <1>1
<1>4. n \in Nat /\ d \in Nat
  BY <1>2, <1>3 DEF Wrap, LeftByFees
<1>5. WithFees(amount, referral, platform) = (n + d - 1) \div d
  BY DEF WithFees, DivCeil
<1> HIDE DEF n, d
<1>6. d >= 1 /\ n + d - 1 \in Nat
  BY <1>4 DEF d
<1> QED
  BY <1>4, <1>5, <1>6

(* An opportunity that get_quote creates is one.                           *)
LEMMA QuoteIs ==
  ASSUME NEW c, Fine(c), NEW m \in ExpressRelayMetadata, NEW q \in Requests, NEW n,
         NEW opp, opp = Opportunity(c, m, q, n), opp # None
  PROVE  OpportunityOk(opp)
<1> USE ChainAssumption, QuoteAssumption, MarketAssumption
<1> DEFINE platform == PlatformPpm(m, q)
           amounts == QuotedAmounts(q, platform)
           user == IF q.user = None THEN IndicativeTaker ELSE q.user
           balance == IF q.user = None THEN 0 ELSE UserBalance(c, q)
<1>1. ValidQuote(q) /\ amounts.ok
  BY DEF Opportunity
<1>2. /\ opp.user = user /\ opp.balance = balance /\ opp.router = RouterOf(q) /\ opp.memo = q.memo
      /\ opp.feeToken = FeeToken(q) /\ opp.mintUser = q.mintUser /\ opp.mintSearcher = q.mintSearcher
      /\ opp.referral = ReferralOf(q) /\ opp.platform = platform
      /\ opp.amountUser = amounts.user /\ opp.amountSearcher = amounts.searcher
  BY <1>1 DEF Opportunity
<1>3. q.mintUser \in Whitelist /\ q.mintSearcher \in Whitelist /\ Whitelist \subseteq Mints
  BY <1>1 DEF ValidQuote
<1>4. ReferralOf(q) \in Nat /\ ReferralOf(q) <= PrecisionPpm /\ q.amount \in Nat
  BY <1>1 DEF ReferralOf, ValidQuote
<1>5. platform \in Nat
  <2>1. m.platformBps * BpsToPpm \in Nat
    BY FeeAssumption DEF ExpressRelayMetadata, Splits
  <2>2. OrZero(PlatformFeeOf[q.mintUser]) \in Nat /\ OrZero(PlatformFeeOf[q.mintSearcher]) \in Nat
    BY <1>3 DEF OrZero
  <2> QED
    BY <2>1, <2>2 DEF PlatformPpm, MaxOf
<1>6. user \in Wallets \ {Meta} /\ RouterOf(q) \in Wallets /\ q.memo \in Memos
  BY DEF RouterOf, Memos
<1>7. balance \in Nat
  <2>1. CASE q.user = None
    BY <2>1
  <2>2. CASE q.user # None
    <3>1. q.user \in Wallets /\ q.user \in Accounts /\ <<q.user, q.mintUser>> \in TokenAccounts
      BY <1>3, <2>2 DEF Accounts, TokenAccounts
    <3>2. c.lam[q.user] \in Nat /\ c.tok[<<q.user, q.mintUser>>] \in Nat \cup {Closed}
      BY <3>1 DEF Fine, Chains
    <3> QED
      BY <2>2, <3>2 DEF UserBalance
  <2> QED
    BY <2>1, <2>2
<1> HIDE DEF platform, user, balance
<1>8. amounts.user \in Nat /\ amounts.searcher \in Nat
  <2>1. CASE q.specified = "user" \/ (q.specified = "searcher" /\ FeeToken(q) = "user")
    BY <1>4, <2>1 DEF QuotedAmounts
  <2>2. CASE ~(q.specified = "user" \/ (q.specified = "searcher" /\ FeeToken(q) = "user"))
    <3> DEFINE w == WithFees(q.amount, ReferralOf(q), platform)
    <3>1. amounts = IF ReferralOf(q) + platform >= PrecisionPpm THEN [ok |-> FALSE, searcher |-> 0, user |-> 0]
                    ELSE [ok |-> w > 0, searcher |-> w, user |-> 0]
      BY <2>2 DEF QuotedAmounts
    <3>2. ~(ReferralOf(q) + platform >= PrecisionPpm)
      BY <1>1, <3>1
    <3>3. PrecisionPpm \in Nat
      BY FeeAssumption DEF PrecisionPpm
    <3>4. LeftByFees(ReferralOf(q), platform) # 0
      <4> DEFINE k == PrecisionPpm - ReferralOf(q) - platform
      <4>1. k \in 1..MaxU64
        BY <1>4, <1>5, <3>2, <3>3, FeeAssumption
      <4> HIDE DEF k
      <4>2. k % (MaxU64 + 1) = k
        BY <4>1, FeeAssumption
      <4> QED
        BY <4>1, <4>2 DEF LeftByFees, Wrap, k
    <3>5. w \in Nat
      BY <1>4, <1>5, <3>4, WithFeesIs
    <3> QED
      BY <3>1, <3>2, <3>5
  <2> QED
    BY <2>1, <2>2
<1> HIDE DEF amounts
<1>9. FeeToken(q) \in Sides
  BY DEF FeeToken, Sides
<1> QED
  BY <1>2, <1>3, <1>4, <1>5, <1>6, <1>7, <1>8, <1>9 DEF OpportunityOk

(***************************************************************************)
(* The SDK's transaction.                                                  *)
(***************************************************************************)

(* What a searcher tells the SDK, with the deadline.                       *)
SdkParams == [amount : Nat, deadline : Nat, searcher : Wallets \ {Meta}, feeReceiver : Wallets,
              relayer : Wallets \ {Meta}]

(* The amount the SDK scales is a natural number.                          *)
LEMMA BidAmountIs ==
  ASSUME NEW opp, OpportunityOk(opp), CanScale(opp), NEW amount \in Nat
  PROVE  BidWithFees(opp, amount) \in Nat
<1>1. CASE ScalesBid(opp)
  <2> DEFINE r == opp.referral
             p == opp.platform
  <2>1. r \in Nat /\ p \in Nat /\ LeftByFees(r, p) # 0
    BY <1>1 DEF OpportunityOk, CanScale
  <2>2. BidWithFees(opp, amount) = WithFees(amount, r, p)
    BY <1>1 DEF BidWithFees
  <2> HIDE DEF r, p
  <2> QED
    BY <2>1, <2>2, WithFeesIs
<1>2. CASE ~ScalesBid(opp)
  BY <1>2 DEF BidWithFees
<1> QED
  BY <1>1, <1>2

(* The swap instruction of the SDK is one of the program's.                *)
LEMMA SwapInstructionIs ==
  ASSUME NEW opp, OpportunityOk(opp), CanScale(opp), NEW b \in SdkParams, NEW ix, ix = SwapInstruction(opp, b)
  PROVE  /\ ix \in SwapInstructions /\ ix.op = "SwapV2"
         /\ ix.user = opp.user /\ ix.searcher = b.searcher /\ ix.args.amountUser \in Nat
<1> DEFINE scaled == BidWithFees(opp, b.amount)
           tokens == QuoteTokens(opp)
           mintFee == IF opp.feeToken = "searcher" THEN opp.mintSearcher ELSE opp.mintUser
           args == [deadline |-> b.deadline,
                    amountSearcher |-> IF tokens.specified = "searcher" THEN tokens.searcherAmount ELSE scaled,
                    amountUser |-> IF tokens.specified = "user" THEN tokens.userAmountIncludingFees ELSE scaled,
                    referral |-> opp.referral, platform |-> opp.platform, feeToken |-> opp.feeToken]
<1>1. scaled \in Nat
  BY BidAmountIs DEF SdkParams
<1>2. tokens.searcherAmount = opp.amountSearcher /\ tokens.userAmountIncludingFees = opp.amountUser
  BY DEF QuoteTokens
<1> HIDE DEF scaled, tokens
<1>3. args \in SwapArguments
  BY <1>1, <1>2 DEF SwapArguments, OpportunityOk, SdkParams, Sides
<1>4. args.feeToken = opp.feeToken /\ args.amountUser \in Nat
  BY <1>3 DEF SwapArguments
<1>5. ix = NewSwap(b.searcher, opp.user, <<opp.router, mintFee>>, b.feeReceiver, opp.mintSearcher, opp.mintUser, args, b.relayer)
  BY DEF SwapInstruction, scaled, tokens
<1> HIDE DEF args
<1>6. /\ ix = [op |-> "SwapV2", searcher |-> b.searcher, user |-> opp.user,
               mintSearcher |-> opp.mintSearcher, mintUser |-> opp.mintUser, mintFee |-> mintFee,
               routerAccount |-> <<opp.router, mintFee>>, feeReceiver |-> b.feeReceiver,
               relayer |-> b.relayer, args |-> args]
  BY <1>4, <1>5 DEF NewSwap
<1>7. mintFee \in Mints /\ <<opp.router, mintFee>> \in TokenAccounts
  BY DEF OpportunityOk, TokenAccounts
<1> HIDE DEF mintFee
<1> QED
  BY <1>3, <1>4, <1>6, <1>7 DEF SwapInstructions, OpportunityOk, SdkParams

(* Instructions of other programs.                                         *)
Others == {ix \in Instructions(Memos) : ix.op \notin ProgramOps}

(* The creation of a token account is an instruction of another program.   *)
LEMMA CreateIs ==
  ASSUME NEW payer \in Wallets, NEW owner \in Wallets, NEW mint \in Mints
  PROVE  Create(payer, owner, mint) \in Others
BY DEF Create, Others, ProgramOps, Instructions, TokenInstructions, TokenAccounts

(* The SDK's creations of token accounts are such instructions.            *)
LEMMA CreationIs ==
  ASSUME NEW opp, OpportunityOk(opp), NEW b \in SdkParams, NEW config, NEW owner \in Wallets, NEW mint \in Mints
  PROVE  TokenAccountToCreate(opp, b, config, owner, mint) \in Seq([payer : Wallets, owner : Wallets, mint : Mints])
<1> DEFINE x == [payer |-> IF config = "SearcherPayer" THEN b.searcher ELSE opp.user, owner |-> owner, mint |-> mint]
           R == [payer : Wallets, owner : Wallets, mint : Mints]
<1>1. x \in R
  BY DEF OpportunityOk, SdkParams
<1>2. TokenAccountToCreate(opp, b, config, owner, mint) = IF config = "Unneeded" THEN <<>> ELSE <<x>>
  BY DEF TokenAccountToCreate
<1> HIDE DEF x, R
<1>3. TokenAccountToCreate(opp, b, config, owner, mint) \in Seq(R)
  BY <1>1, <1>2
<1> QED
  BY <1>3 DEF R

(* Sequences are put together.                                             *)
LEMMA ConcatSeq ==
  ASSUME NEW S, NEW s \in Seq(S), NEW t \in Seq(S), NEW r, r = s \o t
  PROVE  /\ r \in Seq(S) /\ Len(r) = Len(s) + Len(t)
         /\ \A i \in 1..Len(s) : r[i] = s[i]
         /\ \A i \in 1..Len(t) : r[Len(s) + i] = t[i]
OBVIOUS

(* All creations of the SDK's transaction.                                 *)
LEMMA CreateInstructionsIs ==
  ASSUME NEW opp, OpportunityOk(opp), NEW b \in SdkParams
  PROVE  CreateInstructions(opp, b) \in Seq(Others)
<1> DEFINE mintFee == IF opp.feeToken = "searcher" THEN opp.mintSearcher ELSE opp.mintUser
           R == [payer : Wallets, owner : Wallets, mint : Mints]
           s1 == TokenAccountToCreate(opp, b, opp.inits.userMintSearcher, opp.user, opp.mintSearcher)
           s2 == TokenAccountToCreate(opp, b, opp.inits.userMintUser, opp.user, opp.mintUser)
           s3 == TokenAccountToCreate(opp, b, opp.inits.router, opp.router, mintFee)
           s4 == TokenAccountToCreate(opp, b, opp.inits.relayer, b.feeReceiver, mintFee)
           s5 == TokenAccountToCreate(opp, b, opp.inits.program, Meta, mintFee)
           accounts == TokenAccountsToCreate(opp, b)
<1>1. /\ mintFee \in Mints /\ opp.mintUser \in Mints /\ opp.mintSearcher \in Mints
      /\ opp.user \in Wallets /\ opp.router \in Wallets /\ b.feeReceiver \in Wallets /\ Meta \in Wallets
  BY ChainAssumption DEF OpportunityOk, SdkParams
<1>2. accounts = s1 \o s2 \o s3 \o s4 \o s5
  BY DEF TokenAccountsToCreate
<1> HIDE DEF mintFee
<1>3. s1 \in Seq(R) /\ s2 \in Seq(R) /\ s3 \in Seq(R) /\ s4 \in Seq(R) /\ s5 \in Seq(R)
  BY <1>1, CreationIs
<1> HIDE DEF s1, s2, s3, s4, s5, R, accounts
<1>4. accounts \in Seq(R)
  BY <1>2, <1>3
<1>5. Len(accounts) \in Nat /\ DOMAIN accounts = 1..Len(accounts) /\ \A i \in 1..Len(accounts) : accounts[i] \in R
  BY <1>4
<1> DEFINE f == [i \in DOMAIN accounts |-> Create(accounts[i].payer, accounts[i].owner, accounts[i].mint)]
<1>6. \A i \in 1..Len(accounts) : Create(accounts[i].payer, accounts[i].owner, accounts[i].mint) \in Others
  BY <1>5, CreateIs DEF R
<1>7. f \in [1..Len(accounts) -> Others]
  BY <1>5, <1>6
<1>8. CreateInstructions(opp, b) = f
  BY DEF CreateInstructions, accounts
<1> HIDE DEF f
<1>9. f \in Seq(Others)
  BY <1>5, <1>7
<1> QED
  BY <1>8, <1>9

(* The amount the SDK wraps.                                               *)
LEMMA AmountToWrapIs ==
  ASSUME NEW opp, OpportunityOk(opp), NEW amount \in Nat
  PROVE  AmountToWrap(opp, amount) \in Nat
<1> DEFINE S == {f \in {"userMintUser", "userMintSearcher"} : opp.inits[f] = "UserPayer"}
           k == Cardinality(S)
<1>1. k \in Nat
  <2>1. IsFiniteSet({"userMintUser"}) /\ {"userMintUser", "userMintSearcher"} = {"userMintUser"} \cup {"userMintSearcher"}
    BY FS_Singleton
  <2>2. IsFiniteSet({"userMintUser", "userMintSearcher"})
    BY <2>1, FS_AddElement
  <2>3. IsFiniteSet(S)
    BY <2>2, FS_Subset
  <2> QED
    BY <2>3, FS_CardinalityType
<1>2. UserPaidInits(opp.inits) = k
  BY DEF UserPaidInits
<1> HIDE DEF k
<1>3. k * RentToken \in Nat
  BY <1>1, ChainAssumption
<1>4. SaturatingSub(opp.balance, k * RentToken) \in Nat
  BY <1>3 DEF SaturatingSub, OpportunityOk
<1> QED
  BY <1>2, <1>4 DEF AmountToWrap, MinOf

(* A transaction whose only instruction of the program is a swap.          *)
OneSwap(tx, swap) ==
  /\ tx.ixs \in Seq(Instructions(Memos))
  /\ LET at == ProgramInstruction(tx, {"SwapV2"})
     IN  at \in 1..Len(tx.ixs) /\ tx.ixs[at] = swap

(* A swap between instructions of other programs is found as the one       *)
(* instruction of the program.                                             *)
LEMMA OneSwapIs ==
  ASSUME NEW before \in Seq(Others), NEW after \in Seq(Others), NEW swap \in SwapInstructions, swap.op = "SwapV2",
         NEW tx, tx.ixs = (before \o <<swap>>) \o after
  PROVE  OneSwap(tx, swap)
<1> DEFINE I == Instructions(Memos)
           k == Len(before) + 1
           own == ProgramInstructions(tx)
<1>1. before \in Seq(I) /\ after \in Seq(I) /\ swap \in I
  BY DEF Others, Instructions
<1> HIDE DEF I
<1>2. <<swap>> \in Seq(I) /\ Len(<<swap>>) = 1 /\ <<swap>>[1] = swap
  BY <1>1
<1> DEFINE one == <<swap>>
<1> HIDE DEF one
<1>3. /\ before \o one \in Seq(I) /\ Len(before \o one) = k
      /\ \A i \in 1..Len(before) : (before \o one)[i] = before[i]
      /\ (before \o one)[k] = swap
  BY <1>1, <1>2, ConcatSeq DEF one
<1> DEFINE front == before \o one
           s == front \o after
<1>4. /\ s \in Seq(I) /\ Len(s) = k + Len(after)
      /\ \A i \in 1..k : s[i] = front[i]
      /\ \A i \in 1..Len(after) : s[k + i] = after[i]
  <2> HIDE DEF front
  <2>1. front \in Seq(I) /\ Len(front) = k
    BY <1>3 DEF front
  <2> HIDE DEF k
  <2>2. /\ s \in Seq(I) /\ Len(s) = Len(front) + Len(after)
        /\ \A i \in 1..Len(front) : s[i] = front[i]
        /\ \A i \in 1..Len(after) : s[Len(front) + i] = after[i]
    <3>1. front \in Seq(I) /\ after \in Seq(I)
      BY <1>1, <2>1
    <3> QED
      BY <3>1, ConcatSeq
  <2> HIDE DEF s
  <2> QED
    BY <2>1, <2>2
<1>5. tx.ixs = s
  BY DEF one
<1>6. Len(before) \in Nat /\ Len(after) \in Nat /\ DOMAIN s = 1..Len(s)
  BY <1>1, <1>4
<1>0. /\ \A i \in 1..Len(before) : before[i] \in Others
      /\ \A i \in 1..Len(after) : after[i] \in Others
  OBVIOUS
<1> HIDE DEF s
<1>7. s[k] = swap /\ k \in 1..Len(s)
  BY <1>3, <1>4, <1>6
<1>8. ASSUME NEW i \in 1..Len(s), i # k PROVE s[i].op \notin ProgramOps
  <2>1. CASE i < k
    <3>1. i \in 1..Len(before) /\ i \in 1..k
      BY <1>6, <2>1
    <3>2. s[i] = before[i] /\ before[i] \in Others
      BY <1>0, <1>3, <1>4, <3>1
    <3> QED
      BY <3>2 DEF Others
  <2>2. CASE i > k
    <3> DEFINE j == i - k
    <3>1. j \in 1..Len(after) /\ k + j = i
      BY <1>4, <1>6, <2>2
    <3> HIDE DEF j, k
    <3>2. s[i] = after[j] /\ after[j] \in Others
      BY <1>0, <1>4, <3>1
    <3> QED
      BY <3>2 DEF Others
  <2> QED
    BY <1>6, <1>8, <2>1, <2>2
<1>9. own = {k}
  <2>1. swap.op \in ProgramOps /\ swap.op # "SubmitBid"
    BY DEF ProgramOps
  <2> QED
    BY <1>5, <1>6, <1>7, <1>8, <2>1 DEF ProgramInstructions, Positions
<1>10. Cardinality(own) = 1
  BY <1>9, FS_Singleton
<1>11. ProgramInstruction(tx, {"SwapV2"}) = k
  <2>1. \A i \in own : tx.ixs[i].op \in {"SwapV2"}
    BY <1>5, <1>7, <1>9
  <2>2. (CHOOSE i \in own : TRUE) = k
    BY <1>9
  <2> HIDE DEF own
  <2> QED
    BY <1>10, <2>1, <2>2 DEF ProgramInstruction, own
<1> QED
  BY <1>4, <1>5, <1>7, <1>11 DEF OneSwap, I

(* The transaction of the SDK is one, and has one swap.                    *)
LEMMA SwapTransactionIs ==
  ASSUME NEW opp, OpportunityOk(opp), CanScale(opp), NEW b \in SdkParams, NEW tx, tx = SwapTransaction(opp, b)
  PROVE  /\ OneSwap(tx, SwapInstruction(opp, b))
         /\ tx.payer \in Wallets /\ tx.signers \in SUBSET (Wallets \ {Meta}) /\ tx.signed \in SUBSET Wallets
         /\ tx = [payer |-> tx.payer, signers |-> tx.signers, signed |-> tx.signed, ixs |-> tx.ixs]
<1> DEFINE swap == SwapInstruction(opp, b)
           memo == When(opp.memo # None, << [op |-> "Memo", memo |-> opp.memo] >>)
           creates == CreateInstructions(opp, b)
           amount == AmountToWrap(opp, swap.args.amountUser)
           transfer == [op |-> "Transfer", from |-> opp.user, to |-> <<opp.user, Sol>>, lamports |-> amount]
           sync == [op |-> "SyncNative", account |-> <<opp.user, Sol>>]
           wrap == When(opp.mintUser = Sol, WrapInstructions(opp, amount))
           before == (memo \o creates) \o wrap
           after == When(Sol \in {opp.mintUser, opp.mintSearcher}, << Unwrap(opp.user) >>)
           one == <<swap>>
<1>1. swap \in SwapInstructions /\ swap.op = "SwapV2" /\ swap.args.amountUser \in Nat
  BY SwapInstructionIs
<1>2. memo \in Seq(Others)
  <2> DEFINE x == [op |-> "Memo", memo |-> opp.memo]
  <2>1. x \in Others
    BY DEF Others, Instructions, ProgramOps, OpportunityOk
  <2>2. memo = IF opp.memo # None THEN <<x>> ELSE <<>>
    BY DEF When
  <2> HIDE DEF x, memo
  <2> QED
    BY <2>1, <2>2
<1>3. creates \in Seq(Others)
  BY CreateInstructionsIs
<1>4. opp.user \in Wallets /\ <<opp.user, Sol>> \in TokenAccounts
  BY ChainAssumption DEF OpportunityOk, TokenAccounts
<1>5. wrap \in Seq(Others)
  <2>1. amount \in Nat
    BY <1>1, AmountToWrapIs
  <2> HIDE DEF amount
  <2>2. transfer \in Others
    BY <1>4, <2>1 DEF Others, Instructions, ProgramOps, SystemInstructions, Accounts
  <2>3. sync \in Others
    BY <1>4 DEF Others, Instructions, ProgramOps, TokenInstructions
  <2>4. wrap = IF opp.mintUser = Sol THEN <<transfer, sync>> ELSE <<>>
    BY DEF When, WrapInstructions
  <2> HIDE DEF transfer, sync, wrap
  <2> QED
    BY <2>2, <2>3, <2>4
<1>6. after \in Seq(Others)
  <2> DEFINE x == Unwrap(opp.user)
  <2>1. x \in Others
    BY <1>4 DEF Unwrap, Others, Instructions, ProgramOps, TokenInstructions, Accounts
  <2>2. after = IF Sol \in {opp.mintUser, opp.mintSearcher} THEN <<x>> ELSE <<>>
    BY DEF When
  <2> HIDE DEF x, after
  <2> QED
    BY <2>1, <2>2
<1>7. tx = [payer |-> b.searcher, signers |-> {b.searcher, opp.user, b.relayer}, signed |-> {b.searcher},
            ixs |-> memo \o creates \o wrap \o one \o after]
  BY DEF SwapTransaction
<1> HIDE DEF swap, memo, creates, wrap, after, one
<1>8. before \in Seq(Others)
  BY <1>2, <1>3, <1>5, ConcatSeq
<1>9. tx.ixs = (before \o <<swap>>) \o after
  BY <1>7 DEF one
<1> HIDE DEF before
<1>10. OneSwap(tx, swap)
  BY <1>1, <1>6, <1>8, <1>9, OneSwapIs
<1> QED
  BY <1>7, <1>10 DEF swap, SdkParams, OpportunityOk

(* One instruction is replaced.                                            *)
LEMMA AlterIs ==
  ASSUME NEW S, NEW s \in Seq(S), NEW i \in 1..Len(s), NEW x \in S
  PROVE  Alter(s, i, x) \in Seq(S)
BY DEF Alter

(* One instruction is left out.                                            *)
LEMMA DropIs ==
  ASSUME NEW S, NEW s \in Seq(S), NEW i \in 1..Len(s)
  PROVE  DropIx(s, i) \in Seq(S)
<1> DEFINE t == SubSeq(s, 1, i - 1)
           u == SubSeq(s, i + 1, Len(s))
<1>1. Len(s) \in Nat
  OBVIOUS
<1>2. t \in Seq(S) /\ u \in Seq(S)
  BY <1>1
<1>3. DropIx(s, i) = t \o u
  BY DEF DropIx
<1> HIDE DEF t, u
<1> QED
  BY <1>2, <1>3, ConcatSeq

(* What a swap may be altered to.                                          *)
LEMMA AlteredSwap ==
  ASSUME NEW swap \in SwapInstructions
  PROVE  /\ \A x \in SwapArguments : [swap EXCEPT !.args = x] \in SwapInstructions
         /\ \A t \in Sides : \A m \in Mints :
               [swap EXCEPT !.args.feeToken = t, !.mintFee = m] \in SwapInstructions
         /\ \A n \in Nat :
               [swap EXCEPT !.op = "Swap", !.args.referral = n, !.args.platform = 0] \in SwapInstructions
         /\ \A a \in TokenAccounts : [swap EXCEPT !.routerAccount = a] \in SwapInstructions
<1>1. ASSUME NEW x \in SwapArguments PROVE [swap EXCEPT !.args = x] \in SwapInstructions
  BY DEF SwapInstructions
<1>2. ASSUME NEW t \in Sides, NEW m \in Mints
      PROVE  [swap EXCEPT !.args.feeToken = t, !.mintFee = m] \in SwapInstructions
  BY DEF SwapInstructions, SwapArguments, Sides
<1>3. ASSUME NEW n \in Nat
      PROVE  [swap EXCEPT !.op = "Swap", !.args.referral = n, !.args.platform = 0] \in SwapInstructions
  BY DEF SwapInstructions, SwapArguments
<1>4. ASSUME NEW a \in TokenAccounts PROVE [swap EXCEPT !.routerAccount = a] \in SwapInstructions
  BY DEF SwapInstructions
<1> QED
  BY <1>1, <1>2, <1>3, <1>4

(* Whatever the searcher changes, the result is a transaction.             *)
LEMMA DeviationIs ==
  ASSUME NEW tx, NEW swap \in SwapInstructions, OneSwap(tx, swap), NEW ixs \in Deviations(tx)
  PROVE  ixs \in Seq(Instructions(Memos))
<1> USE ChainAssumption
<1> DEFINE I == Instructions(Memos)
           s == tx.ixs
           at == ProgramInstruction(tx, {"SwapV2"})
           a == swap.args
           other == IF a.feeToken = "user" THEN "searcher" ELSE "user"
           put(args) == Alter(s, at, [swap EXCEPT !.args = args])
<1>1. s \in Seq(I) /\ at \in 1..Len(s) /\ s[at] = swap /\ DOMAIN s = 1..Len(s)
  BY DEF OneSwap
<1>2. /\ a \in SwapArguments /\ swap.user \in Wallets /\ swap.searcher \in Wallets
      /\ swap.mintFee \in Mints /\ swap.mintSearcher \in Mints
  BY DEF SwapInstructions
<1>3. SwapInstructions \subseteq I
  BY DEF Instructions
<1>4. ASSUME NEW x \in SwapInstructions PROVE Alter(s, at, x) \in Seq(I)
  <2> HIDE DEF I, s, at
  <2> QED
    BY <1>1, <1>3, AlterIs
<1>5. ASSUME NEW x \in I PROVE Append(s, x) \in Seq(I)
  <2> HIDE DEF I, s
  <2> QED
    BY <1>1
<1>6. ASSUME NEW i \in DOMAIN s PROVE DropIx(s, i) \in Seq(I)
  <2> HIDE DEF I, s
  <2> QED
    BY <1>1, DropIs
<1>7. ASSUME NEW i \in Positions(tx, {"CreateAta"}), NEW w \in Wallets
      PROVE  Alter(s, i, [s[i] EXCEPT !.payer = w]) \in Seq(I)
  <2>1. i \in 1..Len(s) /\ s[i].op = "CreateAta"
    BY <1>1 DEF Positions
  <2>2. s[i] \in I
    <3> HIDE DEF I, s
    <3> QED
      BY <1>1, <2>1
  <2> DEFINE y == s[i]
  <2>3. y \in TokenInstructions /\ y.op = "CreateAta"
    <3> HIDE DEF s
    <3> QED
      BY <2>1, <2>2 DEF Instructions, SystemInstructions, BidInstructions, SwapInstructions, AdminInstructions
  <2> HIDE DEF y
  <2>4. [y EXCEPT !.payer = w] \in TokenInstructions
    BY <2>3 DEF TokenInstructions
  <2>5. [y EXCEPT !.payer = w] \in I
    BY <2>4 DEF Instructions
  <2> HIDE DEF I, s
  <2> QED
    BY <1>1, <2>1, <2>5, AlterIs DEF y
<1>8. ASSUME NEW x \in SwapArguments PROVE put(x) \in Seq(I)
  BY <1>4, AlteredSwap
<1>9. /\ [a EXCEPT !.amountUser = a.amountUser + 1] \in SwapArguments
      /\ [a EXCEPT !.amountSearcher = SaturatingSub(a.amountSearcher, 1)] \in SwapArguments
      /\ [a EXCEPT !.referral = 0] \in SwapArguments
      /\ [a EXCEPT !.platform = 0] \in SwapArguments
  <2>1. SaturatingSub(a.amountSearcher, 1) \in Nat /\ a.amountUser + 1 \in Nat
    BY <1>2 DEF SaturatingSub, SwapArguments
  <2> HIDE DEF a
  <2> QED
    BY <1>2, <2>1 DEF SwapArguments
<1>10. a.referral \div BpsToPpm \in Nat
  <2>1. a.referral \in Nat
    BY <1>2 DEF SwapArguments
  <2> HIDE DEF a
  <2> QED
    BY <2>1, FeeAssumption
<1>11. other \in Sides
  BY DEF Sides
<1>12. \A w \in {swap.user, swap.searcher} : w \in Wallets
  BY <1>2
<1>13. \A m \in Mints : <<swap.searcher, m>> \in TokenAccounts
  BY <1>2 DEF TokenAccounts
<1> DEFINE mintFee == IF other = "user" THEN swap.mintFee ELSE swap.mintSearcher
           D1 == {DropIx(s, i) : i \in DOMAIN s}
           payer(i) == IF s[i].payer = swap.user THEN swap.searcher ELSE swap.user
           D2 == {Alter(s, i, [s[i] EXCEPT !.payer = payer(i)]) : i \in Positions(tx, {"CreateAta"})}
           D3 == {put([a EXCEPT !.amountUser = a.amountUser + 1]),
                  put([a EXCEPT !.amountSearcher = SaturatingSub(a.amountSearcher, 1)]),
                  put([a EXCEPT !.referral = 0]), put([a EXCEPT !.platform = 0])}
           D4 == {Alter(s, at, [swap EXCEPT !.args.feeToken = other, !.mintFee = mintFee])}
           D5 == {Alter(s, at, [swap EXCEPT !.op = "Swap", !.args.referral = a.referral \div BpsToPpm,
                                            !.args.platform = 0])}
           D6 == {Alter(s, at, [swap EXCEPT !.routerAccount = <<swap.searcher, swap.mintFee>>])}
           D7 == {Append(s, [op |-> "Transfer", from |-> w, to |-> <<swap.searcher, Sol>>, lamports |-> 1])
                    : w \in {swap.user, swap.searcher}}
           D8 == {Append(s, Create(w, swap.searcher, m)) : w \in {swap.user, swap.searcher}, m \in Mints}
           D9 == {Append(s, [op |-> "CloseAccount", account |-> <<w, Sol>>, destination |-> swap.searcher, owner |-> w])
                    : w \in {swap.user, swap.searcher}}
           D10 == {Append(s, [op |-> "SetComputeUnitPrice", price |-> p]) : p \in Samples}
           D11 == {Append(s, [op |-> "SyncNative", account |-> <<w, Sol>>]) : w \in {swap.user, swap.feeReceiver}}
<1>20. Deviations(tx) = D1 \cup D2 \cup D3 \cup D4 \cup D5 \cup D6 \cup D7 \cup D8 \cup D9 \cup D11 \cup D10
  BY <1>1 DEF Deviations
<1>21. CASE ixs \in D1
  BY <1>6, <1>21
<1>22. CASE ixs \in D2
  <2>1. PICK i \in Positions(tx, {"CreateAta"}) : ixs = Alter(s, i, [s[i] EXCEPT !.payer = payer(i)])
    BY <1>22
  <2> DEFINE w == payer(i)
  <2>2. w \in Wallets /\ ixs = Alter(s, i, [s[i] EXCEPT !.payer = w])
    BY <1>2, <2>1
  <2> HIDE DEF w
  <2>3. Alter(s, i, [s[i] EXCEPT !.payer = w]) \in Seq(I)
    BY <1>7, <2>2
  <2> QED
    BY <2>2, <2>3
<1>23. CASE ixs \in D3
  BY <1>8, <1>9, <1>23
<1>24. CASE ixs \in D4
  <2>1. mintFee \in Mints
    BY <1>2
  <2> HIDE DEF mintFee, other
  <2>2. [swap EXCEPT !.args.feeToken = other, !.mintFee = mintFee] \in SwapInstructions
    BY <1>11, <2>1, AlteredSwap
  <2> QED
    BY <1>4, <1>24, <2>2
<1>25. CASE ixs \in D5
  BY <1>4, <1>10, <1>25, AlteredSwap
<1>26. CASE ixs \in D6
  BY <1>2, <1>4, <1>13, <1>26, AlteredSwap
<1>27. CASE ixs \in D7
  <2>1. PICK w \in {swap.user, swap.searcher} :
          ixs = Append(s, [op |-> "Transfer", from |-> w, to |-> <<swap.searcher, Sol>>, lamports |-> 1])
    BY <1>27
  <2>2. [op |-> "Transfer", from |-> w, to |-> <<swap.searcher, Sol>>, lamports |-> 1] \in I
    BY <1>12, <1>13 DEF Instructions, SystemInstructions, Accounts
  <2> QED
    BY <1>5, <2>1, <2>2
<1>28. CASE ixs \in D8
  <2>1. PICK w \in {swap.user, swap.searcher}, m \in Mints : ixs = Append(s, Create(w, swap.searcher, m))
    BY <1>28
  <2>2. Create(w, swap.searcher, m) \in I
    BY <1>2, <1>12, CreateIs DEF Others
  <2> QED
    BY <1>5, <2>1, <2>2
<1>29. CASE ixs \in D9
  <2>1. PICK w \in {swap.user, swap.searcher} :
          ixs = Append(s, [op |-> "CloseAccount", account |-> <<w, Sol>>, destination |-> swap.searcher, owner |-> w])
    BY <1>29
  <2>2. [op |-> "CloseAccount", account |-> <<w, Sol>>, destination |-> swap.searcher, owner |-> w] \in I
    BY <1>2, <1>12 DEF Instructions, TokenInstructions, TokenAccounts, Accounts
  <2> QED
    BY <1>5, <2>1, <2>2
<1>30. CASE ixs \in D10
  <2>1. PICK p \in Samples : ixs = Append(s, [op |-> "SetComputeUnitPrice", price |-> p])
    BY <1>30
  <2>2. [op |-> "SetComputeUnitPrice", price |-> p] \in I
    BY MarketAssumption DEF Instructions
  <2> QED
    BY <1>5, <2>1, <2>2
<1>31. CASE ixs \in D11
  <2>1. PICK w \in {swap.user, swap.feeReceiver} : ixs = Append(s, [op |-> "SyncNative", account |-> <<w, Sol>>])
    BY <1>31
  <2>2. w \in Wallets
    BY DEF SwapInstructions
  <2>3. [op |-> "SyncNative", account |-> <<w, Sol>>] \in I
    BY <2>2 DEF Instructions, TokenInstructions, TokenAccounts
  <2> QED
    BY <1>5, <2>1, <2>3
<1> HIDE DEF D1, D2, D3, D4, D5, D6, D7, D8, D9, D10, D11
<1> QED
  BY <1>20, <1>21, <1>22, <1>23, <1>24, <1>25, <1>26, <1>27, <1>28, <1>29, <1>30, <1>31

(***************************************************************************)
(* The market.  What is always so of each variable; a bid that was sent    *)
(* found the program initialized, and a bid for a permission that passed   *)
(* the check on its instructions has the one that pays.                    *)
(***************************************************************************)
ChainInv ==
  /\ Fine(chain)
  /\ cached \in ExpressRelayMetadata \cup {None}
  /\ chain.meta = None => cached = None

(* Time, the changes by others and the window of fees are within their     *)
(* bounds.                                                                 *)
ClockInv ==
  /\ now \in 0..MaxTime /\ changes \in 0..MaxChanges
  /\ samples \in Seq([fee : Nat, time : Nat]) /\ Len(samples) <= FeeWindow

(* A quote is there only where the program is initialized, and an          *)
(* opportunity has the amounts of one.                                     *)
QuoteInv ==
  /\ quote = [request |-> quote.request, opp |-> quote.opp, live |-> quote.live, answer |-> quote.answer]
  /\ quote.request \in Requests \cup {None}
  /\ quote.request # None => chain.meta # None
  /\ quote.live => quote.request # None /\ OpportunityOk(quote.opp)

(* The checks that compare a swap with an opportunity were passed, under   *)
(* the metadata and at the time of then.                                   *)
Verified(opp, tx) == \E m \in ExpressRelayMetadata, n \in Nat : SwapDataOk(m, opp, tx, n)

(* A bid in progress is a transaction.  One for a permission that passed   *)
(* its first check has the one bid; a swap that did was verified.          *)
BidInv ==
  /\ bid \in [stage : Stages, tx : Transactions(Memos) \cup {None}, sdk : BOOLEAN]
  /\ bid.stage # "none" => bid.tx \in Transactions(Memos) /\ chain.meta # None
  /\ bid.stage # "none" /\ ~IsSwap => bid.tx \in BidTxs
  /\ bid.stage \in {"fields", "signed", "accepted"} /\ ~IsSwap => ProgramInstruction(bid.tx, {"SubmitBid"}) # None
  /\ bid.stage \in {"fields", "signed", "accepted", "answered"} /\ IsSwap => Verified(quote.opp, bid.tx)

(* The inductive invariant.                                                *)
MarketInv == ChainInv /\ ClockInv /\ QuoteInv /\ BidInv

(* The server's metadata is the metadata of some time.                     *)
LEMMA MetadataIs ==
  ASSUME ChainInv, chain.meta # None
  PROVE  Metadata \in ExpressRelayMetadata
BY DEF ChainInv, Metadata, Fine, Chains

(* The invariant holds at the start.                                       *)
LEMMA MarketStarts ==
  ASSUME MarketInit PROVE MarketInv
<1> USE MarketAssumption
<1>1. ChainInv
  BY DEF MarketInit, ChainInv, Fine
<1>2. ClockInv
  <2>1. samples = <<>> /\ now = 0 /\ changes = 0
    BY DEF MarketInit
  <2>2. <<>> \in Seq([fee : Nat, time : Nat]) /\ Len(<<>>) = 0
    OBVIOUS
  <2> QED
    BY <2>1, <2>2 DEF ClockInv
<1>3. QuoteInv
  BY DEF MarketInit, NoQuote, QuoteInv
<1>4. BidInv
  BY DEF MarketInit, NoBid, BidInv, Stages
<1> QED
  BY <1>1, <1>2, <1>3, <1>4 DEF MarketInv

(* What may happen to the chain.                                           *)
LEMMA ChainChanges ==
  ASSUME MarketInv, Becomes(chain, chain'), changes' \in 0..MaxChanges,
         UNCHANGED <<now, cached, samples, quote, bid>>
  PROVE  MarketInv'
<1>1. ChainInv'
  BY DEF MarketInv, ChainInv, Becomes
<1>2. ClockInv'
  BY DEF MarketInv, ClockInv
<1>3. QuoteInv'
  BY DEF MarketInv, QuoteInv, Becomes
<1>4. BidInv'
  BY DEF MarketInv, BidInv, Becomes, IsSwap
<1> QED
  BY <1>1, <1>2, <1>3, <1>4 DEF MarketInv

(* What may happen to a bid.                                               *)
LEMMA BidAdvances ==
  ASSUME MarketInv, NEW to \in Stages, bid.stage # "none", bid' = [bid EXCEPT !.stage = to],
         to # "none",
         to \in {"fields", "signed", "accepted"} /\ ~IsSwap => ProgramInstruction(bid.tx, {"SubmitBid"}) # None,
         to \in {"fields", "signed", "accepted", "answered"} /\ IsSwap => Verified(quote.opp, bid.tx),
         cached' \in {cached, Metadata}, chain' = chain \/ Becomes(chain, chain'),
         QuoteInv', quote.request' = quote.request, quote.opp' = quote.opp, UNCHANGED <<now, samples, changes>>
  PROVE  MarketInv'
<1>1. chain.meta # None /\ Metadata \in ExpressRelayMetadata
  BY MetadataIs DEF MarketInv, BidInv
<1>2. chain'.meta # None /\ Fine(chain')
  BY <1>1 DEF MarketInv, ChainInv, Becomes
<1>3. ChainInv'
  BY <1>1, <1>2 DEF MarketInv, ChainInv
<1>4. ClockInv'
  BY DEF MarketInv, ClockInv
<1>5. BidInv'
  <2>1. bid \in [stage : Stages, tx : Transactions(Memos) \cup {None}, sdk : BOOLEAN]
    BY DEF MarketInv, BidInv
  <2>2. /\ bid' \in [stage : Stages, tx : Transactions(Memos) \cup {None}, sdk : BOOLEAN]
        /\ bid'.stage = to /\ bid'.tx = bid.tx
    BY <2>1
  <2> QED
    BY <1>2, <2>2 DEF MarketInv, BidInv, IsSwap
<1> QED
  BY <1>3, <1>4, <1>5 DEF MarketInv

(* A quote.                                                                *)
LEMMA GetQuoteKeeps ==
  ASSUME MarketInv, NEW q \in Requests, GetQuote(q)
  PROVE  MarketInv'
<1>1. chain.meta # None /\ chain' = chain /\ bid' = bid /\ bid.stage = "none" /\ cached' = Metadata
  BY DEF GetQuote
<1>2. Metadata \in ExpressRelayMetadata
  BY <1>1, MetadataIs DEF MarketInv
<1>3. ChainInv'
  BY <1>1, <1>2 DEF MarketInv, ChainInv
<1>4. ClockInv'
  BY DEF MarketInv, ClockInv, GetQuote
<1>5. QuoteInv'
  <2> DEFINE opp == Opportunity(chain, Metadata, q, now)
  <2>1. quote' = [request |-> q, opp |-> opp, live |-> opp # None, answer |-> None]
    BY DEF GetQuote
  <2>2. opp # None => OpportunityOk(opp)
    BY <1>2, QuoteIs DEF MarketInv, ChainInv
  <2> HIDE DEF opp
  <2> QED
    BY <1>1, <2>1, <2>2, MarketAssumption DEF QuoteInv
<1>6. BidInv'
  BY <1>1 DEF MarketInv, BidInv
<1> QED
  BY <1>3, <1>4, <1>5, <1>6 DEF MarketInv

(* A transaction that is sent.                                             *)
LEMMA SendKeeps ==
  ASSUME MarketInv, NEW tx \in Transactions(Memos), NEW sdk \in BOOLEAN, chain.meta # None,
         ~IsSwap => tx \in BidTxs,
         bid' = [stage |-> "sent", tx |-> tx, sdk |-> sdk], UNCHANGED <<chain, now, cached, samples, quote, changes>>
  PROVE  MarketInv'
<1>1. ChainInv'
  BY DEF MarketInv, ChainInv
<1>2. ClockInv'
  BY DEF MarketInv, ClockInv
<1>3. QuoteInv'
  BY DEF MarketInv, QuoteInv
<1>4. BidInv'
  BY DEF MarketInv, BidInv, IsSwap, Stages
<1> QED
  BY <1>1, <1>2, <1>3, <1>4 DEF MarketInv

(* What a searcher sends for a quote is a transaction.                     *)
LEMMA SdkSwapIs ==
  ASSUME MarketInv, CanBid, NEW b \in BidParams
  PROVE  /\ SdkSwap(b) \in Transactions(Memos)
         /\ \A ixs \in Deviations(SdkSwap(b)) : [SdkSwap(b) EXCEPT !.ixs = ixs] \in Transactions(Memos)
<1> DEFINE p == [b EXCEPT !.deadline = b.deadline + now]
           tx == SdkSwap(b)
           swap == SwapInstruction(quote.opp, p)
<1>1. OpportunityOk(quote.opp) /\ CanScale(quote.opp)
  BY DEF CanBid, MarketInv, QuoteInv
<1>2. p \in SdkParams
  <2>1. now \in Nat
    BY MarketAssumption DEF MarketInv, ClockInv
  <2> QED
    BY <2>1, MarketAssumption DEF SdkParams
<1>3. tx = SwapTransaction(quote.opp, p)
  BY MarketAssumption DEF SdkSwap
<1> HIDE DEF p, tx
<1>4. /\ OneSwap(tx, swap)
      /\ tx.payer \in Wallets /\ tx.signers \in SUBSET (Wallets \ {Meta}) /\ tx.signed \in SUBSET Wallets
      /\ tx = [payer |-> tx.payer, signers |-> tx.signers, signed |-> tx.signed, ixs |-> tx.ixs]
  BY <1>1, <1>2, <1>3, SwapTransactionIs
<1>5. swap \in SwapInstructions
  BY <1>1, <1>2, SwapInstructionIs
<1> HIDE DEF swap
<1> DEFINE S == Seq(Instructions(Memos))
<1>6. tx.ixs \in S
  BY <1>4 DEF OneSwap
<1>7. \A ixs \in Deviations(tx) : ixs \in S
  BY <1>4, <1>5, DeviationIs
<1>8. Transactions(Memos) = [payer : Wallets, signers : SUBSET (Wallets \ {Meta}), signed : SUBSET Wallets, ixs : S]
  BY DEF Transactions
<1> HIDE DEF S
<1>9. tx \in Transactions(Memos)
  BY <1>4, <1>6, <1>8
<1>10. ASSUME NEW ixs \in Deviations(tx) PROVE [tx EXCEPT !.ixs = ixs] \in Transactions(Memos)
  BY <1>7, <1>8, <1>9
<1> QED
  BY <1>9, <1>10 DEF tx

(* A bid for a quote.                                                      *)
LEMMA SearcherKeeps ==
  ASSUME MarketInv, NEW b \in BidParams, SendSdkSwap(b) \/ SendOtherSwap(b)
  PROVE  MarketInv'
<1>1. CanBid
  BY DEF SendSdkSwap, SendOtherSwap
<1>2. IsSwap /\ chain.meta # None
  BY <1>1 DEF CanBid, MarketInv, QuoteInv, IsSwap
<1> QED
  BY <1>1, <1>2, SdkSwapIs, SendKeeps DEF SendSdkSwap, SendOtherSwap, SendSwap

(* The steps of verify_bid and the answer to the request.                  *)
LEMMA VerifyKeeps ==
  ASSUME MarketInv, VerifyFields \/ VerifySignatures \/ Simulate \/ SimulationUnavailable \/ AnswerQuote
  PROVE  MarketInv'
<1> DEFINE Paying(to) == to \in {"fields", "signed", "accepted"} /\ ~IsSwap
                            => ProgramInstruction(bid.tx, {"SubmitBid"}) # None
           Swapping(to) == to \in {"fields", "signed", "accepted", "answered"} /\ IsSwap
                            => Verified(quote.opp, bid.tx)
<1>1. /\ UNCHANGED <<chain, now, samples, changes>> /\ cached' \in {cached, Metadata}
      /\ bid.stage # "none" /\ quote.request' = quote.request /\ quote.opp' = quote.opp /\ QuoteInv'
  <2>1. CASE ~AnswerQuote
    <3>1. UNCHANGED <<chain, now, samples, changes, quote>> /\ cached' \in {cached, Metadata} /\ bid.stage # "none"
      BY <2>1 DEF VerifyFields, VerifySignatures, Simulate, SimulationUnavailable, Advance
    <3> QED
      BY <3>1 DEF MarketInv, QuoteInv
  <2>2. CASE AnswerQuote
    <3> DEFINE a == Answer(Metadata, quote.request, quote.opp,
                           bid.tx.ixs[ProgramInstruction(bid.tx, {"Swap", "SwapV2"})])
    <3>1. /\ UNCHANGED <<chain, now, samples, changes>> /\ cached' = Metadata /\ bid.stage # "none"
          /\ quote' = [quote EXCEPT !.answer = a]
      BY <2>2 DEF AnswerQuote
    <3> HIDE DEF a
    <3> QED
      BY <3>1 DEF MarketInv, QuoteInv
  <2> QED
    BY <2>1, <2>2
<1>2. \E to \in Stages : to # "none" /\ Paying(to) /\ Swapping(to) /\ bid' = [bid EXCEPT !.stage = to]
  <2>1. CASE VerifyFields
    <3>1. PICK ok \in BOOLEAN : /\ bid' = [bid EXCEPT !.stage = IF ok THEN "fields" ELSE "rejected"]
                                /\ ok /\ ~IsSwap => SubmitBidDataOk(bid.tx, now)
                                /\ ok /\ IsSwap => SwapDataOk(Metadata, quote.opp, bid.tx, now)
      <4> DEFINE data == IF IsSwap THEN quote.live /\ SwapDataOk(Metadata, quote.opp, bid.tx, now)
                         ELSE SubmitBidDataOk(bid.tx, now)
                 ok == ComputeBudgetOk(bid.tx, samples, now) /\ data
      <4>1. bid' = [bid EXCEPT !.stage = IF ok THEN "fields" ELSE "rejected"]
        BY <2>1 DEF VerifyFields, Advance
      <4>2. /\ ok /\ ~IsSwap => SubmitBidDataOk(bid.tx, now)
            /\ ok /\ IsSwap => SwapDataOk(Metadata, quote.opp, bid.tx, now)
        OBVIOUS
      <4>3. ok \in BOOLEAN
        OBVIOUS
      <4> HIDE DEF ok
      <4> QED
        BY <4>1, <4>2, <4>3
    <3>2. SubmitBidDataOk(bid.tx, now) => ProgramInstruction(bid.tx, {"SubmitBid"}) # None
      BY DEF SubmitBidDataOk
    <3>3. SwapDataOk(Metadata, quote.opp, bid.tx, now) => Verified(quote.opp, bid.tx)
      <4>1. Metadata \in ExpressRelayMetadata /\ now \in Nat
        BY <1>1, MetadataIs, MarketAssumption DEF MarketInv, BidInv, ClockInv
      <4> QED
        BY <4>1 DEF Verified
    <3>4. CASE ok
      BY <3>1, <3>2, <3>3, <3>4 DEF Stages
    <3>5. CASE ~ok
      BY <3>1, <3>5 DEF Stages
    <3> QED
      BY <3>4, <3>5
  <2>2. CASE VerifySignatures \/ Simulate \/ SimulationUnavailable
    <3>1. bid.stage \in {"fields", "signed"}
      BY <2>2 DEF VerifySignatures, Simulate, SimulationUnavailable, Advance
    <3>2. \A to \in Stages : Paying(to) /\ Swapping(to)
      BY <3>1 DEF MarketInv, BidInv
    <3>3. \E to \in {"signed", "accepted", "rejected"} : bid' = [bid EXCEPT !.stage = to]
      <4>1. CASE VerifySignatures
        BY <4>1 DEF VerifySignatures, Advance
      <4>2. CASE Simulate
        BY <4>2 DEF Simulate, Advance
      <4>3. CASE SimulationUnavailable
        BY <4>3 DEF SimulationUnavailable, Advance
      <4> QED
        BY <2>2, <4>1, <4>2, <4>3
    <3> HIDE DEF Paying, Swapping
    <3> QED
      BY <3>2, <3>3 DEF Stages
  <2>3. CASE AnswerQuote
    <3>1. bid' = [bid EXCEPT !.stage = "answered"] /\ bid.stage = "accepted"
      BY <2>3 DEF AnswerQuote
    <3>2. "answered" \in Stages /\ Paying("answered") /\ Swapping("answered")
      BY <3>1 DEF Stages, MarketInv, BidInv
    <3> HIDE DEF Paying, Swapping
    <3> QED
      BY <3>1, <3>2
  <2> QED
    BY <2>1, <2>2, <2>3
<1> QED
  BY <1>1, <1>2, BidAdvances

(* A bid that lands.                                                       *)
LEMMA LandsKeeps ==
  ASSUME MarketInv, Lands
  PROVE  MarketInv' /\ Becomes(chain, chain')
<1> DEFINE r == Execute(chain, bid.tx, now)
           to == IF r.err = None THEN "landed" ELSE "failed"
<1>1. /\ bid.stage # "none" /\ chain' = r.chain /\ bid' = [bid EXCEPT !.stage = to]
      /\ UNCHANGED <<now, cached, samples, quote, changes>>
  BY DEF Lands
<1>2. bid.tx \in Transactions(Memos) /\ Fine(chain)
  BY <1>1 DEF MarketInv, BidInv, ChainInv
<1>3. Becomes(chain, chain')
  BY <1>1, <1>2, ExecuteFine DEF Outcome
<1>4. to \in Stages /\ to # "none" /\ to \notin {"fields", "signed", "accepted", "answered"}
  BY DEF Stages
<1>5. QuoteInv'
  BY <1>1, <1>3 DEF MarketInv, QuoteInv, Becomes
<1> HIDE DEF to, r
<1> QED
  BY <1>1, <1>3, <1>4, <1>5, BidAdvances

(***************************************************************************)
(* Everybody else.                                                         *)
(***************************************************************************)

(* The admin.                                                              *)
LEMMA AdministerKeeps ==
  ASSUME MarketInv, NEW ix \in AdminSteps, Administer(ix)
  PROVE  MarketInv' /\ Becomes(chain, chain')
<1> DEFINE tx == [payer |-> ix.by, signers |-> {ix.by}, signed |-> {ix.by}, ixs |-> <<ix>>]
           S == Seq(Instructions(Memos))
<1>1. ix \in AdminInstructions /\ ix.by # Meta /\ ix.by \in Wallets
  BY MarketAssumption DEF AdminInstructions
<1>2. <<ix>> \in S
  <2> DEFINE I == Instructions(Memos)
  <2>1. ix \in I
    BY <1>1 DEF Instructions
  <2> HIDE DEF I
  <2> QED
    BY <2>1 DEF I
<1>3. tx \in Transactions(Memos)
  <2>1. Transactions(Memos) = [payer : Wallets, signers : SUBSET (Wallets \ {Meta}), signed : SUBSET Wallets, ixs : S]
    BY DEF Transactions
  <2> HIDE DEF S
  <2> QED
    BY <1>1, <1>2, <2>1
<1>4. /\ changes < MaxChanges /\ changes' = changes + 1 /\ chain' = Execute(chain, tx, now).chain
      /\ UNCHANGED <<now, cached, samples, quote, bid>>
  BY DEF Administer, Change
<1> HIDE DEF tx
<1>5. Becomes(chain, chain')
  BY <1>3, <1>4, ExecuteFine DEF MarketInv, ChainInv, Outcome
<1>6. changes' \in 0..MaxChanges
  BY <1>4, MarketAssumption DEF MarketInv, ClockInv
<1> QED
  BY <1>4, <1>5, <1>6, ChainChanges

(* An empty token account is closed by its owner.                          *)
LEMMA CloseKeeps ==
  ASSUME MarketInv, NEW a \in TokenAccounts, CloseEmpty(a)
  PROVE  MarketInv' /\ Becomes(chain, chain')
<1> DEFINE ix == [account |-> a, destination |-> a[1]]
<1>1. /\ changes < MaxChanges /\ changes' = changes + 1 /\ chain' = CloseAccount(chain, ix).chain
      /\ UNCHANGED <<now, cached, samples, quote, bid>>
  BY DEF CloseEmpty, Change
<1>2. ix.account = a /\ ix.destination = a[1] /\ a[1] \in Accounts
  BY TokenAccountIs DEF Accounts
<1> HIDE DEF ix
<1>3. Becomes(chain, chain')
  BY <1>1, <1>2, CloseAccountFine DEF MarketInv, ChainInv, Outcome
<1>4. changes' \in 0..MaxChanges
  BY <1>1, MarketAssumption DEF MarketInv, ClockInv
<1> QED
  BY <1>1, <1>3, <1>4, ChainChanges

(* Tokens come in or go out.                                               *)
LEMMA FlowKeeps ==
  ASSUME MarketInv, NEW a \in TokenAccounts, NEW n \in Int, Flow(a, n)
  PROVE  MarketInv' /\ Becomes(chain, chain')
<1> USE ChainAssumption
<1> DEFINE lamports == IF a[2] = Sol THEN n ELSE 0
           f == [chain.tok EXCEPT ![a] = chain.tok[a] + n]
           g == [chain.lam EXCEPT ![a] = chain.lam[a] + lamports]
<1>1. Fine(chain) /\ chain \in Chains
  BY DEF MarketInv, ChainInv, Fine
<1>2. /\ chain.lam \in [Accounts -> Nat] /\ chain.tok \in [TokenAccounts -> Nat \cup {Closed}]
      /\ a \in Accounts /\ a \notin Wallets
  BY <1>1 DEF Chains, Accounts
<1>3. /\ changes < MaxChanges /\ changes' = changes + 1
      /\ UNCHANGED <<now, cached, samples, quote, bid>>
      /\ chain.tok[a] # Closed /\ chain.tok[a] + n >= 0
      /\ a[2] = Sol => chain.lam[a] + n >= RentToken
      /\ chain' = [chain EXCEPT !.tok[a] = chain.tok[a] + n, !.lam[a] = chain.lam[a] + lamports]
  BY DEF Flow, Change
<1>4. chain.tok[a] \in Nat /\ chain.lam[a] \in Nat /\ chain.tok[a] + n \in Nat /\ chain.lam[a] + lamports \in Nat
  <2>1. chain.tok[a] \in Nat /\ chain.lam[a] \in Nat
    BY <1>2, <1>3
  <2> QED
    BY <1>3, <2>1
<1>5. f \in [TokenAccounts -> Nat \cup {Closed}] /\ f[a] = chain.tok[a] + n
      /\ \A x \in TokenAccounts \ {a} : f[x] = chain.tok[x]
  <2> HIDE DEF lamports
  <2> QED
    BY <1>2, <1>4
<1>6. g \in [Accounts -> Nat] /\ g[a] = chain.lam[a] + lamports /\ \A x \in Accounts \ {a} : g[x] = chain.lam[x]
  <2> HIDE DEF lamports
  <2> QED
    BY <1>2, <1>4
<1>7. chain' = [chain EXCEPT !.tok = f, !.lam = g]
  <2> HIDE DEF lamports
  <2> QED
    BY <1>1, <1>3 DEF Chains
<1> HIDE DEF f, g
<1>8. chain' \in Chains /\ chain'.tok = f /\ chain'.lam = g /\ chain'.meta = chain.meta
  BY <1>1, <1>5, <1>6, <1>7 DEF Chains
<1>9. SolBacked(chain')
  <2> SUFFICES ASSUME NEW w \in Wallets, f[<<w, Sol>>] # Closed
               PROVE  g[<<w, Sol>>] >= f[<<w, Sol>>] + RentToken
    BY <1>8 DEF SolBacked
  <2> DEFINE x == <<w, Sol>>
  <2>1. x \in TokenAccounts /\ x \in Accounts /\ x[2] = Sol
    BY DEF TokenAccounts, Accounts
  <2>2. chain.tok[x] # Closed => chain.lam[x] >= chain.tok[x] + RentToken
    BY <1>1 DEF Fine, SolBacked
  <2> HIDE DEF x
  <2>3. CASE x # a
    BY <1>5, <1>6, <2>1, <2>2, <2>3 DEF x
  <2>4. CASE x = a
    <3>1. chain.lam[a] >= chain.tok[a] + RentToken /\ lamports = n
      BY <1>3, <2>1, <2>2, <2>4
    <3> HIDE DEF lamports
    <3> QED
      BY <1>4, <1>5, <1>6, <2>4, <3>1 DEF x
  <2> QED
    BY <2>3, <2>4
<1>10. MetaFunded(chain')
  <2>1. Meta \in Accounts \ {a}
    BY <1>2 DEF Accounts
  <2> QED
    BY <1>1, <1>6, <1>8, <2>1 DEF Fine, MetaFunded
<1>11. Becomes(chain, chain')
  BY <1>8, <1>9, <1>10 DEF Becomes, Fine
<1>12. changes' \in 0..MaxChanges
  BY <1>3, MarketAssumption DEF MarketInv, ClockInv
<1> QED
  BY <1>3, <1>11, <1>12, ChainChanges

(* The window of fees never grows beyond its size.                         *)
LEMMA UpdateFeeKeeps ==
  ASSUME MarketInv, NEW fee \in Samples, UpdateFee(fee)
  PROVE  MarketInv'
<1> DEFINE R == [fee : Nat, time : Nat]
           x == [fee |-> fee, time |-> now]
           longer == Append(samples, x)
<1>1. UNCHANGED <<chain, now, cached, quote, bid, changes>> /\ samples' = PushSample(samples, fee, now)
  BY DEF UpdateFee
<1>2. x \in R
  BY MarketAssumption DEF MarketInv, ClockInv
<1>3. samples \in Seq(R) /\ Len(samples) <= FeeWindow /\ FeeWindow \in Nat
  BY MarketAssumption DEF MarketInv, ClockInv
<1>4. samples' = IF Len(longer) > FeeWindow THEN Tail(longer) ELSE longer
  BY <1>1 DEF PushSample
<1> HIDE DEF R, x
<1>5. longer \in Seq(R) /\ Len(longer) = Len(samples) + 1
  BY <1>2, <1>3
<1> HIDE DEF longer
<1>6. samples' \in Seq(R) /\ Len(samples') <= FeeWindow
  BY <1>3, <1>4, <1>5
<1>7. ClockInv'
  BY <1>1, <1>6 DEF MarketInv, ClockInv, R
<1>8. ChainInv' /\ QuoteInv' /\ BidInv'
  BY <1>1 DEF MarketInv, ChainInv, QuoteInv, BidInv, IsSwap
<1> QED
  BY <1>7, <1>8 DEF MarketInv

(* Steps that touch neither the chain nor the bid.                         *)
LEMMA OthersKeep ==
  ASSUME MarketInv, RemoveOpportunity \/ Tick \/ ForgetMetadata \/ Terminating \/ UNCHANGED vars
  PROVE  MarketInv'
<1>1. UNCHANGED <<chain, samples, bid, changes>> /\ quote.request' = quote.request /\ quote.opp' = quote.opp
      /\ cached' \in {cached, None} /\ now' \in 0..MaxTime
  <2>1. now \in 0..MaxTime /\ MaxTime \in Nat
    BY MarketAssumption DEF MarketInv, ClockInv
  <2> QED
    BY <2>1 DEF RemoveOpportunity, Tick, ForgetMetadata, Terminating, vars, MarketInv, QuoteInv
<1>2. QuoteInv'
  <2>1. quote' \in {quote, [quote EXCEPT !.live = FALSE]}
    BY DEF RemoveOpportunity, Tick, ForgetMetadata, Terminating, vars
  <2> QED
    BY <1>1, <2>1 DEF MarketInv, QuoteInv
<1>3. ChainInv' /\ ClockInv' /\ BidInv'
  BY <1>1 DEF MarketInv, ChainInv, ClockInv, BidInv, IsSwap
<1> QED
  BY <1>2, <1>3 DEF MarketInv

(* A bid for a permission.                                                 *)
LEMMA BidsKeep ==
  ASSUME MarketInv, NEW tx \in BidTxs, SendBid(tx)
  PROVE  MarketInv'
BY MarketAssumption, SendKeeps DEF SendBid

(* Every step of the server, a searcher, the chain or anybody else keeps   *)
(* the invariant: wrapped SOL stays backed, the metadata account keeps     *)
(* its rent, and a program that is initialized stays so                    *)
(* (ExpressRelay.tla, BidVerification.tla).                                *)
THEOREM MarketStep == MarketInv /\ [MarketNext]_vars => MarketInv'
<1> SUFFICES ASSUME MarketInv, [MarketNext]_vars PROVE MarketInv'
  OBVIOUS
<1>1. ASSUME NEW q \in Requests, GetQuote(q) PROVE MarketInv'
  BY <1>1, GetQuoteKeeps
<1>2. ASSUME NEW b \in BidParams, SendSdkSwap(b) \/ SendOtherSwap(b) PROVE MarketInv'
  BY <1>2, SearcherKeeps
<1>3. ASSUME NEW tx \in BidTxs, SendBid(tx) PROVE MarketInv'
  BY <1>3, BidsKeep
<1>4. CASE VerifyFields \/ VerifySignatures \/ Simulate \/ SimulationUnavailable \/ AnswerQuote
  BY <1>4, VerifyKeeps
<1>5. CASE Lands
  BY <1>5, LandsKeeps
<1>6. ASSUME NEW ix \in AdminSteps, Administer(ix) PROVE MarketInv'
  BY <1>6, AdministerKeeps
<1>7. ASSUME NEW f \in Flows, Flow(f[1], f[2]) PROVE MarketInv'
  <2>1. f[1] \in TokenAccounts /\ f[2] \in Int
    BY MarketAssumption
  <2> QED
    BY <1>7, <2>1, FlowKeeps
<1>8. ASSUME NEW a \in TokenAccounts, CloseEmpty(a) PROVE MarketInv'
  BY <1>8, CloseKeeps
<1>9. ASSUME NEW fee \in Samples, UpdateFee(fee) PROVE MarketInv'
  BY <1>9, UpdateFeeKeeps
<1>10. CASE RemoveOpportunity \/ Tick \/ ForgetMetadata \/ Terminating \/ UNCHANGED vars
  BY <1>10, OthersKeep
<1> QED
  BY <1>1, <1>2, <1>3, <1>4, <1>5, <1>6, <1>7, <1>8, <1>9, <1>10 DEF MarketNext

(* The invariant holds in every behaviour of the market.                   *)
THEOREM MarketInvariant == MarketSpec => []MarketInv
BY MarketStarts, MarketStep, PTL DEF MarketSpec

(* Of it follows the type invariant: in particular the fee window is       *)
(* never longer than FeeWindow, and what is wrapped is backed, whatever    *)
(* transactions are executed.                                              *)
THEOREM MarketIsTyped == MarketSpec => []MarketTypeOK
<1>1. MarketInv => MarketTypeOK
  BY DEF MarketInv, ChainInv, ClockInv, BidInv, MarketTypeOK, Fine
<1> QED
  BY <1>1, MarketInvariant, PTL

(***************************************************************************)
(* A transaction that succeeds: every instruction of it did, one after     *)
(* another.                                                                *)
(***************************************************************************)
(* Where the last state of a run has no error, every instruction was       *)
(* signed for and succeeded on the chain the one before it left.           *)
LEMMA RunSucceeds ==
  ASSUME NEW memos, NEW tx \in Transactions(memos), NEW c, Fine(c), NEW n,
         NEW f, f = Run(c, tx, n), f[Len(tx.ixs)].err = None
  PROVE  /\ f[0].chain = c
         /\ \A i \in 1..Len(tx.ixs) :
               LET r == Step(f[i - 1].chain, tx, tx.ixs[i], n)
               IN  /\ Fine(f[i - 1].chain) /\ SignersOf(tx.ixs[i]) \subseteq tx.signers
                   /\ r.err = None /\ f[i].chain = r.chain
<1> DEFINE L == Len(tx.ixs)
<1>1. L \in Nat
  BY TransactionIs
<1>2. f \in [0..L -> RunStates] /\ RunsBy(f, c, tx, n)
  BY RunIs
<1>3. ASSUME NEW k \in 0..L PROVE f[k].err = None
  <2> SUFFICES ASSUME f[k].err # None PROVE FALSE
    OBVIOUS
  <2> DEFINE Bad == {i \in 0..L : i >= k => f[i].err # None}
  <2>1. 0 \in Bad
    BY <1>1
  <2>2. ASSUME NEW i \in 0..(L - 1), i \in Bad PROVE i + 1 \in Bad
    <3>1. i + 1 \in 1..L /\ i + 1 \in 0..L /\ (i + 1) - 1 = i /\ i \in Nat
      BY <1>1
    <3>2. f[i + 1] = Executed(f[i], tx, i + 1, n)
      BY <1>2, <3>1 DEF RunsBy
    <3>3. f[i].err # None => f[i + 1] = f[i]
      BY <3>2 DEF Executed
    <3>4. i + 1 >= k => i >= k \/ i + 1 = k
      BY <1>1
    <3> QED
      BY <2>2, <3>1, <3>3, <3>4
  <2>3. 0..L \subseteq Bad
    <3> HIDE DEF Bad, L
    <3> QED
      BY <1>1, <2>1, <2>2, InductionUpTo
  <2> QED
    BY <1>1, <2>3
<1>4. ASSUME NEW i \in 1..L
      PROVE  LET r == Step(f[i - 1].chain, tx, tx.ixs[i], n)
             IN  /\ Fine(f[i - 1].chain) /\ SignersOf(tx.ixs[i]) \subseteq tx.signers
                 /\ r.err = None /\ f[i].chain = r.chain
  <2> DEFINE r == Step(f[i - 1].chain, tx, tx.ixs[i], n)
             s == IF SignersOf(tx.ixs[i]) \subseteq tx.signers THEN r ELSE Fail("MissingSignature", f[i - 1].chain)
  <2>1. i - 1 \in 0..L /\ i \in 0..L
    BY <1>1
  <2>2. f[i - 1].err = None /\ f[i].err = None /\ Fine(f[i - 1].chain)
    BY <1>2, <1>3, <2>1 DEF RunStates
  <2>3. f[i] = [err |-> s.err, chain |-> s.chain, at |-> i]
    BY <1>2, <2>2 DEF RunsBy, Executed
  <2>4. s.err = None /\ f[i].chain = s.chain
    <3> HIDE DEF s
    <3> QED
      BY <2>2, <2>3
  <2>5. "MissingSignature" # None
    BY ChainAssumption DEF Failures
  <2> HIDE DEF r
  <2>6. SignersOf(tx.ixs[i]) \subseteq tx.signers /\ s = r
    BY <2>4, <2>5 DEF Fail
  <2> QED
    BY <2>2, <2>4, <2>6 DEF r
<1>5. f[0].chain = c
  BY <1>2 DEF RunsBy
<1> QED
  BY <1>4, <1>5

(* A bid that lands has been paid, once, and every check of a permission   *)
(* in its transaction found it and nothing else.                           *)
LEMMA TheBid ==
  ASSUME NEW tx \in BidTxs, ProgramInstruction(tx, {"SubmitBid"}) # None,
         NEW k, k = ProgramInstruction(tx, {"SubmitBid"})
  PROVE  /\ k \in 1..Len(tx.ixs) /\ tx.ixs[k] \in BidInstructions /\ tx.ixs[k].op = "SubmitBid"
         /\ SubmitBids(tx) = {k}
         /\ \A i \in 1..Len(tx.ixs) : \/ i = k
                                      \/ tx.ixs[i].op = "Check"
                                      \/ tx.ixs[i] \in BidInstructions /\ tx.ixs[i].op = "SubmitBid" /\ tx.ixs[i].cpi
<1> DEFINE own == ProgramInstructions(tx)
<1>1. tx \in Transactions(Memos) /\ \A i \in DOMAIN tx.ixs : tx.ixs[i].op \in {"SubmitBid", "Check"}
  BY MarketAssumption
<1>2. /\ Len(tx.ixs) \in Nat /\ DOMAIN tx.ixs = 1..Len(tx.ixs)
      /\ \A i \in 1..Len(tx.ixs) : tx.ixs[i] \in Instructions(Memos)
  BY <1>1, TransactionIs
<1>3. own = SubmitBids(tx)
  BY <1>1, <1>2 DEF ProgramInstructions, Positions, ProgramOps, SubmitBids
<1>4. Cardinality(own) = 1 /\ k \in own /\ k = CHOOSE i \in own : TRUE
  <2> HIDE DEF own
  <2>1. Cardinality(own) = 1 /\ k = CHOOSE i \in own : TRUE
    BY DEF ProgramInstruction, own
  <2>2. own # {}
    BY <2>1, FS_EmptySet
  <2> QED
    BY <2>1, <2>2
<1>5. own = {k}
  <2>1. IsFiniteSet(own)
    <3>1. own \subseteq 1..Len(tx.ixs)
      BY <1>2 DEF ProgramInstructions, Positions
    <3>2. IsFiniteSet(1..Len(tx.ixs))
      BY <1>2, FS_Interval
    <3> QED
      BY <3>1, <3>2, FS_Subset
  <2> HIDE DEF own
  <2> QED
    BY <1>4, <2>1, FS_Singleton
<1>6. \A i \in 1..Len(tx.ixs) : tx.ixs[i].op = "SubmitBid" => tx.ixs[i] \in BidInstructions
  BY <1>2 DEF Instructions, BidInstructions, TokenInstructions, SystemInstructions, SwapInstructions, AdminInstructions
<1> HIDE DEF own
<1> QED
  BY <1>1, <1>2, <1>3, <1>4, <1>5, <1>6 DEF SubmitBids

(* A transaction with one bid, which was paid, and whose checks all found  *)
(* a bid.                                                                  *)
BidLands(c, d, tx, k) ==
  /\ k \in 1..Len(tx.ixs) /\ tx.ixs[k] \in BidInstructions /\ tx.ixs[k].op = "SubmitBid"
  /\ tx.ixs[k].searcher # Meta /\ c.meta # None
  /\ SubmitBids(tx) = {k}
  /\ BidPaid(c, d, tx.ixs[k])
  /\ \A i \in Positions(tx, {"Check"}) : Matching(tx, tx.ixs[i].permission, tx.ixs[i].router) # {}

(* So is every transaction of BidTxs that executes, once it passed the     *)
(* check on its instructions.                                              *)
LEMMA BidLanded ==
  ASSUME NEW tx \in BidTxs, NEW c, Fine(c), NEW n,
         ProgramInstruction(tx, {"SubmitBid"}) # None, Execute(c, tx, n).err = None
  PROVE  BidLands(c, Execute(c, tx, n).chain, tx, ProgramInstruction(tx, {"SubmitBid"}))
<1> DEFINE L == Len(tx.ixs)
           k == ProgramInstruction(tx, {"SubmitBid"})
           f == Run(c, tx, n)
           d == f[k].chain
           r(i) == Step(f[i - 1].chain, tx, tx.ixs[i], n)
<1>1. tx \in Transactions(Memos)
  BY MarketAssumption
<1>2. L \in Nat /\ DOMAIN tx.ixs = 1..L /\ Meta \notin tx.signers
  BY <1>1, TransactionIs
<1>3. f[L].err = None /\ Execute(c, tx, n).chain = f[L].chain
  BY <1>1, ExecuteFine
<1>4. /\ k \in 1..L /\ tx.ixs[k] \in BidInstructions /\ tx.ixs[k].op = "SubmitBid"
      /\ SubmitBids(tx) = {k}
      /\ \A i \in 1..L : \/ i = k
                         \/ tx.ixs[i].op = "Check"
                         \/ tx.ixs[i] \in BidInstructions /\ tx.ixs[i].op = "SubmitBid" /\ tx.ixs[i].cpi
  BY TheBid
<1> HIDE DEF k
<1>5. /\ f[0].chain = c
      /\ \A i \in 1..L : /\ Fine(f[i - 1].chain) /\ SignersOf(tx.ixs[i]) \subseteq tx.signers
                         /\ r(i).err = None /\ f[i].chain = r(i).chain
  BY <1>1, <1>3, RunSucceeds
<1> HIDE DEF f, L
<1>6. ASSUME NEW i \in 1..L, tx.ixs[i] \in BidInstructions, tx.ixs[i].op = "SubmitBid"
      PROVE  /\ tx.ixs[i].searcher # Meta /\ ~tx.ixs[i].cpi /\ f[i - 1].chain.meta # None
             /\ BidPaid(f[i - 1].chain, f[i].chain, tx.ixs[i])
  <2> DEFINE ix == tx.ixs[i]
             b == f[i - 1].chain
  <2>1. ix.searcher # Meta
    <3>1. ix.searcher \in SignersOf(ix)
      BY <1>6 DEF SignersOf
    <3> QED
      BY <1>2, <1>5, <3>1
  <2>2. r(i) = SubmitBid(b, tx, ix, n)
    BY <1>6 DEF Step
  <2> HIDE DEF ix, b, r
  <2>3. /\ Fine(b) /\ ix \in BidInstructions /\ ix.op = "SubmitBid"
        /\ r(i).err = None /\ f[i].chain = r(i).chain
    BY <1>5, <1>6 DEF ix, b
  <2>4. b.meta # None /\ ~ix.cpi /\ BidPaid(b, f[i].chain, ix)
    BY <2>1, <2>2, <2>3, SubmitBidIs
  <2> QED
    BY <2>1, <2>4 DEF ix, b
<1>7. ASSUME NEW i \in 1..L, tx.ixs[i].op = "Check"
      PROVE  /\ f[i].chain = f[i - 1].chain
             /\ Matching(tx, tx.ixs[i].permission, tx.ixs[i].router) # {}
  <2> DEFINE ix == tx.ixs[i]
             b == f[i - 1].chain
  <2>1. r(i) = CheckPermission(b, tx, ix)
    BY <1>7 DEF Step
  <2> HIDE DEF ix, b, r
  <2>2. Fine(b) /\ r(i).err = None /\ f[i].chain = r(i).chain
    BY <1>5 DEF b
  <2> QED
    BY <2>1, <2>2, CheckIs DEF ix, b
<1>8. \A i \in 1..L : i = k \/ tx.ixs[i].op = "Check"
  BY <1>4, <1>6
<1> HIDE DEF d
<1> DEFINE At(i) == f[i].chain = IF i < k THEN c ELSE d
           Good == {i \in 0..L : At(i)}
<1>9. 0..L \subseteq Good
  <2>1. 0 \in Good
    BY <1>2, <1>4, <1>5
  <2>2. ASSUME NEW i \in 0..(L - 1), i \in Good PROVE i + 1 \in Good
    <3>1. i + 1 \in 1..L /\ i + 1 \in 0..L /\ (i + 1) - 1 = i
      BY <1>2
    <3>2. CASE i + 1 = k
      BY <1>2, <3>1, <3>2 DEF d
    <3>3. CASE i + 1 # k
      <4>1. f[i + 1].chain = f[i].chain
        BY <1>7, <1>8, <3>1, <3>3
      <4>2. i < k <=> i + 1 < k
        BY <1>2, <1>4, <3>1, <3>3
      <4> QED
        BY <2>2, <3>1, <4>1, <4>2
    <3> QED
      BY <3>2, <3>3
  <2> HIDE DEF Good
  <2> QED
    BY <1>2, <2>1, <2>2, InductionUpTo
<1>10. f[k - 1].chain = c /\ f[L].chain = d
  <2>1. At(k - 1) /\ At(L) /\ k - 1 < k /\ ~(L < k)
    BY <1>2, <1>4, <1>9
  <2> QED
    BY <2>1
<1>11. BidPaid(c, d, tx.ixs[k]) /\ tx.ixs[k].searcher # Meta /\ c.meta # None
  BY <1>4, <1>6, <1>10 DEF d
<1>12. \A i \in Positions(tx, {"Check"}) : Matching(tx, tx.ixs[i].permission, tx.ixs[i].router) # {}
  BY <1>2, <1>7 DEF Positions
<1> QED
  BY <1>3, <1>4, <1>10, <1>11, <1>12 DEF BidLands, k, L

(* The fees of the only bid there is for a permission.                     *)
LEMMA FeesOfOne ==
  ASSUME NEW c, NEW tx, NEW ix, NEW k, Matching(tx, ix.permission, ix.router) = {k},
         Share(tx.ixs[k].bid, RouterSplit(c, ix.router), Precision) \in Nat
  PROVE  PermissionFees(c, tx, ix) = Share(tx.ixs[k].bid, RouterSplit(c, ix.router), Precision)
<1> DEFINE share(i) == Share(tx.ixs[i].bid, RouterSplit(c, ix.router), Precision)
           S == {k}
           next(f, s) == LET x == CHOOSE y \in s : TRUE IN share(x) + f[s \ {x}]
           Is(f) == f = [s \in SUBSET S |-> IF s = {} THEN 0 ELSE next(f, s)]
           g == [s \in SUBSET S |-> IF s = {} THEN 0 ELSE share(k)]
           h == CHOOSE f : Is(f)
<1>1. PermissionFees(c, tx, ix) = h[S]
  BY DEF PermissionFees, MapThenSumSet, MapThenFoldSet
<1>2. share(k) \in Nat
  OBVIOUS
<1> HIDE DEF share
<1>3. ASSUME NEW f, f[{}] = 0 PROVE next(f, S) = share(k)
  <2>1. (CHOOSE y \in S : TRUE) = k /\ S \ {k} = {}
    OBVIOUS
  <2>2. next(f, S) = share(k) + f[{}]
    <3> HIDE DEF S
    <3> QED
      BY <2>1
  <2> QED
    BY <1>2, <1>3, <2>2
<1>4. \A s \in SUBSET S : s = {} \/ s = S
  OBVIOUS
<1> HIDE DEF S, next
<1>5. Is(g)
  <2>1. g[{}] = 0
    OBVIOUS
  <2> HIDE DEF g
  <2>2. ASSUME NEW s \in SUBSET S PROVE g[s] = IF s = {} THEN 0 ELSE next(g, s)
    <3>1. next(g, S) = share(k)
      BY <1>3, <2>1
    <3> QED
      BY <1>4, <3>1 DEF g
  <2> QED
    BY <2>2 DEF g
<1>6. Is(h)
  <2> HIDE DEF g
  <2> QED
    BY <1>5
<1> HIDE DEF h
<1>7. h[{}] = 0
  BY <1>6
<1>8. S # {} /\ S \in SUBSET S
  BY DEF S
<1>9. h[S] = next(h, S)
  BY <1>6, <1>8
<1> QED
  BY <1>1, <1>3, <1>7, <1>9 DEF share

(* What a wallet has after one or three payments.                          *)
Part(w, party, n) == IF w = party THEN n ELSE 0

(* One payment.                                                            *)
LEMMA PaidIs ==
  ASSUME NEW c, Fine(c), NEW from \in Wallets, NEW to \in Wallets, NEW n \in Nat,
         NEW d, Paid(c, d, from, to, n), NEW w \in Wallets
  PROVE  d.lam[w] = c.lam[w] + Part(w, to, n) - Part(w, from, n) /\ c.lam[w] \in Nat /\ d.lam[w] \in Nat
<1> DEFINE l == c.lam
           g == Moved(l, from, to, n)
<1>1. l \in [Accounts -> Nat] /\ from \in Accounts /\ to \in Accounts /\ w \in Accounts /\ n <= l[from]
  BY DEF Fine, Chains, Accounts, Paid
<1> HIDE DEF l
<1>2. /\ g \in [Accounts -> Nat]
      /\ \A x \in Accounts \ {from, to} : g[x] = l[x]
      /\ from = to => g = l
      /\ from # to => g[from] = l[from] - n /\ g[to] = l[to] + n
  BY <1>1, MovedIs
<1>3. d.lam = g
  BY DEF Paid, l
<1> HIDE DEF g
<1>4. l[w] \in Nat /\ g[w] \in Nat
  BY <1>1, <1>2
<1>5. g[w] = l[w] + Part(w, to, n) - Part(w, from, n)
  <2>1. CASE w \notin {from, to}
    BY <1>1, <1>2, <1>4, <2>1 DEF Part
  <2>2. CASE w \in {from, to} /\ from = to
    BY <1>2, <1>4, <2>2 DEF Part
  <2>3. CASE w = from /\ from # to
    BY <1>2, <1>4, <2>3 DEF Part
  <2>4. CASE w = to /\ from # to
    BY <1>2, <1>4, <2>4 DEF Part
  <2> QED
    BY <2>1, <2>2, <2>3, <2>4
<1> QED
  BY <1>3, <1>4, <1>5 DEF l

(* What a payment changes for a wallet, and the rent it leaves.            *)
LEMMA BidPaidIs ==
  ASSUME NEW c, Fine(c), c.meta # None, NEW ix \in BidInstructions, ix.op = "SubmitBid", ix.searcher # Meta,
         NEW d, BidPaid(c, d, ix), NEW p, p = PartsOf(c, ix), NEW w \in Wallets
  PROVE  /\ d.lam[w] - c.lam[w] = Part(w, ix.router, p.router) + Part(w, c.meta.feeReceiver, p.relayer)
                                  + Part(w, Meta, p.program) - Part(w, ix.searcher, ix.bid)
         /\ w \in {ix.searcher, ix.router, c.meta.feeReceiver} => d.lam[w] = c.lam[w] \/ d.lam[w] >= RentWallet
<1> DEFINE sr == ix.searcher
           ro == ix.router
           fr == c.meta.feeReceiver
           n == p.router
           m == p.relayer
           o == p.program
<1>1. sr \in Wallets /\ ro \in Wallets /\ fr \in Wallets /\ Meta \in Wallets /\ ix.bid \in Nat
  BY ChainAssumption DEF BidInstructions, Fine, Chains, ExpressRelayMetadata
<1>2. n \in Nat /\ m \in Nat /\ o \in Nat /\ n + m + o = ix.bid
  BY PartsAre
<1>3. PICK c1, c2 : /\ Fine(c1) /\ Fine(c2)
                    /\ Paid(c, c1, sr, ro, n) /\ (n = 0 \/ c.lam[ro] + n >= MinRent(ro))
                    /\ Paid(c1, c2, sr, fr, m) /\ (m = 0 \/ c1.lam[fr] + m >= MinRent(fr))
                    /\ Paid(c2, d, sr, Meta, o)
  BY DEF BidPaid
<1>4. sr # Meta /\ ix.bid + RentWallet <= c.lam[sr]
  BY DEF BidPaid
<1>5. RentWallet \in Nat /\ RentMeta \in Nat /\ RentWallet <= RentMeta /\ c.lam[Meta] >= RentMeta
  BY ChainAssumption DEF Fine, MetaFunded
<1>6. \A x \in Wallets : MinRent(x) >= RentWallet
  BY <1>5 DEF MinRent
<1> HIDE DEF sr, ro, fr, n, m, o
<1>7. /\ c1.lam[w] = c.lam[w] + Part(w, ro, n) - Part(w, sr, n) /\ c.lam[w] \in Nat /\ c1.lam[w] \in Nat
      /\ c2.lam[w] = c1.lam[w] + Part(w, fr, m) - Part(w, sr, m) /\ c2.lam[w] \in Nat
      /\ d.lam[w] = c2.lam[w] + Part(w, Meta, o) - Part(w, sr, o) /\ d.lam[w] \in Nat
  BY <1>1, <1>2, <1>3, PaidIs
<1>8. Part(w, sr, n) + Part(w, sr, m) + Part(w, sr, o) = Part(w, sr, ix.bid)
  BY <1>1, <1>2 DEF Part
<1>9. /\ Part(w, ro, n) \in Nat /\ Part(w, fr, m) \in Nat /\ Part(w, Meta, o) \in Nat
      /\ Part(w, sr, n) \in Nat /\ Part(w, sr, m) \in Nat /\ Part(w, sr, o) \in Nat /\ Part(w, sr, ix.bid) \in Nat
  BY <1>1, <1>2 DEF Part
<1>10. d.lam[w] - c.lam[w] = Part(w, ro, n) + Part(w, fr, m) + Part(w, Meta, o) - Part(w, sr, ix.bid)
  BY <1>7, <1>8, <1>9
<1>11. w \in {sr, ro, fr} => d.lam[w] = c.lam[w] \/ d.lam[w] >= RentWallet
  <2>1. CASE w = sr
    <3>1. Part(w, sr, ix.bid) = ix.bid
      BY <2>1 DEF Part
    <3> QED
      BY <1>1, <1>4, <1>5, <1>7, <1>9, <1>10, <2>1, <3>1
  <2>2. CASE w # sr
    <3>1. Part(w, sr, n) = 0 /\ Part(w, sr, m) = 0 /\ Part(w, sr, o) = 0
      BY <2>2 DEF Part
    <3>2. Part(w, ro, n) = 0 \/ c.lam[w] + Part(w, ro, n) >= RentWallet
      BY <1>1, <1>3, <1>5, <1>6, <1>7, <1>2 DEF Part, MinRent
    <3>3. Part(w, fr, m) = 0 \/ c1.lam[w] + Part(w, fr, m) >= RentWallet
      BY <1>1, <1>3, <1>5, <1>6, <1>7, <1>2 DEF Part, MinRent
    <3>4. Part(w, Meta, o) = 0 \/ c.lam[w] >= RentWallet
      BY <1>5, <1>7 DEF Part
    <3> QED
      BY <1>5, <1>7, <1>9, <3>1, <3>2, <3>3, <3>4
  <2> QED
    BY <2>1, <2>2
<1> QED
  BY <1>10, <1>11 DEF sr, ro, fr, n, m, o

(***************************************************************************)
(* What a payment does, in every behaviour.                                *)
(***************************************************************************)
(* What a step does to the chain.                                          *)
LEMMA ChainStep ==
  ASSUME MarketInv, [MarketNext]_vars
  PROVE  chain' = chain \/ Becomes(chain, chain')
<1>1. ASSUME NEW q \in Requests, GetQuote(q) PROVE chain' = chain
  BY <1>1 DEF GetQuote
<1>2. ASSUME NEW b \in BidParams, SendSdkSwap(b) \/ SendOtherSwap(b) PROVE chain' = chain
  BY <1>2 DEF SendSdkSwap, SendOtherSwap, SendSwap
<1>3. ASSUME NEW tx \in BidTxs, SendBid(tx) PROVE chain' = chain
  BY <1>3 DEF SendBid
<1>4. CASE VerifyFields \/ VerifySignatures \/ Simulate \/ SimulationUnavailable \/ AnswerQuote
  BY <1>4 DEF VerifyFields, VerifySignatures, Simulate, SimulationUnavailable, AnswerQuote
<1>5. CASE Lands
  BY <1>5, LandsKeeps
<1>6. ASSUME NEW ix \in AdminSteps, Administer(ix) PROVE Becomes(chain, chain')
  BY <1>6, AdministerKeeps
<1>7. ASSUME NEW f \in Flows, Flow(f[1], f[2]) PROVE Becomes(chain, chain')
  <2>1. f[1] \in TokenAccounts /\ f[2] \in Int
    BY MarketAssumption
  <2> QED
    BY <1>7, <2>1, FlowKeeps
<1>8. ASSUME NEW a \in TokenAccounts, CloseEmpty(a) PROVE Becomes(chain, chain')
  BY <1>8, CloseKeeps
<1>9. ASSUME NEW fee \in Samples, UpdateFee(fee) PROVE chain' = chain
  BY <1>9 DEF UpdateFee
<1>10. CASE RemoveOpportunity \/ Tick \/ ForgetMetadata \/ Terminating \/ UNCHANGED vars
  BY <1>10 DEF RemoveOpportunity, Tick, ForgetMetadata, Terminating, vars
<1> QED
  BY <1>1, <1>2, <1>3, <1>4, <1>5, <1>6, <1>7, <1>8, <1>9, <1>10 DEF MarketNext

(* A bid that is not for an opportunity and lands.                         *)
LEMMA LandingIs ==
  ASSUME MarketInv, Landing, ~IsSwap
  PROVE  BidLands(chain, chain', bid.tx, ProgramInstruction(bid.tx, {"SubmitBid"})) /\ Fine(chain)
<1>1. /\ bid.stage = "accepted" /\ chain' = Execute(chain, bid.tx, now).chain
      /\ bid' = [bid EXCEPT !.stage = IF Execute(chain, bid.tx, now).err = None THEN "landed" ELSE "failed"]
  BY DEF Landing, Lands
<1>2. bid.tx \in BidTxs /\ ProgramInstruction(bid.tx, {"SubmitBid"}) # None /\ Fine(chain)
  BY <1>1 DEF MarketInv, BidInv, ChainInv
<1>3. Execute(chain, bid.tx, now).err = None
  <2>1. bid'.stage = "landed" /\ bid \in [stage : Stages, tx : Transactions(Memos) \cup {None}, sdk : BOOLEAN]
    BY DEF Landing, MarketInv, BidInv
  <2> DEFINE err == Execute(chain, bid.tx, now).err
  <2> HIDE DEF err
  <2>2. bid' = [bid EXCEPT !.stage = IF err = None THEN "landed" ELSE "failed"]
    BY <1>1 DEF err
  <2>3. err = None
    BY <2>1, <2>2
  <2> QED
    BY <2>3 DEF err
<1> QED
  BY <1>1, <1>2, <1>3, BidLanded

(* Every account that a payment changes is left with the rent of an        *)
(* account, and the admin cannot withdraw the rent of the metadata.        *)
THEOREM RentIsKept == MarketSpec => RentKept
<1>1. ASSUME MarketInv, [MarketNext]_vars, chain.meta # None
      PROVE  chain'.lam[Meta] >= RentMeta
  <2>1. Fine(chain)
    BY <1>1 DEF MarketInv, ChainInv
  <2>2. Fine(chain') /\ chain'.meta # None
    BY <1>1, <2>1, ChainStep DEF Becomes
  <2> QED
    BY <2>2 DEF Fine, MetaFunded
<1>2. ASSUME MarketInv, Landing, ~IsSwap, NEW w \in {BidIx.searcher, BidIx.router, chain.meta.feeReceiver}
      PROVE  RentLeft(w)
  <2> DEFINE ix == BidIx
  <2>1. /\ ix \in BidInstructions /\ ix.op = "SubmitBid" /\ ix.searcher # Meta
        /\ chain.meta # None /\ Fine(chain) /\ BidPaid(chain, chain', ix)
    BY <1>2, LandingIs DEF BidLands, BidIx
  <2> HIDE DEF ix
  <2>2. w \in Wallets
    BY <2>1 DEF BidInstructions, Fine, Chains, ExpressRelayMetadata, ix
  <2>3. w \in {ix.searcher, ix.router, chain.meta.feeReceiver}
    BY <1>2 DEF ix
  <2> QED
    BY <2>1, <2>2, <2>3, BidPaidIs DEF RentLeft
<1>3. MarketInv /\ [MarketNext]_vars =>
         /\ chain.meta # None => chain'.lam[Meta] >= RentMeta
         /\ (Landing /\ ~IsSwap) => \A w \in {BidIx.searcher, BidIx.router, chain.meta.feeReceiver} : RentLeft(w)
  BY <1>1, <1>2
<1> QED
  BY <1>3, MarketInvariant, PTL DEF MarketSpec, RentKept

(* A transaction in which the program for sale finds its permission has    *)
(* paid for it, with exactly one bid, and every lamport of it is accounted *)
(* for.                                                                    *)
THEOREM PermissionIsPaid == MarketSpec => PermissionPaid
<1>1. ASSUME MarketInv, Landing, ~IsSwap, NEW i \in Positions(bid.tx, {"Check"})
      PROVE  PaidInParts(bid.tx.ixs[i])
  <2> DEFINE k == ProgramInstruction(bid.tx, {"SubmitBid"})
             ix == bid.tx.ixs[k]
             check == bid.tx.ixs[i]
             found == Matching(bid.tx, check.permission, check.router)
             p == PartsOf(chain, ix)
  <2>1. /\ ix \in BidInstructions /\ ix.op = "SubmitBid" /\ ix.searcher # Meta
        /\ chain.meta # None /\ Fine(chain) /\ BidPaid(chain, chain', ix)
        /\ SubmitBids(bid.tx) = {k} /\ found # {}
    BY <1>1, LandingIs DEF BidLands
  <2>2. BidIx = ix
    BY DEF BidIx
  <2> HIDE DEF k
  <2>3. found = {k} /\ check.router = ix.router
    BY <2>1 DEF Matching
  <2> HIDE DEF ix
  <2>4. Cardinality(found) = 1
    <3> HIDE DEF found
    <3> QED
      BY <2>3, FS_Singleton
  <2>5. /\ p.router \in Nat /\ p.relayer \in Nat /\ p.program \in Nat
        /\ p.router + p.relayer + p.program = ix.bid
        /\ p.router = Share(ix.bid, RouterSplit(chain, ix.router), Precision)
    BY <2>1, PartsAre
  <2> HIDE DEF check
  <2>6. PermissionFees(chain, bid.tx, check) = p.router
    <3>1. Share(bid.tx.ixs[k].bid, RouterSplit(chain, check.router), Precision) = p.router
      BY <2>3, <2>5 DEF ix
    <3> HIDE DEF p
    <3>2. Share(bid.tx.ixs[k].bid, RouterSplit(chain, check.router), Precision) \in Nat
      BY <2>5, <3>1
    <3> QED
      BY <2>3, <3>1, <3>2, FeesOfOne DEF found
  <2>7. BidSplit(BidIx.bid, RouterSplit(chain, check.router), chain.meta.splitRelayer) = p
    BY <2>2, <2>3 DEF PartsOf
  <2> HIDE DEF p
  <2>8. ASSUME NEW w \in Wallets
        PROVE  chain'.lam[w] - chain.lam[w]
                 = (IF w = check.router THEN p.router ELSE 0) + (IF w = chain.meta.feeReceiver THEN p.relayer ELSE 0)
                   + (IF w = Meta THEN p.program ELSE 0) - (IF w = ix.searcher THEN ix.bid ELSE 0)
    BY <2>1, <2>3, BidPaidIs DEF Part, p
  <2> QED
    BY <2>2, <2>4, <2>5, <2>6, <2>7, <2>8 DEF found, check, PaidInParts
<1>2. MarketInv /\ [MarketNext]_vars =>
         ((Landing /\ ~IsSwap) => \A i \in Positions(bid.tx, {"Check"}) : PaidInParts(bid.tx.ixs[i]))
  BY <1>1
<1> QED
  BY <1>2, MarketInvariant, PTL DEF MarketSpec, PermissionPaid

(***************************************************************************)
(* Swaps that land.                                                        *)
(***************************************************************************)
(* The instructions of other programs that a swap may have around it.      *)
QuietOps == {"Transfer", "CloseAccount", "SyncNative", "CreateAta", "Memo", "SetComputeUnitPrice"}
Quiet == {ix \in Instructions(Memos) : ix.op \in QuietOps}

(* What the checks on a swap leave of it: what it agrees with, whatever    *)
(* the metadata was when it was checked.                                   *)
Agrees(opp, ix) ==
  /\ ix.user = opp.user /\ ix.mintUser = opp.mintUser /\ ix.mintSearcher = opp.mintSearcher
  /\ ix.routerAccount = <<opp.router, MintOfFee(ix)>>
  /\ ix.args.feeToken = opp.feeToken
  /\ SpecifiedSide(opp) = "user" => ix.args.amountUser = opp.amountUser
  /\ IF ix.op = "SwapV2" THEN ix.args.referral = opp.referral /\ ix.args.platform = opp.platform
     ELSE ix.args.referral * BpsToPpm = opp.referral

(* A verified transaction has one swap, for its opportunity; what is       *)
(* around it is quiet or a bid called by another program, and closes       *)
(* accounts of the user and the searcher only.                             *)
SwapOf(opp, tx, k) ==
  /\ k \in 1..Len(tx.ixs) /\ tx.ixs[k] \in SwapInstructions /\ Agrees(opp, tx.ixs[k])
  /\ \A i \in 1..Len(tx.ixs) : \/ i = k \/ tx.ixs[i] \in Quiet
                               \/ tx.ixs[i] \in BidInstructions /\ tx.ixs[i].op = "SubmitBid" /\ tx.ixs[i].cpi
  /\ \A i \in 1..Len(tx.ixs) : tx.ixs[i].op = "CloseAccount" =>
        tx.ixs[i].account \in {<<tx.ixs[k].user, Sol>>, <<tx.ixs[k].searcher, Sol>>}

(* The checks on the instructions of a swap leave one such transaction.    *)
LEMMA VerifiedIs ==
  ASSUME NEW opp, NEW tx \in Transactions(Memos), Verified(opp, tx),
         NEW k, k = ProgramInstruction(tx, {"Swap", "SwapV2"})
  PROVE  SwapOf(opp, tx, k)
<1> DEFINE own == ProgramInstructions(tx)
           ix == tx.ixs[k]
<1>1. /\ Len(tx.ixs) \in Nat /\ DOMAIN tx.ixs = 1..Len(tx.ixs)
      /\ \A i \in 1..Len(tx.ixs) : tx.ixs[i] \in Instructions(Memos)
  BY TransactionIs
<1>2. PICK m \in ExpressRelayMetadata, n \in Nat : SwapDataOk(m, opp, tx, n)
  BY DEF Verified
<1>3. /\ AllowedInSwap(tx) /\ k # None
      /\ SwapFieldsOk(m, opp, ix) /\ RouterAccountOk(opp, ix) /\ CloseAccountsOk(tx, ix)
  BY <1>2 DEF SwapDataOk, WrapUnwrapOk
<1>4. Cardinality(own) = 1 /\ k \in own /\ \A i \in own : tx.ixs[i].op \in {"Swap", "SwapV2"}
  <2> HIDE DEF own
  <2>1. /\ Cardinality(own) = 1 /\ \A i \in own : tx.ixs[i].op \in {"Swap", "SwapV2"}
        /\ k = CHOOSE i \in own : TRUE
    BY <1>3 DEF ProgramInstruction, own
  <2>2. own # {}
    BY <2>1, FS_EmptySet
  <2> QED
    BY <2>1, <2>2
<1>5. own = {k}
  <2>1. IsFiniteSet(own)
    <3>1. own \subseteq 1..Len(tx.ixs)
      BY <1>1 DEF ProgramInstructions, Positions
    <3>2. IsFiniteSet(1..Len(tx.ixs))
      BY <1>1, FS_Interval
    <3> QED
      BY <3>1, <3>2, FS_Subset
  <2> HIDE DEF own
  <2> QED
    BY <1>4, <2>1, FS_Singleton
<1>6. k \in 1..Len(tx.ixs) /\ ix.op \in {"Swap", "SwapV2"}
  BY <1>1, <1>4 DEF ProgramInstructions, Positions
<1>7. ix \in SwapInstructions
  BY <1>1, <1>6 DEF Instructions, TokenInstructions, SystemInstructions, BidInstructions, AdminInstructions
<1>8. ASSUME NEW i \in 1..Len(tx.ixs), i # k
      PROVE  \/ tx.ixs[i] \in Quiet
             \/ tx.ixs[i] \in BidInstructions /\ tx.ixs[i].op = "SubmitBid" /\ tx.ixs[i].cpi
  <2>1. i \notin own /\ tx.ixs[i] \in Instructions(Memos)
    BY <1>1, <1>5, <1>8
  <2>2. tx.ixs[i].op \in ProgramOps \cup QuietOps
    BY <1>1, <1>3 DEF AllowedInSwap, QuietOps
  <2>3. tx.ixs[i].op \in ProgramOps => tx.ixs[i].op = "SubmitBid" /\ tx.ixs[i].cpi
    BY <1>1, <2>1 DEF ProgramInstructions, Positions
  <2>4. tx.ixs[i].op = "SubmitBid" => tx.ixs[i] \in BidInstructions
    BY <2>1 DEF Instructions, TokenInstructions, SystemInstructions, SwapInstructions, AdminInstructions
  <2> QED
    BY <2>1, <2>2, <2>3, <2>4 DEF Quiet
<1>9. ASSUME NEW i \in 1..Len(tx.ixs), tx.ixs[i].op = "CloseAccount"
      PROVE  tx.ixs[i].account \in {<<ix.user, Sol>>, <<ix.searcher, Sol>>}
  <2>1. i \in Positions(tx, {"CloseAccount"})
    BY <1>1, <1>9 DEF Positions
  <2>2. \A j \in Positions(tx, {"CloseAccount"}) : tx.ixs[j].account \in {<<ix.user, Sol>>, <<ix.searcher, Sol>>}
    BY <1>3 DEF CloseAccountsOk, Closes
  <2> QED
    BY <2>1, <2>2
<1> HIDE DEF ix
<1>10. Agrees(opp, ix)
  <2> DEFINE bps == m.platformBps
             args == SwapArgs(bps, ix)
  <2>1. ix.args \in SwapArguments
    BY <1>7 DEF SwapInstructions
  <2>2. /\ args.feeToken = ix.args.feeToken /\ args.amountUser = ix.args.amountUser
        /\ ix.op = "SwapV2" => args.referral = ix.args.referral /\ args.platform = ix.args.platform
        /\ ix.op # "SwapV2" => args.referral = ix.args.referral * BpsToPpm
    <3> HIDE DEF bps
    <3> QED
      BY <2>1 DEF SwapArgs, SwapArguments
  <2>3. /\ args.feeToken = opp.feeToken /\ args.referral = opp.referral /\ args.platform = opp.platform
        /\ SpecifiedSide(opp) = "user" => args.amountUser = opp.amountUser
        /\ ix.user = opp.user /\ ix.mintUser = opp.mintUser /\ ix.mintSearcher = opp.mintSearcher
    BY <1>3 DEF SwapFieldsOk, ExtractSwapData
  <2> HIDE DEF args
  <2> QED
    BY <1>3, <2>2, <2>3 DEF Agrees, RouterAccountOk
<1> QED
  BY <1>6, <1>7, <1>8, <1>9, <1>10 DEF SwapOf, ix

(* The tokens of an account are a natural number, none where it is closed. *)
LEMMA TokensNat ==
  ASSUME NEW c, c \in Chains, NEW a \in TokenAccounts
  PROVE  Tokens(c, a) \in Nat
BY DEF Chains, Tokens

(* An account the instruction sets to a number of tokens.                  *)
LEMMA TokensSet ==
  ASSUME NEW c, c \in Chains, NEW b \in TokenAccounts, NEW n, NEW d, d = [c EXCEPT !.tok[b] = n]
  PROVE  d.meta = c.meta /\ d.tok[b] = n /\ \A a \in TokenAccounts \ {b} : d.tok[a] = c.tok[a]
BY DEF Chains

(* What a quiet instruction leaves of an account of a third party: its     *)
(* tokens, or more of them where it is the account that is synced.         *)
LEMMA QuietIs ==
  ASSUME NEW c, Fine(c), NEW ix \in Quiet, NEW tx, NEW n, NEW a \in TokenAccounts,
         NEW r, r = Step(c, tx, ix, n), r.err = None, ix.op = "CloseAccount" => ix.account # a
  PROVE  /\ r.chain.meta = c.meta
         /\ Tokens(r.chain, a) >= Tokens(c, a)
         /\ Tokens(r.chain, a) = Tokens(c, a) \/ (ix.op = "SyncNative" /\ ix.account = a)
<1> USE ChainAssumption
<1>1. /\ c \in Chains /\ c.lam \in [Accounts -> Nat] /\ c.tok \in [TokenAccounts -> Nat \cup {Closed}]
      /\ a \in Accounts /\ TokenAccounts \subseteq Accounts
  BY DEF Fine, Chains, Accounts
<1>2. Tokens(c, a) \in Nat
  BY <1>1, TokensNat
<1>3. ix \in Instructions(Memos) /\ ix.op \in QuietOps
  BY DEF Quiet
<1>4. ASSUME r.chain.tok = c.tok, r.chain.meta = c.meta
      PROVE  Tokens(r.chain, a) = Tokens(c, a)
  BY <1>4 DEF Tokens
<1>5. CASE ix.op \in {"Memo", "SetComputeUnitPrice"}
  <2>1. r = Ok(c)
    BY <1>5 DEF Step
  <2> QED
    BY <1>2, <2>1 DEF Ok
<1>6. CASE ix.op = "Transfer"
  <2>1. ix \in SystemInstructions
    BY <1>3, <1>6 DEF Instructions, TokenInstructions, BidInstructions, SwapInstructions, AdminInstructions
  <2>2. r = MoveLamports(c, ix.from, ix.to, ix.lamports)
    BY <1>6 DEF Step
  <2>3. ix.from \in Accounts /\ ix.to \in Accounts /\ ix.lamports \in Nat
    BY <2>1 DEF SystemInstructions, Accounts
  <2>4. r.chain.tok = c.tok /\ r.chain.meta = c.meta
    BY <1>1, <2>2, <2>3, MoveLamportsIs
  <2> QED
    BY <1>2, <1>4, <2>4
<1>7. ASSUME ix.op \in {"CreateAta", "SyncNative", "CloseAccount"} PROVE ix \in TokenInstructions
  BY <1>3, <1>7 DEF Instructions, SystemInstructions, BidInstructions, SwapInstructions, AdminInstructions
<1>8. CASE ix.op = "CreateAta"
  <2> DEFINE b == ix.ata
             k == SaturatingSub(RentToken, c.lam[b])
             s == MoveLamports(c, ix.payer, b, k)
  <2>1. r = IF c.tok[b] # Closed THEN Ok(c)
            ELSE IF s.err = None THEN Ok([s.chain EXCEPT !.tok[b] = 0]) ELSE s
    BY <1>8 DEF Step, CreateAta, Then
  <2>2. b \in TokenAccounts /\ ix.payer \in Accounts
    BY <1>7, <1>8 DEF TokenInstructions, Accounts
  <2>3. k \in Nat
    BY <1>1, <2>2 DEF SaturatingSub
  <2> HIDE DEF k
  <2>4. s.chain \in Chains /\ s.chain.tok = c.tok /\ s.chain.meta = c.meta
    BY <1>1, <2>2, <2>3, MoveLamportsIs
  <2> HIDE DEF s
  <2>5. CASE c.tok[b] # Closed
    BY <1>2, <2>1, <2>5 DEF Ok
  <2>6. CASE c.tok[b] = Closed
    <3> DEFINE e == [s.chain EXCEPT !.tok[b] = 0]
    <3>1. r.chain = e
      <4> HIDE DEF e
      <4> QED
        BY <2>1, <2>6 DEF Ok, e
    <3>2. e.meta = c.meta /\ e.tok[b] = 0 /\ \A x \in TokenAccounts \ {b} : e.tok[x] = c.tok[x]
      <4> DEFINE sc == s.chain
      <4>1. sc \in Chains /\ sc.tok = c.tok /\ sc.meta = c.meta /\ e = [sc EXCEPT !.tok[b] = 0]
        BY <2>4
      <4> HIDE DEF sc, e, b
      <4>2. b \in TokenAccounts
        BY <2>2
      <4>3. e.meta = sc.meta /\ e.tok[b] = 0 /\ \A x \in TokenAccounts \ {b} : e.tok[x] = sc.tok[x]
        BY <4>1, <4>2 DEF Chains
      <4> QED
        BY <4>1, <4>3
    <3> HIDE DEF e, b
    <3>3. Tokens(e, a) = Tokens(c, a)
      BY <1>2, <2>6, <3>2 DEF Tokens
    <3> QED
      BY <1>2, <3>1, <3>2, <3>3
  <2> QED
    BY <2>5, <2>6
<1>9. CASE ix.op = "SyncNative"
  <2> DEFINE b == ix.account
             e == [c EXCEPT !.tok[b] = c.lam[b] - RentToken]
  <2>1. r = IF b[2] # Sol \/ c.tok[b] = Closed THEN Fail("NotNative", c) ELSE Ok(e)
    BY <1>9 DEF Step, SyncNative
  <2>2. b \in TokenAccounts
    BY <1>7, <1>9 DEF TokenInstructions
  <2>3. "NotNative" # None
    BY DEF Failures
  <2>4. e.meta = c.meta /\ e.tok[b] = c.lam[b] - RentToken /\ \A x \in TokenAccounts \ {b} : e.tok[x] = c.tok[x]
    BY <1>1, <2>2, TokensSet
  <2> HIDE DEF e
  <2>5. b[2] = Sol /\ c.tok[b] # Closed /\ r.chain = e
    BY <2>1, <2>3 DEF Fail, Ok
  <2> HIDE DEF b
  <2>6. c.lam[b] - RentToken >= c.tok[b] /\ c.lam[b] - RentToken \in Nat
    <3>1. b = <<b[1], Sol>> /\ b[1] \in Wallets
      BY <2>2, <2>5, TokenAccountIs
    <3>2. c.lam[b] >= c.tok[b] + RentToken
      BY <2>5, <3>1 DEF Fine, SolBacked
    <3>3. c.lam[b] \in Nat /\ c.tok[b] \in Nat
      BY <1>1, <2>2, <2>5
    <3> QED
      BY <3>2, <3>3
  <2>7. CASE a = b
    BY <1>1, <1>9, <2>2, <2>4, <2>5, <2>6, <2>7 DEF Tokens, b
  <2>8. CASE a # b
    <3>1. Tokens(e, a) = Tokens(c, a)
      BY <2>4, <2>8 DEF Tokens
    <3> QED
      BY <1>2, <2>4, <2>5, <3>1
  <2> QED
    BY <2>7, <2>8
<1>10. CASE ix.op = "CloseAccount"
  <2> DEFINE b == ix.account
             s == MoveLamports(c, b, ix.destination, c.lam[b])
  <2>1. r = IF c.tok[b] = Closed \/ (b[2] # Sol /\ c.tok[b] # 0) THEN Fail("CannotClose", c)
            ELSE IF s.err = None THEN Ok([s.chain EXCEPT !.tok[b] = Closed]) ELSE s
    BY <1>10 DEF Step, CloseAccount, Then
  <2>2. b \in TokenAccounts /\ ix.destination \in Accounts /\ b # a
    BY <1>7, <1>10 DEF TokenInstructions
  <2>3. "CannotClose" # None
    BY DEF Failures
  <2>4. s.chain \in Chains /\ s.chain.tok = c.tok /\ s.chain.meta = c.meta
    <3>1. b \in Accounts /\ c.lam[b] \in Nat
      BY <1>1, <2>2
    <3> HIDE DEF b
    <3> QED
      BY <1>1, <2>2, <3>1, MoveLamportsIs
  <2> HIDE DEF s
  <2> DEFINE e == [s.chain EXCEPT !.tok[b] = Closed]
  <2>5. r.chain = e
    <3> HIDE DEF e
    <3> QED
      BY <2>1, <2>3 DEF Ok, Fail, e
  <2>6. e.meta = c.meta /\ e.tok[a] = c.tok[a]
    BY <2>2, <2>4, TokensSet
  <2> HIDE DEF e, b
  <2> QED
    BY <1>2, <2>5, <2>6 DEF Tokens
<1> QED
  BY <1>3, <1>5, <1>6, <1>8, <1>9, <1>10 DEF QuietOps

(* One transfer, as an account sees it that does not pay.                  *)
LEMMA TransferSeen ==
  ASSUME NEW c, Fine(c), NEW from \in TokenAccounts, NEW to \in TokenAccounts, NEW n \in Nat, NEW d, Fine(d),
         TokensMoved(c, d, from, to, n), NEW a \in TokenAccounts, a # from
  PROVE  Tokens(d, a) = Tokens(c, a) + (IF a = to THEN n ELSE 0)
<1> USE ChainAssumption
<1>1. /\ c.tok \in [TokenAccounts -> Nat \cup {Closed}] /\ d.tok \in [TokenAccounts -> Nat \cup {Closed}]
      /\ Tokens(c, a) \in Nat
  BY TokensNat DEF Fine, Chains
<1>2. CASE n = 0
  BY <1>1, <1>2 DEF TokensMoved, Tokens
<1>3. CASE n # 0
  <2> DEFINE g == [c.tok EXCEPT ![from] = c.tok[from] - n]
  <2>1. d.tok = [g EXCEPT ![to] = g[to] + n]
    BY <1>3 DEF TokensMoved, Moved
  <2>2. CASE a # to
    <3>1. d.tok[a] = c.tok[a]
      BY <1>1, <2>1, <2>2
    <3> QED
      BY <1>1, <2>2, <3>1 DEF Tokens
  <2>3. CASE a = to
    <3>1. d.tok[a] = c.tok[a] + n
      BY <1>1, <2>1, <2>3
    <3>2. c.tok[a] # Closed /\ c.tok[a] \in Nat
      BY <1>1, <1>3, <2>3 DEF TokensMoved
    <3>3. c.tok[a] + n \in Nat
      BY <3>2
    <3> QED
      BY <2>3, <3>1, <3>2, <3>3 DEF Tokens
  <2> QED
    BY <2>2, <2>3
<1> QED
  BY <1>2, <1>3

(* What a swap owes to an account that takes no part in it.                *)
SwapDue(c, ix, a) ==
  LET fees == FeesOf(c, SwapArgs(c.meta.platformBps, ix))
  IN  Part(a, ix.routerAccount, fees.router) + Part(a, <<c.meta.feeReceiver, ix.mintFee>>, fees.relayer)
      + Part(a, <<Meta, ix.mintFee>>, fees.program)

(* Such an account gets what the swap owes it.                             *)
LEMMA SwapSeen ==
  ASSUME NEW c, Fine(c), NEW d, Fine(d), NEW ix \in SwapInstructions, SwapDone(c, d, ix),
         NEW a \in TokenAccounts, a[1] \notin {ix.user, ix.searcher}
  PROVE  SwapDue(c, ix, a) \in Nat /\ Tokens(d, a) = Tokens(c, a) + SwapDue(c, ix, a)
<1> USE ChainAssumption
<1> DEFINE args == SwapArgs(c.meta.platformBps, ix)
           fees == FeesOf(c, args)
           payer == FeePayer(ix, args)
           relayerAccount == <<ix.feeReceiver, ix.mintFee>>
           programAccount == <<Meta, ix.mintFee>>
           ss == SearcherSource(ix)  st == SearcherTarget(ix)
           us == UserSource(ix)      ut == UserTarget(ix)
           rs == RestOf(args, fees, "searcher")
           ru == RestOf(args, fees, "user")
<1>1. /\ c.meta # None /\ fees.ok /\ ix.mintFee = MintOfFee(ix)
      /\ SwapPaid(c, d, ix, args, fees)
  BY DEF SwapDone
<1>2. c.meta \in ExpressRelayMetadata /\ c.meta.platformBps \in Splits /\ c.meta.feeReceiver \in Wallets
  BY <1>1 DEF Fine, Chains, ExpressRelayMetadata
<1>3. args \in SwapArguments /\ args.feeToken = ix.args.feeToken
  BY <1>2, ArgsAre
<1> HIDE DEF args
<1>4. Amounts(fees)
  BY <1>1, <1>3, FeesAre
<1>5. rs \in Nat /\ ru \in Nat
  <2> HIDE DEF fees
  <2> QED
    BY <1>3, <1>4 DEF Amounts, SwapArguments, RestOf
<1> HIDE DEF fees
<1>6. /\ {ss, st, us, ut} \subseteq TokenAccounts /\ payer \in {ss, us}
      /\ relayerAccount \in TokenAccounts /\ programAccount \in TokenAccounts /\ ix.routerAccount \in TokenAccounts
      /\ a \notin {ss, st, us, ut}
  <2>1. ss[1] = ix.searcher /\ st[1] = ix.searcher /\ us[1] = ix.user /\ ut[1] = ix.user
    BY DEF SearcherSource, SearcherTarget, UserSource, UserTarget
  <2> QED
    BY <2>1 DEF SwapInstructions, TokenAccounts, SearcherSource, SearcherTarget, UserSource, UserTarget, FeePayer
<1>7. PICK c1, c2, c3, c4 :
        /\ Fine(c1) /\ Fine(c2) /\ Fine(c3) /\ Fine(c4)
        /\ TokensMoved(c, c1, payer, ix.routerAccount, fees.router)
        /\ TokensMoved(c1, c2, payer, relayerAccount, fees.relayer)
        /\ fees.relayer # 0 => ix.feeReceiver = c.meta.feeReceiver
        /\ TokensMoved(c2, c3, payer, programAccount, fees.program)
        /\ TokensMoved(c3, c4, ss, ut, rs)
        /\ TokensMoved(c4, d, us, st, ru)
  BY <1>1 DEF SwapPaid
<1> DEFINE x == fees.router  y == fees.relayer  z == fees.program  ra == ix.routerAccount
<1>8. x \in Nat /\ y \in Nat /\ z \in Nat
  BY <1>4 DEF Amounts
<1> HIDE DEF payer, relayerAccount, programAccount, ss, st, us, ut, rs, ru, x, y, z, ra
<1>9. /\ TokensMoved(c, c1, payer, ra, x) /\ TokensMoved(c1, c2, payer, relayerAccount, y)
      /\ TokensMoved(c2, c3, payer, programAccount, z)
      /\ payer \in TokenAccounts /\ ra \in TokenAccounts /\ a # payer
  BY <1>6, <1>7 DEF x, y, z, ra
<1>10. /\ Tokens(c1, a) = Tokens(c, a) + Part(a, ra, x)
       /\ Tokens(c2, a) = Tokens(c1, a) + Part(a, relayerAccount, y)
       /\ Tokens(c3, a) = Tokens(c2, a) + Part(a, programAccount, z)
  BY <1>6, <1>7, <1>8, <1>9, TransferSeen DEF Part
<1>11. /\ Tokens(c4, a) = Tokens(c3, a) + Part(a, ut, rs)
       /\ Tokens(d, a) = Tokens(c4, a) + Part(a, st, ru)
  BY <1>5, <1>6, <1>7, TransferSeen DEF Part
<1>12. Part(a, ut, rs) = 0 /\ Part(a, st, ru) = 0
  BY <1>6 DEF Part
<1>13. /\ Tokens(c, a) \in Nat /\ Tokens(c1, a) \in Nat /\ Tokens(c2, a) \in Nat
       /\ Tokens(c3, a) \in Nat /\ Tokens(c4, a) \in Nat /\ Tokens(d, a) \in Nat
  BY <1>7, TokensNat DEF Fine
<1>14. Part(a, ra, x) \in Nat /\ Part(a, relayerAccount, y) \in Nat /\ Part(a, programAccount, z) \in Nat
  BY <1>8 DEF Part
<1>15. Part(a, relayerAccount, y) = Part(a, <<c.meta.feeReceiver, ix.mintFee>>, y)
  <2>1. y # 0 => relayerAccount = <<c.meta.feeReceiver, ix.mintFee>>
    BY <1>7 DEF relayerAccount, y
  <2> QED
    BY <2>1 DEF Part
<1>16. SwapDue(c, ix, a) = Part(a, ra, x) + Part(a, relayerAccount, y) + Part(a, programAccount, z)
  BY <1>15 DEF SwapDue, ra, x, y, z, programAccount, fees, args
<1> QED
  BY <1>10, <1>11, <1>12, <1>13, <1>14, <1>16

(* A verified swap that executes: around it every instruction is quiet and *)
(* succeeds, and until it the metadata is what it was.                     *)
LEMMA SwapRun ==
  ASSUME NEW opp, NEW tx \in Transactions(Memos), Verified(opp, tx), NEW c, Fine(c), NEW n,
         Execute(c, tx, n).err = None, NEW k, k = ProgramInstruction(tx, {"Swap", "SwapV2"}),
         Meta \notin {tx.ixs[k].user, tx.ixs[k].searcher}, NEW f, f = Run(c, tx, n)
  PROVE  /\ Len(tx.ixs) \in Nat /\ k \in 1..Len(tx.ixs)
         /\ f[0].chain = c /\ f[Len(tx.ixs)].chain = Execute(c, tx, n).chain
         /\ \A i \in 0..Len(tx.ixs) : Fine(f[i].chain)
         /\ \A i \in 1..Len(tx.ixs) : i # k => LET r == Step(f[i - 1].chain, tx, tx.ixs[i], n)
                                             IN  tx.ixs[i] \in Quiet /\ r.err = None /\ f[i].chain = r.chain
         /\ SwapDone(f[k - 1].chain, f[k].chain, tx.ixs[k])
         /\ f[k - 1].chain.meta = c.meta
<1> USE ChainAssumption
<1> DEFINE L == Len(tx.ixs)
           ix == tx.ixs[k]
           r(i) == Step(f[i - 1].chain, tx, tx.ixs[i], n)
<1>1. L \in Nat /\ DOMAIN tx.ixs = 1..L /\ Meta \notin tx.signers
  BY TransactionIs
<1>2. f[L].err = None /\ Execute(c, tx, n).chain = f[L].chain
  BY ExecuteFine
<1>3. /\ k \in 1..L /\ ix \in SwapInstructions
      /\ \A i \in 1..L : \/ i = k \/ tx.ixs[i] \in Quiet
                         \/ tx.ixs[i] \in BidInstructions /\ tx.ixs[i].op = "SubmitBid" /\ tx.ixs[i].cpi
      /\ \A i \in 1..L : tx.ixs[i].op = "CloseAccount" => tx.ixs[i].account \in {<<ix.user, Sol>>, <<ix.searcher, Sol>>}
  BY VerifiedIs DEF SwapOf
<1>4. /\ f[0].chain = c
      /\ \A i \in 1..L : /\ Fine(f[i - 1].chain) /\ SignersOf(tx.ixs[i]) \subseteq tx.signers
                         /\ r(i).err = None /\ f[i].chain = r(i).chain
  BY <1>2, RunSucceeds
<1>5. Fine(f[L].chain)
  <2>1. Fine(Execute(c, tx, n).chain)
    BY ExecuteFine DEF Outcome, Becomes
  <2> QED
    BY <1>2, <2>1
<1> HIDE DEF L
<1>6. ASSUME NEW i \in 0..L PROVE Fine(f[i].chain)
  <2>1. CASE i = L
    BY <1>5, <2>1
  <2>2. CASE i # L
    <3>1. i + 1 \in 1..L /\ (i + 1) - 1 = i
      BY <1>1, <2>2
    <3> QED
      BY <1>4, <3>1
  <2> QED
    BY <2>1, <2>2
<1>7. ASSUME NEW i \in 1..L, i # k PROVE tx.ixs[i] \in Quiet
  <2> SUFFICES ASSUME tx.ixs[i] \in BidInstructions, tx.ixs[i].op = "SubmitBid", tx.ixs[i].cpi PROVE FALSE
    BY <1>3, <1>7
  <2> DEFINE jx == tx.ixs[i]
             b == f[i - 1].chain
  <2>1. jx.searcher # Meta
    <3>1. jx.searcher \in SignersOf(jx)
      BY DEF SignersOf
    <3> QED
      BY <1>1, <1>4, <3>1
  <2>2. r(i) = SubmitBid(b, tx, jx, n)
    BY DEF Step
  <2> HIDE DEF r, b
  <2>3. Fine(b) /\ r(i).err = None
    BY <1>4 DEF b
  <2> HIDE DEF jx
  <2>4. jx \in BidInstructions /\ jx.op = "SubmitBid" /\ jx.cpi
    BY DEF jx
  <2>5. ~jx.cpi
    BY <2>1, <2>2, <2>3, <2>4, SubmitBidIs
  <2> QED
    BY <2>4, <2>5
<1>8. ASSUME NEW i \in 1..L, i # k
      PROVE  f[i].chain.meta = f[i - 1].chain.meta
  <2> DEFINE jx == tx.ixs[i]
             b == f[i - 1].chain
             q == r(i)
             a == <<Meta, Sol>>
  <2>1. /\ Fine(b) /\ q = Step(b, tx, jx, n) /\ q.err = None /\ f[i].chain = q.chain /\ jx \in Quiet
    BY <1>4, <1>7, <1>8
  <2>2. (jx.op = "CloseAccount" => jx.account # a) /\ a \in TokenAccounts
    BY <1>3 DEF TokenAccounts
  <2> HIDE DEF jx, b, q, a
  <2>3. q.chain.meta = b.meta
    BY <2>1, <2>2, QuietIs
  <2> QED
    BY <2>1, <2>3 DEF b
<1>9. SwapDone(f[k - 1].chain, f[k].chain, ix)
  <2> DEFINE b == f[k - 1].chain
             q == r(k)
  <2>1. q = Swap(b, ix, n)
    <3>1. ix.op \in {"Swap", "SwapV2"}
      BY <1>3 DEF SwapInstructions
    <3> QED
      BY <3>1 DEF Step
  <2>2. Fine(b) /\ q.err = None /\ f[k].chain = q.chain
    BY <1>3, <1>4
  <2> HIDE DEF ix, b, q
  <2>3. SwapDone(b, q.chain, ix)
    BY <1>3, <2>1, <2>2, SwapIs
  <2> QED
    BY <2>2, <2>3 DEF b
<1> DEFINE Same == {i \in 0..L : i < k => f[i].chain.meta = c.meta}
<1>10. f[k - 1].chain.meta = c.meta
  <2>1. 0 \in Same
    BY <1>1, <1>4
  <2>2. ASSUME NEW i \in 0..(L - 1), i \in Same PROVE i + 1 \in Same
    <3>1. i + 1 \in 1..L /\ i + 1 \in 0..L /\ (i + 1) - 1 = i /\ (i + 1 < k => i < k /\ i + 1 # k)
      BY <1>1, <1>3
    <3>2. i + 1 < k => f[i + 1].chain.meta = f[i].chain.meta
      BY <1>8, <3>1
    <3> QED
      BY <2>2, <3>1, <3>2
  <2> HIDE DEF Same
  <2>3. 0..L \subseteq Same
    BY <1>1, <2>1, <2>2, InductionUpTo
  <2>4. k - 1 \in 0..L /\ k - 1 < k
    BY <1>1, <1>3
  <2> QED
    BY <2>3, <2>4 DEF Same
<1> QED
  BY <1>1, <1>2, <1>3, <1>4, <1>6, <1>7, <1>9, <1>10 DEF L, r, ix

(* What a verified swap that executes brings a third party, account by     *)
(* account: what the swap owes it, and more only where the account is      *)
(* synced.                                                                 *)
LEMMA SwapLanded ==
  ASSUME NEW opp, NEW tx \in Transactions(Memos), Verified(opp, tx), NEW c, Fine(c), NEW n,
         Execute(c, tx, n).err = None, NEW k, k = ProgramInstruction(tx, {"Swap", "SwapV2"}),
         Meta \notin {tx.ixs[k].user, tx.ixs[k].searcher},
         NEW a \in TokenAccounts, a[1] \notin {tx.ixs[k].user, tx.ixs[k].searcher}
  PROVE  /\ c.meta # None /\ FeesOf(c, SwapArgs(c.meta.platformBps, tx.ixs[k])).ok
         /\ tx.ixs[k].mintFee = MintOfFee(tx.ixs[k])
         /\ LET d == Execute(c, tx, n).chain
                due == SwapDue(c, tx.ixs[k], a)
            IN  /\ due \in Nat /\ Tokens(d, a) >= Tokens(c, a) + due
                /\ Tokens(d, a) = Tokens(c, a) + due \/ Syncs(tx, a)
<1> USE ChainAssumption
<1> DEFINE L == Len(tx.ixs)
           f == Run(c, tx, n)
           ix == tx.ixs[k]
<1>1. /\ L \in Nat /\ k \in 1..L
      /\ f[0].chain = c /\ f[L].chain = Execute(c, tx, n).chain
      /\ \A i \in 0..L : Fine(f[i].chain)
      /\ \A i \in 1..L : i # k => LET r == Step(f[i - 1].chain, tx, tx.ixs[i], n)
                               IN  tx.ixs[i] \in Quiet /\ r.err = None /\ f[i].chain = r.chain
      /\ SwapDone(f[k - 1].chain, f[k].chain, ix)
      /\ f[k - 1].chain.meta = c.meta
  <2> HIDE DEF f
  <2>1. f = Run(c, tx, n)
    BY DEF f
  <2> QED
    BY <2>1, SwapRun
<1>2. /\ DOMAIN tx.ixs = 1..L /\ ix \in SwapInstructions
      /\ \A i \in 1..L : tx.ixs[i].op = "CloseAccount" => tx.ixs[i].account \in {<<ix.user, Sol>>, <<ix.searcher, Sol>>}
  BY TransactionIs, VerifiedIs DEF SwapOf
<1> HIDE DEF f, L
<1>8. ASSUME NEW i \in 1..L, i # k
      PROVE  /\ Tokens(f[i].chain, a) >= Tokens(f[i - 1].chain, a)
             /\ Tokens(f[i].chain, a) = Tokens(f[i - 1].chain, a) \/ Syncs(tx, a)
  <2> DEFINE jx == tx.ixs[i]
             b == f[i - 1].chain
             q == Step(b, tx, jx, n)
  <2>1. /\ Fine(b) /\ q.err = None /\ f[i].chain = q.chain /\ jx \in Quiet
    <3>1. i - 1 \in 0..L
      BY <1>1
    <3> QED
      BY <1>1, <1>8, <3>1
  <2>2. jx.op = "CloseAccount" => jx.account # a
    <3>1. <<ix.user, Sol>>[1] = ix.user /\ <<ix.searcher, Sol>>[1] = ix.searcher
      OBVIOUS
    <3> QED
      BY <1>2, <3>1
  <2>3. jx.op = "SyncNative" /\ jx.account = a => Syncs(tx, a)
    BY <1>2 DEF Syncs, Positions
  <2>4. q = Step(b, tx, jx, n)
    OBVIOUS
  <2> HIDE DEF jx, b, q
  <2>5. /\ Tokens(q.chain, a) >= Tokens(b, a)
        /\ Tokens(q.chain, a) = Tokens(b, a) \/ (jx.op = "SyncNative" /\ jx.account = a)
    BY <2>1, <2>2, <2>4, QuietIs
  <2> QED
    BY <2>1, <2>3, <2>5 DEF b
<1> HIDE DEF ix
<1> DEFINE due == SwapDue(c, ix, a)
           T(i) == Tokens(f[i].chain, a)
           owed(i) == IF i < k THEN 0 ELSE due
           At(i) == T(i) >= T(0) + owed(i) /\ (T(i) = T(0) + owed(i) \/ Syncs(tx, a))
           Good == {i \in 0..L : At(i)}
<1>10. ASSUME NEW i \in 0..L PROVE T(i) \in Nat
  BY <1>1, TokensNat DEF Fine
<1>12. /\ c.meta # None /\ FeesOf(c, SwapArgs(c.meta.platformBps, ix)).ok /\ ix.mintFee = MintOfFee(ix)
       /\ due \in Nat /\ T(k) = T(k - 1) + due
  <2> DEFINE b == f[k - 1].chain
             d == f[k].chain
  <2>1. Fine(b) /\ Fine(d) /\ SwapDone(b, d, ix)
    <3>1. k - 1 \in 0..L /\ k \in 0..L
      BY <1>1
    <3> QED
      BY <1>1, <3>1
  <2>2. a[1] \notin {ix.user, ix.searcher}
    BY DEF ix
  <2>3. b.meta = c.meta
    BY <1>1
  <2> HIDE DEF b, d
  <2>4. SwapDue(b, ix, a) \in Nat /\ Tokens(d, a) = Tokens(b, a) + SwapDue(b, ix, a)
    BY <1>2, <2>1, <2>2, SwapSeen
  <2>5. SwapDue(b, ix, a) = due
    BY <2>3 DEF SwapDue, FeesOf
  <2>6. c.meta # None /\ FeesOf(c, SwapArgs(c.meta.platformBps, ix)).ok /\ ix.mintFee = MintOfFee(ix)
    BY <2>1, <2>3 DEF SwapDone, FeesOf
  <2> QED
    BY <2>4, <2>5, <2>6 DEF b, d
<1> HIDE DEF due, T
<1>13. 0..L \subseteq Good
  <2>1. 0 \in Good
    <3>1. T(0) \in Nat /\ 0 < k /\ 0 \in 0..L
      BY <1>1, <1>10
    <3> QED
      BY <3>1
  <2>2. ASSUME NEW i \in 0..(L - 1), i \in Good PROVE i + 1 \in Good
    <3>1. /\ i + 1 \in 1..L /\ i + 1 \in 0..L /\ (i + 1) - 1 = i
          /\ T(i) \in Nat /\ T(i + 1) \in Nat /\ T(0) \in Nat /\ 0 \in 0..L
      BY <1>1, <1>10
    <3>2. CASE i + 1 = k
      <4>1. i < k /\ ~(i + 1 < k) /\ k - 1 = i
        BY <1>1, <3>2
      <4>2. due \in Nat /\ T(k) = T(k - 1) + due
        BY <1>12
      <4> QED
        BY <2>2, <3>1, <3>2, <4>1, <4>2
    <3>3. CASE i + 1 # k
      <4>1. i < k <=> i + 1 < k
        BY <1>1, <3>1, <3>3
      <4>2. T(i + 1) >= T(i) /\ (T(i + 1) = T(i) \/ Syncs(tx, a))
        BY <1>8, <3>1, <3>3 DEF T
      <4>3. owed(i + 1) = owed(i) /\ T(i) >= T(0) + owed(i) /\ (T(i) = T(0) + owed(i) \/ Syncs(tx, a))
        BY <2>2, <4>1
      <4>4. owed(i) \in Nat
        BY <1>12
      <4> HIDE DEF owed
      <4>5. T(i + 1) >= T(0) + owed(i)
        BY <3>1, <4>2, <4>3, <4>4
      <4> QED
        BY <2>2, <3>1, <4>1, <4>2, <4>3, <4>5
    <3> QED
      BY <3>2, <3>3
  <2> HIDE DEF Good
  <2> QED
    BY <1>1, <2>1, <2>2, InductionUpTo
<1>14. L \in 0..L /\ ~(L < k)
  BY <1>1
<1>15. T(L) >= T(0) + due /\ (T(L) = T(0) + due \/ Syncs(tx, a))
  BY <1>13, <1>14
<1> QED
  BY <1>1, <1>12, <1>15 DEF T, due, ix

(* The fees a swap is charged are the agreed ones, and what they leave of  *)
(* the amount is what searchers are told.                                  *)
LEMMA AgreedIs ==
  ASSUME NEW c, Fine(c), c.meta # None, NEW ix \in SwapInstructions, NEW opp, Agrees(opp, ix),
         ix.op = "SwapV2" \/ c.meta.platformBps * BpsToPpm = opp.platform,
         NEW args, args = SwapArgs(c.meta.platformBps, ix), FeesOf(c, args).ok,
         NEW agreed, agreed = SwapFees(IF opp.feeToken = "searcher" THEN ix.args.amountSearcher ELSE ix.args.amountUser,
                                       opp.referral, opp.platform, c.meta.splitRelayer)
  PROVE  /\ FeesOf(c, args) = agreed
         /\ opp.feeToken = "user" /\ SpecifiedSide(opp) = "user" => agreed.remaining = QuoteTokens(opp).userAmount
<1> DEFINE bps == c.meta.platformBps
           sl == c.meta.splitRelayer
           a == ix.args
           amount == IF opp.feeToken = "searcher" THEN a.amountSearcher ELSE a.amountUser
<1>1. /\ a.feeToken = opp.feeToken /\ (SpecifiedSide(opp) = "user" => a.amountUser = opp.amountUser)
      /\ IF ix.op = "SwapV2" THEN a.referral = opp.referral /\ a.platform = opp.platform
         ELSE a.referral * BpsToPpm = opp.referral
  BY DEF Agrees
<1>2. a \in SwapArguments
  BY DEF SwapInstructions
<1>3. /\ args.feeToken = opp.feeToken /\ args.amountSearcher = a.amountSearcher /\ args.amountUser = a.amountUser
      /\ args.referral = opp.referral /\ args.platform = opp.platform
  <2>1. CASE ix.op = "SwapV2"
    BY <1>1, <2>1 DEF SwapArgs
  <2>2. CASE ix.op # "SwapV2"
    <3>1. args = [a EXCEPT !.referral = @ * BpsToPpm, !.platform = bps * BpsToPpm]
      BY <2>2 DEF SwapArgs
    <3>2. bps * BpsToPpm = opp.platform /\ a.referral * BpsToPpm = opp.referral
      BY <1>1, <2>2
    <3> HIDE DEF a, bps
    <3> QED
      BY <1>1, <1>2, <3>1, <3>2 DEF SwapArguments
  <2> QED
    BY <2>1, <2>2
<1>4. args \in SwapArguments
  <2>1. bps \in Splits
    BY DEF Fine, Chains, ExpressRelayMetadata
  <2> HIDE DEF bps
  <2> QED
    BY <2>1, ArgsAre DEF bps
<1> HIDE DEF a
<1>5. amount \in Nat /\ opp.referral \in Nat /\ opp.platform \in Nat
  BY <1>2, <1>3, <1>4 DEF SwapArguments
<1>6. FeesOf(c, args) = SwapFees(amount, opp.referral, opp.platform, sl) /\ agreed = FeesOf(c, args)
  BY <1>3 DEF FeesOf, a
<1>7. ASSUME opp.feeToken = "user", SpecifiedSide(opp) = "user"
      PROVE  agreed.remaining = QuoteTokens(opp).userAmount
  <2> DEFINE r == Share(amount, opp.referral, PrecisionPpm)
             p == Share(amount, opp.platform, PrecisionPpm)
  <2>1. amount = opp.amountUser
    BY <1>1, <1>7
  <2> HIDE DEF amount
  <2>2. agreed.ok /\ agreed = SwapFees(amount, opp.referral, opp.platform, sl)
    BY <1>6
  <2>3. agreed.remaining = amount - r - p /\ r + p <= amount
    BY <2>2 DEF SwapFees
  <2>4. QuoteTokens(opp).userAmount = SaturatingSub(SaturatingSub(amount, r), p)
    BY <1>7, <2>1 DEF QuoteTokens
  <2>5. r \in Nat /\ p \in Nat
    <3>1. PrecisionPpm \in Nat \ {0}
      BY FeeAssumption DEF PrecisionPpm
    <3>2. amount * opp.referral \in Nat /\ amount * opp.platform \in Nat
      BY <1>5
    <3> QED
      BY <3>1, <3>2 DEF Share
  <2> HIDE DEF r, p
  <2> QED
    BY <1>5, <2>3, <2>4, <2>5 DEF SaturatingSub
<1> QED
  BY <1>6, <1>7

(* A swap that lands was verified, and the metadata pays none of it.       *)
LEMMA SwapLandingIs ==
  ASSUME MarketInv, Landing, IsSwap
  PROVE  /\ Fine(chain) /\ chain' = Execute(chain, bid.tx, now).chain /\ Execute(chain, bid.tx, now).err = None
         /\ bid.tx \in Transactions(Memos) /\ Verified(quote.opp, bid.tx)
         /\ SwapOf(quote.opp, bid.tx, ProgramInstruction(bid.tx, {"Swap", "SwapV2"}))
         /\ Meta \notin {SwapIx.user, SwapIx.searcher}
<1>1. /\ bid.stage = "answered" /\ chain' = Execute(chain, bid.tx, now).chain
      /\ bid' = [bid EXCEPT !.stage = IF Execute(chain, bid.tx, now).err = None THEN "landed" ELSE "failed"]
  BY DEF Landing, Lands
<1>2. bid.tx \in Transactions(Memos) /\ Verified(quote.opp, bid.tx) /\ Fine(chain)
  BY <1>1 DEF MarketInv, BidInv, ChainInv
<1>3. Execute(chain, bid.tx, now).err = None
  <2>1. bid'.stage = "landed" /\ bid \in [stage : Stages, tx : Transactions(Memos) \cup {None}, sdk : BOOLEAN]
    BY DEF Landing, MarketInv, BidInv
  <2> DEFINE err == Execute(chain, bid.tx, now).err
  <2> HIDE DEF err
  <2>2. bid' = [bid EXCEPT !.stage = IF err = None THEN "landed" ELSE "failed"]
    BY <1>1 DEF err
  <2>3. err = None
    BY <2>1, <2>2
  <2> QED
    BY <2>3 DEF err
<1> DEFINE k == ProgramInstruction(bid.tx, {"Swap", "SwapV2"})
           tx == bid.tx
           ix == tx.ixs[k]
           c == chain
           n == now
<1>4. SwapOf(quote.opp, tx, k)
  <2> DEFINE opp == quote.opp
  <2>1. Verified(opp, tx) /\ tx \in Transactions(Memos)
    BY <1>2
  <2> HIDE DEF opp, tx
  <2>2. SwapOf(opp, tx, k)
    BY <2>1, VerifiedIs DEF tx
  <2> QED
    BY <2>2 DEF opp
<1>5. Meta \notin {ix.user, ix.searcher}
  <2>1. /\ tx \in Transactions(Memos) /\ Fine(c) /\ Execute(c, tx, n).err = None
        /\ k \in 1..Len(tx.ixs) /\ ix \in SwapInstructions
    BY <1>2, <1>3, <1>4 DEF SwapOf
  <2> HIDE DEF k, tx, c, n
  <2> DEFINE f == Run(c, tx, n)
  <2>2. f[Len(tx.ixs)].err = None
    BY <2>1, ExecuteFine
  <2> HIDE DEF f
  <2>3. SignersOf(ix) \subseteq tx.signers /\ Meta \notin tx.signers
    BY <2>1, <2>2, RunSucceeds, TransactionIs DEF f
  <2>4. ix.op \in {"Swap", "SwapV2"}
    BY <2>1 DEF SwapInstructions
  <2> HIDE DEF ix
  <2>5. {ix.user, ix.searcher} \subseteq SignersOf(ix)
    BY <2>4 DEF SignersOf
  <2> QED
    BY <2>3, <2>5
<1> QED
  BY <1>1, <1>2, <1>3, <1>4, <1>5 DEF SwapIx

(* A swap that was accepted and executes, whatever the searcher made of    *)
(* it, pays the router, the relayer and the program what was agreed and    *)
(* nobody else, and leaves the searcher what searchers are told.           *)
THEOREM FeesAreAgreed == MarketSpec => FeesAsAgreed
<1> DEFINE Body ==
      /\ \A w \in Wallets \ {SwapIx.user, SwapIx.searcher}, m \in Mints :
             LET got == Received(chain, chain', <<w, m>>)
             IN  got >= FeeDue(w, m) /\ (got = FeeDue(w, m) \/ Syncs(bid.tx, <<w, m>>))
      /\ quote.opp.feeToken = "user" /\ SpecifiedSide(quote.opp) = "user" =>
             AgreedFees.remaining = QuoteTokens(quote.opp).userAmount
<1>1. ASSUME MarketInv, Landing, IsSwap, AgreedTerms
      PROVE  Body
  <2> DEFINE k == ProgramInstruction(bid.tx, {"Swap", "SwapV2"})
             tx == bid.tx
             ix == tx.ixs[k]
             c == chain
             d == chain'
             n == now
             opp == quote.opp
             args == SwapArgs(c.meta.platformBps, ix)
             fees == FeesOf(c, args)
             agreed == SwapFees(IF opp.feeToken = "searcher" THEN ix.args.amountSearcher ELSE ix.args.amountUser,
                                opp.referral, opp.platform, c.meta.splitRelayer)
  <2>1. /\ Fine(c) /\ d = Execute(c, tx, n).chain /\ Execute(c, tx, n).err = None
        /\ tx \in Transactions(Memos) /\ Verified(opp, tx) /\ SwapOf(opp, tx, k)
        /\ Meta \notin {ix.user, ix.searcher}
    BY <1>1, SwapLandingIs DEF SwapIx
  <2>2. SwapIx = ix /\ AgreedFees = agreed
    BY DEF SwapIx, AgreedFees
  <2>3. ix.op = "SwapV2" \/ c.meta.platformBps * BpsToPpm = opp.platform
    BY <1>1, <2>2 DEF AgreedTerms
  <2> HIDE DEF tx, c, d, n, opp
  <2>4. k = ProgramInstruction(tx, {"Swap", "SwapV2"})
    BY DEF tx
  <2> HIDE DEF k
  <2>5. ix \in SwapInstructions /\ Agrees(opp, ix) /\ ix.routerAccount = <<opp.router, MintOfFee(ix)>>
    BY <2>1 DEF SwapOf, Agrees
  <2>6. ASSUME NEW w \in Wallets \ {ix.user, ix.searcher}, NEW m \in Mints
        PROVE  /\ c.meta # None /\ fees.ok /\ ix.mintFee = MintOfFee(ix)
               /\ SwapDue(c, ix, <<w, m>>) \in Nat
               /\ Tokens(d, <<w, m>>) \in Nat /\ Tokens(c, <<w, m>>) \in Nat
               /\ Tokens(d, <<w, m>>) >= Tokens(c, <<w, m>>) + SwapDue(c, ix, <<w, m>>)
               /\ Tokens(d, <<w, m>>) = Tokens(c, <<w, m>>) + SwapDue(c, ix, <<w, m>>) \/ Syncs(tx, <<w, m>>)
    <3> DEFINE a == <<w, m>>
    <3>1. a \in TokenAccounts /\ a[1] = w
      BY DEF TokenAccounts
    <3>2. a[1] \notin {tx.ixs[k].user, tx.ixs[k].searcher}
      BY <3>1
    <3> HIDE DEF a
    <3>3. /\ c.meta # None /\ fees.ok /\ ix.mintFee = MintOfFee(ix)
          /\ SwapDue(c, ix, a) \in Nat
          /\ Tokens(d, a) >= Tokens(c, a) + SwapDue(c, ix, a)
          /\ Tokens(d, a) = Tokens(c, a) + SwapDue(c, ix, a) \/ Syncs(tx, a)
      BY <2>1, <2>4, <3>1, <3>2, SwapLanded
    <3>4. Tokens(d, a) \in Nat /\ Tokens(c, a) \in Nat
      <4>1. Fine(d)
        BY <2>1, ExecuteFine DEF Outcome, Becomes
      <4> QED
        BY <2>1, <3>1, <4>1, TokensNat DEF Fine
    <3> QED
      BY <3>3, <3>4 DEF a
  <2>7. c.meta # None /\ fees.ok /\ ix.mintFee = MintOfFee(ix)
    <3>1. Meta \in Wallets \ {ix.user, ix.searcher} /\ ix.mintUser \in Mints
      BY <2>1, <2>5, ChainAssumption DEF SwapInstructions
    <3> HIDE DEF fees, ix
    <3> QED
      BY <2>6, <3>1
  <2>8. /\ fees = agreed
        /\ opp.feeToken = "user" /\ SpecifiedSide(opp) = "user" => agreed.remaining = QuoteTokens(opp).userAmount
    <3> HIDE DEF ix
    <3> QED
      BY <2>1, <2>3, <2>5, <2>7, AgreedIs
  <2>9. ASSUME NEW w \in Wallets \ {ix.user, ix.searcher}, NEW m \in Mints
        PROVE  SwapDue(c, ix, <<w, m>>) = FeeDue(w, m)
    <3>1. SwapDue(c, ix, <<w, m>>)
            = Part(<<w, m>>, <<opp.router, MintOfFee(ix)>>, agreed.router)
              + Part(<<w, m>>, <<c.meta.feeReceiver, MintOfFee(ix)>>, agreed.relayer)
              + Part(<<w, m>>, <<Meta, MintOfFee(ix)>>, agreed.program)
      <4> HIDE DEF agreed, ix
      <4> QED
        BY <2>5, <2>7, <2>8 DEF SwapDue, fees, args
    <3> HIDE DEF agreed, ix
    <3>2. ASSUME NEW x, NEW z PROVE Part(<<w, m>>, <<x, MintOfFee(ix)>>, z) = IF w = x /\ m = MintOfFee(ix) THEN z ELSE 0
      BY DEF Part
    <3>3. FeeDue(w, m) = (IF w = opp.router /\ m = MintOfFee(ix) THEN agreed.router ELSE 0)
                         + (IF w = c.meta.feeReceiver /\ m = MintOfFee(ix) THEN agreed.relayer ELSE 0)
                         + (IF w = Meta /\ m = MintOfFee(ix) THEN agreed.program ELSE 0)
      BY <2>2 DEF FeeDue, opp, c
    <3> QED
      BY <3>1, <3>2, <3>3
  <2> HIDE DEF agreed, ix, fees
  <2>10. ASSUME NEW w \in Wallets \ {ix.user, ix.searcher}, NEW m \in Mints
         PROVE  LET got == Received(c, d, <<w, m>>)
                IN  got >= FeeDue(w, m) /\ (got = FeeDue(w, m) \/ Syncs(tx, <<w, m>>))
    <3> DEFINE t == Tokens(d, <<w, m>>)
               s == Tokens(c, <<w, m>>)
               due == FeeDue(w, m)
    <3>1. /\ s \in Nat /\ t \in Nat /\ due \in Nat /\ t >= s + due
          /\ t = s + due \/ Syncs(tx, <<w, m>>)
      BY <2>6, <2>9
    <3>2. Received(c, d, <<w, m>>) = t - s
      BY DEF Received
    <3> HIDE DEF t, s, due
    <3>3. t - s >= due /\ (t - s = due \/ Syncs(tx, <<w, m>>))
      BY <3>1
    <3> QED
      BY <3>2, <3>3 DEF due
  <2> QED
    BY <2>2, <2>8, <2>10 DEF c, d, opp, tx
<1>2. MarketInv /\ [MarketNext]_vars => ((Landing /\ IsSwap /\ AgreedTerms) => Body)
  BY <1>1
<1> QED
  BY <1>2, MarketInvariant, PTL DEF MarketSpec, FeesAsAgreed

(* The creations of accounts that another pays for than the wallet.        *)
NotBy(s, w) == {j \in 1..Len(s) : s[j].payer # w}

(* The last of a sequence takes the place of one that is removed.          *)
LEMMA RemovedIs ==
  ASSUME NEW S, NEW s \in Seq(S), NEW i \in 1..Len(s), NEW t, t = SwapRemove(s, i)
  PROVE  /\ t \in Seq(S) /\ Len(t) = Len(s) - 1 /\ Len(s) \in Nat
         /\ \A j \in 1..Len(t) : t[j] = IF j = i THEN s[Len(s)] ELSE s[j]
<1> DEFINE n == Len(s)
           u == [s EXCEPT ![i] = s[n]]
<1>1. n \in Nat /\ n >= 1 /\ s[n] \in S /\ i \in 1..n
  OBVIOUS
<1>2. u \in Seq(S) /\ Len(u) = n /\ \A j \in 1..n : u[j] = IF j = i THEN s[n] ELSE s[j]
  BY <1>1
<1>3. t = SubSeq(u, 1, n - 1)
  BY DEF SwapRemove
<1> HIDE DEF u
<1>4. n - 1 \in Nat /\ n - 1 <= Len(u)
  BY <1>1, <1>2
<1>5. t \in Seq(S) /\ Len(t) = n - 1 /\ \A j \in 1..(n - 1) : t[j] = u[j]
  BY <1>2, <1>3, <1>4
<1> QED
  BY <1>1, <1>2, <1>5

(* One more, once one is put back.                                         *)
LEMMA OneMore ==
  ASSUME NEW S, NEW s \in Seq(S), NEW i \in 1..Len(s), NEW t, t = SwapRemove(s, i), NEW w,
         NEW z \in 0..Len(t), NotBy(t, w) \subseteq {z}
  PROVE  \E y \in 0..Len(s) : NotBy(s, w) \subseteq {i, y} /\ (z = 0 => y = 0)
<1>1. /\ Len(t) = Len(s) - 1 /\ Len(s) \in Nat
      /\ \A j \in 1..Len(t) : t[j] = IF j = i THEN s[Len(s)] ELSE s[j]
  BY RemovedIs
<1> DEFINE n == Len(s)
           m == Len(t)
           y == IF z = 0 THEN 0 ELSE IF z = i THEN n ELSE z
<1>2. y \in 0..n /\ (z = 0 => y = 0)
  BY <1>1
<1>3. ASSUME NEW j \in NotBy(s, w), j # i PROVE j = y
  <2>1. j \in 1..n /\ s[j].payer # w
    BY DEF NotBy
  <2>2. CASE j = n
    <3>1. i \in 1..m /\ t[i] = s[j]
      BY <1>1, <1>3, <2>1, <2>2
    <3>2. z = i
      BY <2>1, <3>1 DEF NotBy
    <3> QED
      BY <1>1, <2>2, <3>2
  <2>3. CASE j # n
    <3>1. j \in 1..m /\ t[j] = s[j]
      BY <1>1, <1>3, <2>1, <2>3
    <3>2. z = j
      BY <2>1, <3>1 DEF NotBy
    <3> QED
      BY <1>1, <1>3, <2>1, <3>2
  <2> QED
    BY <2>2, <2>3
<1> QED
  BY <1>2, <1>3

(* What the check of the user's account leaves of the creations: all but   *)
(* one where the user may pay.                                             *)
LEMMA TakenIs ==
  ASSUME NEW S, NEW s \in Seq(S), NEW ix, NEW mint, NEW config,
         NEW t, t = TakeUserAta(s, ix, mint, config), t # None
  PROVE  IF config = "UserPayer" THEN \E i \in 1..Len(s) : t = SwapRemove(s, i) ELSE t = s
<1> DEFINE found == {i \in DOMAIN s : s[i].ata = <<ix.user, mint>>}
           first == CHOOSE i \in found : \A j \in found : i <= j
           ok == /\ s[first].mint = mint
                 /\ s[first].owner = ix.user
                 /\ s[first].payer \in {ix.searcher, ix.user}
<1>1. TakeUserAta(s, ix, mint, config)
        = CASE s = None \/ config # "UserPayer" -> s
            [] s # None /\ config = "UserPayer" /\ found = {} -> None
            [] OTHER -> IF ok THEN SwapRemove(s, first) ELSE None
  BY Zenon DEF TakeUserAta
<1>2. found # {} => first \in found
  <2> SUFFICES ASSUME found # {} PROVE \E i \in found : \A j \in found : i <= j
    OBVIOUS
  <2>1. found \subseteq Nat
    OBVIOUS
  <2> HIDE DEF found
  <2> QED
    BY <2>1, LeastOf
<1>3. found \subseteq 1..Len(s)
  OBVIOUS
<1> HIDE DEF found, first, ok
<1>4. CASE config # "UserPayer"
  BY <1>1, <1>4
<1>5. CASE config = "UserPayer"
  <2>1. s # None /\ found # {} /\ ok /\ t = SwapRemove(s, first)
    BY <1>1, <1>5
  <2> QED
    BY <1>2, <1>3, <1>5, <2>1
<1> QED
  BY <1>4, <1>5

(* Of all creations, another than the searcher pays for at most two, one   *)
(* for each account the user is to pay for.                                *)
LEMMA TakenTwice ==
  ASSUME NEW S, NEW s \in Seq(S), NEW ix, NEW w, NEW m1, NEW m2, NEW c1, NEW c2,
         NEW rest, rest = TakeUserAta(TakeUserAta(s, ix, m1, c1), ix, m2, c2), rest # None,
         \A i \in DOMAIN rest : rest[i].payer = w
  PROVE  \E x, y \in 0..Len(s) : /\ NotBy(s, w) \subseteq {x, y}
                                 /\ (c1 # "UserPayer" => x = 0) /\ (c2 # "UserPayer" => y = 0)
<1> DEFINE t == TakeUserAta(s, ix, m1, c1)
<1>1. t # None
  <2> SUFFICES ASSUME t = None PROVE FALSE
    OBVIOUS
  <2> HIDE DEF t
  <2>1. rest = TakeUserAta(None, ix, m2, c2)
    BY DEF t
  <2> QED
    BY <2>1 DEF TakeUserAta
<1>2. IF c1 = "UserPayer" THEN \E i \in 1..Len(s) : t = SwapRemove(s, i) ELSE t = s
  <2> HIDE DEF t
  <2> QED
    BY <1>1, TakenIs DEF t
<1>3. rest = TakeUserAta(t, ix, m2, c2)
  OBVIOUS
<1> HIDE DEF t
<1>4. t \in Seq(S)
  BY <1>2, RemovedIs
<1>5. IF c2 = "UserPayer" THEN \E i \in 1..Len(t) : rest = SwapRemove(t, i) ELSE rest = t
  BY <1>3, <1>4, TakenIs
<1>6. rest \in Seq(S)
  BY <1>4, <1>5, RemovedIs
<1>7. NotBy(rest, w) = {}
  BY <1>6 DEF NotBy
<1>8. PICK z \in 0..Len(t) : NotBy(t, w) \subseteq {z} /\ (c2 # "UserPayer" => z = 0)
  <2>1. CASE c2 = "UserPayer"
    <3>1. PICK i \in 1..Len(t) : rest = SwapRemove(t, i)
      BY <1>5, <2>1
    <3>2. 0 \in 0..Len(rest) /\ NotBy(rest, w) \subseteq {0} /\ i \in 0..Len(t)
      BY <1>4, <1>6, <1>7
    <3> DEFINE o == 0
    <3>3. o \in 0..Len(rest) /\ NotBy(rest, w) \subseteq {o}
      BY <3>2
    <3> HIDE DEF o
    <3>4. PICK y \in 0..Len(t) : NotBy(t, w) \subseteq {i, y} /\ (o = 0 => y = 0)
      BY <1>4, <3>1, <3>3, OneMore
    <3>5. NotBy(t, w) \subseteq {i}
      BY <3>4 DEF o, NotBy
    <3> QED
      BY <2>1, <3>2, <3>5
  <2>2. CASE c2 # "UserPayer"
    BY <1>4, <1>5, <1>7, <2>2
  <2> QED
    BY <2>1, <2>2
<1>9. Len(s) \in Nat
  OBVIOUS
<1>10. CASE c1 = "UserPayer"
  <2>1. PICK i \in 1..Len(s) : t = SwapRemove(s, i)
    BY <1>2, <1>10
  <2>2. PICK y \in 0..Len(s) : NotBy(s, w) \subseteq {i, y} /\ (z = 0 => y = 0)
    BY <1>8, <2>1, OneMore
  <2>3. i \in 0..Len(s)
    BY <1>9
  <2> QED
    BY <1>8, <1>10, <2>2, <2>3
<1>11. CASE c1 # "UserPayer"
  <2>1. t = s
    BY <1>2, <1>11
  <2>2. 0 \in 0..Len(s) /\ NotBy(s, w) \subseteq {0, z}
    BY <1>8, <1>9, <2>1
  <2> QED
    BY <1>8, <1>11, <2>1, <2>2
<1> QED
  BY <1>10, <1>11

(* The creations of a transaction that the searcher does not pay for.      *)
LEMMA CreationsIs ==
  ASSUME NEW opp, NEW tx \in Transactions(Memos), NEW ix, CreateAtasOk(tx, opp, ix)
  PROVE  \E x, y \in 0..Len(tx.ixs) :
            /\ \A i \in 1..Len(tx.ixs) : tx.ixs[i].op = "CreateAta" /\ tx.ixs[i].payer # ix.searcher => i \in {x, y}
            /\ opp.inits.userMintUser # "UserPayer" => x = 0
            /\ opp.inits.userMintSearcher # "UserPayer" => y = 0
<1> DEFINE I == Instructions(Memos)
           r == tx.ixs
           S == {r[i] : i \in Positions(tx, {"CreateAta"})}
           s == Selected(r, S)
           w == ix.searcher
           c1 == opp.inits.userMintUser
           c2 == opp.inits.userMintSearcher
           rest == TakeUserAta(TakeUserAta(s, ix, ix.mintUser, c1), ix, ix.mintSearcher, c2)
<1>1. r \in Seq(I) /\ Len(r) \in Nat /\ DOMAIN r = 1..Len(r)
  <2>1. r \in Seq(I)
    BY DEF Transactions
  <2> HIDE DEF r, I
  <2> QED
    BY <2>1
<1>2. \A i \in 1..Len(r) : r[i].op = "CreateAta" => r[i] \in S
  BY <1>1 DEF Positions
<1>3. rest # None /\ \A i \in DOMAIN rest : rest[i].payer = w
  BY DEF CreateAtasOk, Creates, Ixs
<1> HIDE DEF I, r, S
<1>4. s \in Seq(I)
  BY <1>1, SelectedElements
<1>5. \E p \in [Places(r, S) -> 1..Len(s)] :
        /\ \A i \in Places(r, S) : s[p[i]] = r[i]
        /\ \A i, j \in Places(r, S) : i # j => p[i] # p[j]
  BY <1>1, SelectedPlaces
<1> HIDE DEF s
<1> DEFINE X == Places(r, S)
<1>50. PICK p \in [X -> 1..Len(s)] :
        /\ \A i \in X : s[p[i]] = r[i]
        /\ \A i, j \in X : i # j => p[i] # p[j]
  BY <1>5
<1>51. \A i : i \in X <=> i \in 1..Len(r) /\ r[i] \in S
  BY DEF Places
<1> HIDE DEF X
<1>6. PICK a, b \in 0..Len(s) : /\ NotBy(s, w) \subseteq {a, b}
                                /\ (c1 # "UserPayer" => a = 0) /\ (c2 # "UserPayer" => b = 0)
  <2> HIDE DEF w, c1, c2
  <2>1. rest = TakeUserAta(TakeUserAta(s, ix, ix.mintUser, c1), ix, ix.mintSearcher, c2)
    OBVIOUS
  <2> HIDE DEF rest
  <2> QED
    BY <1>3, <1>4, <2>1, TakenTwice
<1> HIDE DEF w, c1, c2
<1>7. ASSUME NEW c \in 0..Len(s)
      PROVE  \E x \in 0..Len(r) : (\A i \in X : p[i] = c => i = x) /\ (c = 0 => x = 0)
  <2>1. CASE \E i \in X : p[i] = c
    <3>1. PICK x \in X : p[x] = c
      BY <2>1
    <3>2. x \in 0..Len(r) /\ c # 0
      BY <1>1, <1>4, <1>50, <1>51, <3>1
    <3> QED
      BY <1>50, <3>1, <3>2
  <2>2. CASE ~\E i \in X : p[i] = c
    <3>1. 0 \in 0..Len(r)
      BY <1>1
    <3> QED
      BY <2>2, <3>1
  <2> QED
    BY <2>1, <2>2
<1>8. PICK x \in 0..Len(r) : (\A i \in X : p[i] = a => i = x) /\ (a = 0 => x = 0)
  BY <1>7
<1>9. PICK y \in 0..Len(r) : (\A i \in X : p[i] = b => i = y) /\ (b = 0 => y = 0)
  BY <1>7
<1>10. ASSUME NEW i \in 1..Len(r), r[i].op = "CreateAta", r[i].payer # w PROVE i \in {x, y}
  <2>1. i \in X
    BY <1>2, <1>10, <1>51
  <2>2. p[i] \in NotBy(s, w)
    BY <1>50, <1>10, <2>1 DEF NotBy
  <2> QED
    BY <1>6, <1>8, <1>9, <2>1, <2>2
<1> QED
  BY <1>6, <1>8, <1>9, <1>10 DEF r, w, c1, c2

(* One transfer of tokens, as a wallet sees it: what it has of a mint.     *)
LEMMA TransferWorth ==
  ASSUME NEW c, Fine(c), NEW from \in TokenAccounts, NEW to \in TokenAccounts, NEW n \in Nat, NEW d, Fine(d),
         TokensMoved(c, d, from, to, n), NEW u \in Wallets, NEW m \in Mints, NEW a, a = <<u, m>>
  PROVE  Worth(d, u, m) = Worth(c, u, m) + Part(a, to, n) - Part(a, from, n)
<1> USE ChainAssumption
<1>1. /\ c \in Chains /\ c.tok \in [TokenAccounts -> Nat \cup {Closed}] /\ c.lam \in [Accounts -> Nat]
      /\ a \in TokenAccounts /\ a \in Accounts /\ u \in Accounts /\ from \in Accounts /\ to \in Accounts
      /\ a[2] = m
  BY DEF Fine, Chains, Accounts, TokenAccounts
<1>2. CASE n = 0
  <2>1. d.tok = c.tok /\ d.lam = c.lam
    BY <1>2 DEF TokensMoved
  <2>2. Worth(d, u, m) = Worth(c, u, m)
    BY <2>1 DEF Worth, Tokens
  <2>3. Worth(c, u, m) \in Nat
    BY <1>1, TokensNat DEF Worth
  <2> QED
    BY <1>2, <2>2, <2>3 DEF Part
<1>3. CASE n # 0 /\ m # Sol
  <2>1. c.tok[from] \in Nat /\ c.tok[to] \in Nat /\ n <= c.tok[from] /\ d.tok = Moved(c.tok, from, to, n)
    BY <1>1, <1>3 DEF TokensMoved
  <2>2. /\ \A x \in TokenAccounts \ {from, to} : d.tok[x] = c.tok[x]
        /\ from = to => d.tok = c.tok
        /\ from # to => d.tok[from] = c.tok[from] - n /\ d.tok[to] = c.tok[to] + n
        /\ d.tok[from] \in Nat /\ d.tok[to] \in Nat
    BY <1>1, <2>1, MovedTokens
  <2>3. Worth(d, u, m) = Tokens(d, a) /\ Worth(c, u, m) = Tokens(c, a) /\ Tokens(c, a) \in Nat
    BY <1>1, <1>3, TokensNat DEF Worth
  <2>4. CASE a \notin {from, to}
    BY <1>1, <2>2, <2>3, <2>4 DEF Part, Tokens
  <2>5. CASE a \in {from, to}
    <3>1. Tokens(d, a) = d.tok[a] /\ Tokens(c, a) = c.tok[a]
      BY <2>1, <2>2, <2>5 DEF Tokens
    <3> QED
      BY <2>1, <2>2, <2>3, <2>5, <3>1 DEF Part
  <2> QED
    BY <2>4, <2>5
<1>4. CASE n # 0 /\ m = Sol
  <2>1. /\ from[2] = to[2] /\ d.lam[u] = c.lam[u] /\ c.lam[u] \in Nat /\ c.lam[a] \in Nat
        /\ d.lam = IF from[2] = Sol THEN Moved(c.lam, from, to, n) ELSE c.lam
    BY <1>1, <1>4 DEF TokensMoved
  <2>2. Worth(d, u, m) = c.lam[u] + d.lam[a] /\ Worth(c, u, m) = c.lam[u] + c.lam[a]
    BY <1>4, <2>1 DEF Worth
  <2>3. CASE from[2] # Sol
    <3>1. a # from /\ a # to
      BY <1>1, <1>4, <2>1, <2>3
    <3> QED
      BY <2>1, <2>2, <2>3, <3>1 DEF Part
  <2>4. CASE from[2] = Sol
    <3>1. n <= c.lam[from]
      <4>1. c.tok[from] # Closed /\ n <= c.tok[from]
        BY <1>4 DEF TokensMoved
      <4>2. from = <<from[1], Sol>> /\ from[1] \in Wallets
        BY <2>4, TokenAccountIs
      <4>3. c.lam[from] >= c.tok[from] + RentToken
        BY <4>1, <4>2 DEF Fine, SolBacked
      <4>4. c.tok[from] \in Nat /\ c.lam[from] \in Nat
        BY <1>1, <4>1
      <4> QED
        BY <4>1, <4>3, <4>4
    <3>2. /\ \A x \in Accounts \ {from, to} : d.lam[x] = c.lam[x]
          /\ from = to => d.lam = c.lam
          /\ from # to => d.lam[from] = c.lam[from] - n /\ d.lam[to] = c.lam[to] + n
      BY <1>1, <2>1, <2>4, <3>1, MovedIs
    <3> QED
      BY <1>1, <2>1, <2>2, <3>2 DEF Part
  <2> QED
    BY <2>3, <2>4
<1> QED
  BY <1>2, <1>3, <1>4

(* The accounts of a wallet's SOL.                                         *)
Mine(u) == {u, <<u, Sol>>}

(* Lamports that move: a wallet loses some of its SOL only if they go from *)
(* its accounts to another's.                                              *)
LEMMA LamportsWorth ==
  ASSUME NEW c \in Chains, NEW from \in Accounts, NEW to \in Accounts, NEW n \in Nat, n <= c.lam[from],
         NEW d, d.lam = Moved(c.lam, from, to, n), NEW u \in Wallets
  PROVE  /\ Worth(d, u, Sol) >= Worth(c, u, Sol) - n
         /\ from \in Mine(u) /\ to \in Mine(u) => Worth(d, u, Sol) >= Worth(c, u, Sol)
         /\ from \notin Mine(u) => Worth(d, u, Sol) >= Worth(c, u, Sol)
<1> USE ChainAssumption
<1> DEFINE a == <<u, Sol>>
<1>1. c.lam \in [Accounts -> Nat] /\ a \in Accounts /\ u \in Accounts /\ a # u /\ Mine(u) = {u, a}
  BY DEF Chains, Accounts, TokenAccounts, Mine
<1>2. Worth(d, u, Sol) = d.lam[u] + d.lam[a] /\ Worth(c, u, Sol) = c.lam[u] + c.lam[a]
  BY DEF Worth
<1> HIDE DEF a
<1>3. /\ \A x \in Accounts \ {from, to} : d.lam[x] = c.lam[x]
      /\ from = to => d.lam = c.lam
      /\ from # to => d.lam[from] = c.lam[from] - n /\ d.lam[to] = c.lam[to] + n
  <2> DEFINE g == Moved(c.lam, from, to, n)
  <2>1. /\ \A x \in Accounts \ {from, to} : g[x] = c.lam[x]
        /\ from = to => g = c.lam
        /\ from # to => g[from] = c.lam[from] - n /\ g[to] = c.lam[to] + n
    BY <1>1, MovedIs
  <2>2. d.lam = g
    OBVIOUS
  <2> HIDE DEF g
  <2> QED
    BY <2>1, <2>2
<1> QED
  BY <1>1, <1>2, <1>3

(* What a wallet has of a mint is a natural number.                        *)
LEMMA WorthNat ==
  ASSUME NEW c, Fine(c), NEW u \in Wallets, NEW m \in Mints
  PROVE  Worth(c, u, m) \in Nat
<1> USE ChainAssumption
<1>1. /\ c \in Chains /\ c.lam \in [Accounts -> Nat] /\ <<u, m>> \in TokenAccounts
      /\ <<u, Sol>> \in Accounts /\ u \in Accounts
  BY DEF Fine, Chains, Accounts, TokenAccounts
<1> QED
  BY <1>1, TokensNat DEF Worth

(* How many accounts the user pays for.                                    *)
LEMMA UserPaidIs ==
  ASSUME NEW inits
  PROVE  UserPaidInits(inits) = (IF inits.userMintUser = "UserPayer" THEN 1 ELSE 0)
                                + (IF inits.userMintSearcher = "UserPayer" THEN 1 ELSE 0)
<1> DEFINE p == inits.userMintUser = "UserPayer"
           q == inits.userMintSearcher = "UserPayer"
           S == {f \in {"userMintUser", "userMintSearcher"} : inits[f] = "UserPayer"}
<1>1. S = (IF p THEN {"userMintUser"} ELSE {}) \cup (IF q THEN {"userMintSearcher"} ELSE {})
  OBVIOUS
<1>2. UserPaidInits(inits) = Cardinality(S)
  BY DEF UserPaidInits
<1> HIDE DEF p, q, S
<1>3. CASE p /\ q
  <2>1. S = {"userMintUser"} \cup {"userMintSearcher"} /\ "userMintUser" # "userMintSearcher"
    BY <1>1, <1>3
  <2>2. IsFiniteSet({"userMintUser"}) /\ Cardinality({"userMintUser"}) = 1
    BY FS_Singleton
  <2>3. Cardinality({"userMintUser"} \cup {"userMintSearcher"}) = 2
    BY <2>1, <2>2, FS_AddElement
  <2> QED
    BY <1>2, <1>3, <2>1, <2>3 DEF p, q
<1>4. CASE p /\ ~q
  <2>1. S = {"userMintUser"} /\ Cardinality({"userMintUser"}) = 1
    BY <1>1, <1>4, FS_Singleton
  <2> QED
    BY <1>2, <1>4, <2>1 DEF p, q
<1>5. CASE ~p /\ q
  <2>1. S = {"userMintSearcher"} /\ Cardinality({"userMintSearcher"}) = 1
    BY <1>1, <1>5, FS_Singleton
  <2> QED
    BY <1>2, <1>5, <2>1 DEF p, q
<1>6. CASE ~p /\ ~q
  BY <1>1, <1>2, <1>6, FS_EmptySet DEF p, q
<1> QED
  BY <1>3, <1>4, <1>5, <1>6

(* What an instruction may do with the accounts of a wallet: it pays only  *)
(* into the wallet's own account of wrapped SOL, and closes that account   *)
(* only in favour of the wallet.                                           *)
Harmless(jx, u) ==
  /\ jx.op = "Transfer" /\ jx.from = u => jx.to = <<u, Sol>>
  /\ jx.op = "CloseAccount" /\ jx.account[1] = u => jx.account = <<u, Sol>> /\ jx.destination = u

(* A quiet instruction costs such a wallet the rent of an account it is to *)
(* create, and nothing else.                                               *)
LEMMA QuietWorth ==
  ASSUME NEW c, Fine(c), NEW ix \in Quiet, NEW tx, NEW n, NEW u \in Wallets, NEW m \in Mints, Harmless(ix, u),
         NEW r, r = Step(c, tx, ix, n), r.err = None, Fine(r.chain)
  PROVE  /\ Worth(r.chain, u, m) >= Worth(c, u, m) - RentToken
         /\ Worth(r.chain, u, m) >= Worth(c, u, m) \/ (m = Sol /\ ix.op = "CreateAta" /\ ix.payer = u)
<1>0. RentToken \in Nat /\ None \notin Failures /\ Sol \in Mints /\ Wallets \cap TokenAccounts = {}
  BY ChainAssumption
<1> USE <1>0
<1>1. /\ c \in Chains /\ c.lam \in [Accounts -> Nat] /\ TokenAccounts \subseteq Accounts /\ Wallets \subseteq Accounts
      /\ <<u, Sol>> \notin Wallets /\ RentToken \in Nat
  BY DEF Fine, Chains, Accounts, TokenAccounts
<1>2. Worth(c, u, m) \in Nat /\ Worth(r.chain, u, m) \in Nat
  BY WorthNat
<1>3. ix \in Instructions(Memos) /\ ix.op \in QuietOps
  BY DEF Quiet
<1>4. CASE m # Sol
  <2> DEFINE a == <<u, m>>
  <2>1. a \in TokenAccounts /\ (ix.op = "CloseAccount" => ix.account # a)
    BY <1>4 DEF TokenAccounts, Harmless
  <2> HIDE DEF a
  <2>2. Tokens(r.chain, a) >= Tokens(c, a)
    BY <2>1, QuietIs
  <2>3. Worth(r.chain, u, m) = Tokens(r.chain, a) /\ Worth(c, u, m) = Tokens(c, a)
    BY <1>4 DEF Worth, a
  <2> QED
    BY <1>1, <1>2, <2>2, <2>3
<1>5. CASE m = Sol
  <2>1. ASSUME r.chain.lam = c.lam
        PROVE  Worth(r.chain, u, m) = Worth(c, u, m)
    BY <1>5, <2>1 DEF Worth
  <2>2. CASE ix.op \in {"Memo", "SetComputeUnitPrice"}
    <3>1. r.chain = c
      BY <2>2 DEF Step, Ok
    <3> QED
      BY <1>1, <1>2, <3>1
  <2>3. CASE ix.op = "Transfer"
    <3>1. ix \in SystemInstructions
      BY <1>3, <2>3 DEF Instructions, TokenInstructions, BidInstructions, SwapInstructions, AdminInstructions
    <3> DEFINE from == ix.from
               to == ix.to
               k == ix.lamports
    <3>2. r = MoveLamports(c, from, to, k)
      BY <2>3 DEF Step
    <3>3. from \in Wallets /\ from \in Accounts /\ to \in Accounts /\ k \in Nat
      BY <1>1, <3>1 DEF SystemInstructions
    <3>4. from \in Mine(u) => to \in Mine(u)
      BY <1>1, <2>3, <3>3 DEF Mine, Harmless
    <3> HIDE DEF from, to, k
    <3>5. k <= c.lam[from] /\ r.chain.lam = Moved(c.lam, from, to, k)
      BY <1>1, <3>2, <3>3, MoveLamportsIs
    <3> DEFINE d == r.chain
    <3>6. d.lam = Moved(c.lam, from, to, k)
      BY <3>5
    <3> HIDE DEF d
    <3>7. Worth(d, u, Sol) >= Worth(c, u, Sol)
      BY <1>1, <3>3, <3>4, <3>5, <3>6, LamportsWorth
    <3> QED
      BY <1>1, <1>2, <1>5, <3>7 DEF d
  <2>4. ASSUME ix.op \in {"CreateAta", "SyncNative", "CloseAccount"} PROVE ix \in TokenInstructions
    BY <1>3, <2>4 DEF Instructions, SystemInstructions, BidInstructions, SwapInstructions, AdminInstructions
  <2>5. CASE ix.op = "SyncNative"
    <3> DEFINE b == ix.account
               e == [c EXCEPT !.tok[b] = c.lam[b] - RentToken]
    <3>1. r = IF b[2] # Sol \/ c.tok[b] = Closed THEN Fail("NotNative", c) ELSE Ok(e)
      BY <2>5 DEF Step, SyncNative
    <3>2. e.lam = c.lam
      BY <1>1 DEF Chains
    <3> HIDE DEF e
    <3>3. r.chain.lam = c.lam
      BY <3>1, <3>2 DEF Fail, Ok
    <3> QED
      BY <1>1, <1>2, <2>1, <3>3
  <2>6. CASE ix.op = "CreateAta"
    <3> DEFINE b == ix.ata
               k == SaturatingSub(RentToken, c.lam[b])
               payer == ix.payer
               s == MoveLamports(c, payer, b, k)
    <3>1. r = IF c.tok[b] # Closed THEN Ok(c)
              ELSE IF s.err = None THEN Ok([s.chain EXCEPT !.tok[b] = 0]) ELSE s
      BY <2>6 DEF Step, CreateAta, Then
    <3>2. b \in TokenAccounts /\ b \in Accounts /\ payer \in Accounts /\ payer # <<u, Sol>>
      <4>1. ix.payer \in Wallets /\ ix.ata \in TokenAccounts
        BY <2>4, <2>6 DEF TokenInstructions
      <4> QED
        BY <1>1, <4>1
    <3>3. k \in Nat /\ k <= RentToken
      BY <1>1, <3>2 DEF SaturatingSub
    <3> HIDE DEF k
    <3>4. CASE c.tok[b] # Closed
      <4>1. r.chain = c
        BY <3>1, <3>4 DEF Ok
      <4> QED
        BY <1>1, <1>2, <4>1
    <3>5. CASE c.tok[b] = Closed
      <4> DEFINE e == s.chain
      <4>1. /\ e \in Chains /\ (s.err \in Failures \/ (s.err = None /\ k <= c.lam[payer] /\ e.lam = Moved(c.lam, payer, b, k)))
        <5> HIDE DEF b, payer
        <5>1. s = MoveLamports(c, payer, b, k)
          OBVIOUS
        <5> HIDE DEF s
        <5> QED
          BY <1>1, <3>2, <3>3, <5>1, MoveLamportsIs
      <4> HIDE DEF e, s
      <4>2. s.err = None /\ r.chain = [e EXCEPT !.tok[b] = 0]
        BY <3>1, <3>5, <4>1 DEF Ok, e
      <4> DEFINE d == r.chain
      <4>3. d.lam = e.lam
        BY <4>1, <4>2 DEF Chains
      <4>4. k <= c.lam[payer] /\ d.lam = Moved(c.lam, payer, b, k)
        BY <4>1, <4>2, <4>3
      <4> HIDE DEF d, b, payer
      <4>5. /\ Worth(d, u, Sol) >= Worth(c, u, Sol) - k
            /\ payer \notin Mine(u) => Worth(d, u, Sol) >= Worth(c, u, Sol)
        BY <1>1, <3>2, <3>3, <4>4, LamportsWorth
      <4>6. payer \in Mine(u) => payer = u
        BY <3>2 DEF Mine
      <4> QED
        BY <1>1, <1>2, <1>5, <2>6, <3>3, <4>5, <4>6 DEF d, payer
    <3> QED
      BY <3>4, <3>5
  <2>7. CASE ix.op = "CloseAccount"
    <3> DEFINE b == ix.account
               to == ix.destination
               k == c.lam[b]
               s == MoveLamports(c, b, to, k)
    <3>1. r = IF c.tok[b] = Closed \/ (b[2] # Sol /\ c.tok[b] # 0) THEN Fail("CannotClose", c)
              ELSE IF s.err = None THEN Ok([s.chain EXCEPT !.tok[b] = Closed]) ELSE s
      BY <2>7 DEF Step, CloseAccount, Then
    <3>2. b \in TokenAccounts /\ b \in Accounts /\ to \in Accounts /\ k \in Nat
      <4>1. ix.destination \in Accounts /\ ix.account \in TokenAccounts
        BY <2>4, <2>7 DEF TokenInstructions
      <4> QED
        BY <1>1, <4>1
    <3>3. "CannotClose" # None
      BY DEF Failures
    <3>4. b \in Mine(u) => to \in Mine(u)
      <4>1. b \notin Wallets /\ (b = <<u, Sol>> => b[1] = u)
        BY <3>2
      <4> QED
        BY <2>7, <4>1 DEF Mine, Harmless
    <3> HIDE DEF k
    <3> DEFINE e == s.chain
    <3>5. /\ e \in Chains /\ (s.err \in Failures \/ (s.err = None /\ k <= c.lam[b] /\ e.lam = Moved(c.lam, b, to, k)))
      <4> HIDE DEF b, to
      <4>1. s = MoveLamports(c, b, to, k)
        OBVIOUS
      <4> HIDE DEF s
      <4> QED
        BY <1>1, <3>2, <4>1, MoveLamportsIs
    <3> HIDE DEF e, s
    <3>6. s.err = None /\ r.chain = [e EXCEPT !.tok[b] = Closed]
      BY <3>1, <3>3, <3>5 DEF Ok, Fail, e
    <3> DEFINE d == r.chain
    <3>7. d.lam = e.lam
      BY <3>5, <3>6 DEF Chains
    <3>8. k <= c.lam[b] /\ d.lam = Moved(c.lam, b, to, k)
      BY <3>5, <3>6, <3>7
    <3> HIDE DEF d, b, to
    <3>9. Worth(d, u, Sol) >= Worth(c, u, Sol)
      BY <1>1, <3>2, <3>4, <3>8, LamportsWorth
    <3> QED
      BY <1>1, <1>2, <1>5, <3>9 DEF d
  <2> QED
    BY <1>3, <2>2, <2>3, <2>5, <2>6, <2>7 DEF QuietOps
<1> QED
  BY <1>4, <1>5

(* What a swap is to bring a wallet that is its user, of a mint, and what  *)
(* it is to cost.                                                          *)
SwapBrings(c, ix, m) ==
  LET args == SwapArgs(c.meta.platformBps, ix)
  IN  Part(m, ix.mintSearcher, RestOf(args, FeesOf(c, args), "searcher"))
SwapCosts(ix, m) == Part(m, ix.mintUser, ix.args.amountUser)

(* A swap with another than the user brings the user no less and costs no  *)
(* more, wherever the fees go.                                             *)
LEMMA SwapWorth ==
  ASSUME NEW c, Fine(c), NEW d, Fine(d), NEW ix \in SwapInstructions, SwapDone(c, d, ix),
         ix.searcher # ix.user, NEW m \in Mints
  PROVE  /\ SwapBrings(c, ix, m) \in Nat /\ SwapCosts(ix, m) \in Nat
         /\ Worth(d, ix.user, m) >= Worth(c, ix.user, m) + SwapBrings(c, ix, m) - SwapCosts(ix, m)
<1> USE ChainAssumption
<1> DEFINE u == ix.user
           a == <<u, m>>
           args == SwapArgs(c.meta.platformBps, ix)
           fees == FeesOf(c, args)
           payer == FeePayer(ix, args)
           relayerAccount == <<ix.feeReceiver, ix.mintFee>>
           programAccount == <<Meta, ix.mintFee>>
           ra == ix.routerAccount
           ss == SearcherSource(ix)  st == SearcherTarget(ix)
           us == UserSource(ix)      ut == UserTarget(ix)
           rs == RestOf(args, fees, "searcher")
           ru == RestOf(args, fees, "user")
           x == fees.router  y == fees.relayer  z == fees.program
<1>1. c.meta # None /\ fees.ok /\ SwapPaid(c, d, ix, args, fees)
  BY DEF SwapDone
<1>2. c.meta \in ExpressRelayMetadata /\ c.meta.platformBps \in Splits
  BY <1>1 DEF Fine, Chains, ExpressRelayMetadata
<1>3. /\ args \in SwapArguments /\ args.feeToken = ix.args.feeToken /\ args.amountUser = ix.args.amountUser
      /\ ix.args \in SwapArguments
  <2>1. ix.args \in SwapArguments
    BY DEF SwapInstructions
  <2> DEFINE bps == c.meta.platformBps
  <2>2. bps \in Splits
    BY <1>2
  <2>3. args = SwapArgs(bps, ix)
    OBVIOUS
  <2> HIDE DEF bps, args
  <2>4. args \in SwapArguments /\ args.feeToken = ix.args.feeToken
    BY <2>2, <2>3, ArgsAre
  <2>5. args.amountUser = ix.args.amountUser
    BY <2>1, <2>3 DEF SwapArgs, SwapArguments
  <2> QED
    BY <2>1, <2>4, <2>5
<1> HIDE DEF args
<1>4. /\ Amounts(fees)
      /\ fees.router + fees.relayer + fees.program + fees.remaining
           = IF args.feeToken = "searcher" THEN args.amountSearcher ELSE args.amountUser
  BY <1>1, <1>3, FeesAre
<1>5. /\ x \in Nat /\ y \in Nat /\ z \in Nat /\ rs \in Nat /\ ru \in Nat /\ args.amountUser \in Nat
      /\ IF args.feeToken = "user" THEN x + y + z + ru = args.amountUser ELSE ru = args.amountUser
  <2> HIDE DEF fees
  <2> QED
    BY <1>3, <1>4 DEF Amounts, SwapArguments, RestOf
<1>6. /\ {ss, st, us, ut} \subseteq TokenAccounts
      /\ relayerAccount \in TokenAccounts /\ programAccount \in TokenAccounts /\ ra \in TokenAccounts
      /\ a \in TokenAccounts /\ u \in Wallets
  BY DEF SwapInstructions, TokenAccounts, SearcherSource, SearcherTarget, UserSource, UserTarget
<1>7. /\ payer = IF args.feeToken = "user" THEN us ELSE ss
      /\ payer \in TokenAccounts
      /\ a # ss
      /\ us = <<u, ix.mintUser>> /\ ut = <<u, ix.mintSearcher>>
  BY <1>3, <1>6 DEF SwapArguments, FeePayer, SearcherSource, UserSource, UserTarget
<1>8. PICK c1, c2, c3, c4 :
        /\ Fine(c1) /\ Fine(c2) /\ Fine(c3) /\ Fine(c4)
        /\ TokensMoved(c, c1, payer, ra, x)
        /\ TokensMoved(c1, c2, payer, relayerAccount, y)
        /\ TokensMoved(c2, c3, payer, programAccount, z)
        /\ TokensMoved(c3, c4, ss, ut, rs)
        /\ TokensMoved(c4, d, us, st, ru)
  BY <1>1 DEF SwapPaid
<1>9. SwapBrings(c, ix, m) = Part(m, ix.mintSearcher, rs) /\ SwapCosts(ix, m) = Part(m, ix.mintUser, args.amountUser)
  BY <1>3 DEF SwapBrings, SwapCosts, args
<1>10. ASSUME NEW k PROVE Part(a, us, k) = Part(m, ix.mintUser, k) /\ Part(a, ut, k) = Part(m, ix.mintSearcher, k)
  BY <1>7 DEF Part
<1> HIDE DEF u, a, fees, payer, relayerAccount, programAccount, ra, ss, st, us, ut, rs, ru, x, y, z
<1> DEFINE W(e) == Worth(e, u, m)
<1>11. /\ W(c1) = W(c) + Part(a, ra, x) - Part(a, payer, x)
       /\ W(c2) = W(c1) + Part(a, relayerAccount, y) - Part(a, payer, y)
       /\ W(c3) = W(c2) + Part(a, programAccount, z) - Part(a, payer, z)
  BY <1>5, <1>6, <1>7, <1>8, TransferWorth DEF a
<1>12. /\ W(c4) = W(c3) + Part(a, ut, rs) - Part(a, ss, rs)
       /\ W(d) = W(c4) + Part(a, st, ru) - Part(a, us, ru)
  BY <1>5, <1>6, <1>8, TransferWorth DEF a
<1>13. W(c) \in Nat /\ W(c1) \in Nat /\ W(c2) \in Nat /\ W(c3) \in Nat /\ W(c4) \in Nat /\ W(d) \in Nat
  BY <1>6, <1>8, WorthNat
<1> HIDE DEF W
<1>14. ASSUME NEW k \in Nat, NEW b PROVE Part(a, b, k) \in 0..k
  BY <1>14 DEF Part
<1>15. W(c3) >= W(c) - Part(a, payer, x) - Part(a, payer, y) - Part(a, payer, z)
  <2>1. /\ Part(a, ra, x) \in Nat /\ Part(a, relayerAccount, y) \in Nat /\ Part(a, programAccount, z) \in Nat
        /\ Part(a, payer, x) \in Nat /\ Part(a, payer, y) \in Nat /\ Part(a, payer, z) \in Nat
    BY <1>5 DEF Part
  <2> QED
    BY <1>11, <1>13, <2>1
<1>16. W(d) >= W(c3) + Part(a, ut, rs) - Part(a, us, ru)
  <2>1. /\ Part(a, ut, rs) \in Nat /\ Part(a, ss, rs) = 0
        /\ Part(a, st, ru) \in Nat /\ Part(a, us, ru) \in Nat
    BY <1>5, <1>7 DEF Part
  <2> QED
    BY <1>12, <1>13, <2>1
<1>17. Part(a, payer, x) + Part(a, payer, y) + Part(a, payer, z) + Part(a, us, ru)
         = Part(a, us, args.amountUser)
  BY <1>5, <1>7 DEF Part
<1>18. /\ Part(a, payer, x) \in Nat /\ Part(a, payer, y) \in Nat /\ Part(a, payer, z) \in Nat
       /\ Part(a, us, ru) \in Nat /\ Part(a, ut, rs) \in Nat /\ Part(a, us, args.amountUser) \in Nat
  BY <1>5 DEF Part
<1>19. W(d) >= W(c) + Part(a, ut, rs) - Part(a, us, args.amountUser)
  BY <1>13, <1>15, <1>16, <1>17, <1>18
<1> QED
  BY <1>9, <1>10, <1>18, <1>19 DEF W, u

(* The checks leave no instruction that could harm the user, where another *)
(* is the searcher, and at most two creations the user pays for.           *)
LEMMA HarmlessIs ==
  ASSUME NEW opp, NEW tx \in Transactions(Memos), Verified(opp, tx),
         NEW k, k = ProgramInstruction(tx, {"Swap", "SwapV2"}), tx.ixs[k].searcher # tx.ixs[k].user
  PROVE  /\ \A i \in 1..Len(tx.ixs) : Harmless(tx.ixs[i], tx.ixs[k].user)
         /\ \E x, y \in 0..Len(tx.ixs) :
               /\ \A i \in 1..Len(tx.ixs) : tx.ixs[i].op = "CreateAta" /\ tx.ixs[i].payer # tx.ixs[k].searcher => i \in {x, y}
               /\ opp.inits.userMintUser # "UserPayer" => x = 0
               /\ opp.inits.userMintSearcher # "UserPayer" => y = 0
<1> DEFINE ix == tx.ixs[k]
           L == Len(tx.ixs)
<1>1. PICK meta \in ExpressRelayMetadata, n \in Nat : SwapDataOk(meta, opp, tx, n)
  BY DEF Verified
<1> DEFINE args == ExtractSwapData(meta, ix)
<1>2. CreateAtasOk(tx, opp, ix) /\ TransfersOk(tx, opp, ix, args) /\ CloseAccountsOk(tx, ix)
  BY <1>1 DEF SwapDataOk, WrapUnwrapOk
<1>3. /\ L \in Nat /\ DOMAIN tx.ixs = 1..L
      /\ tx.ixs \in Seq(Instructions(Memos))
  BY TransactionIs DEF Transactions
<1> HIDE DEF args
<1>4. ASSUME NEW i \in 1..L, tx.ixs[i].op = "Transfer", tx.ixs[i].from = ix.user
      PROVE  tx.ixs[i].to = <<ix.user, Sol>>
  <2> DEFINE r == tx.ixs
             S == {r[j] : j \in Positions(tx, {"Transfer"})}
             I == Instructions(Memos)
             s == Selected(r, S)
  <2>1. Transfers(tx) = s
    BY DEF Transfers, Ixs
  <2>2. i \in Places(r, S)
    <3>1. i \in Positions(tx, {"Transfer"})
      BY <1>3, <1>4 DEF Positions
    <3> QED
      BY <3>1 DEF Places
  <2>3. r \in Seq(I)
    BY <1>3
  <2> HIDE DEF r, S, I
  <2>4. s \in Seq(I)
    BY <2>3, SelectedElements
  <2>5. PICK p \in [Places(r, S) -> 1..Len(s)] : \A j \in Places(r, S) : s[p[j]] = r[j]
    <3>1. \E p \in [Places(r, S) -> 1..Len(s)] :
            /\ \A j \in Places(r, S) : s[p[j]] = r[j]
            /\ \A j, l \in Places(r, S) : j # l => p[j] # p[l]
      BY <2>3, SelectedPlaces
    <3> QED
      BY <3>1
  <2> HIDE DEF s
  <2>6. Len(s) <= 1
    BY <1>2, <2>1 DEF TransfersOk
  <2>7. s[1] = r[i] /\ s # <<>>
    <3>1. p[i] \in 1..Len(s) /\ Len(s) \in Nat
      BY <2>2, <2>4, <2>5
    <3>2. p[i] = 1 /\ Len(s) = 1
      <4> DEFINE q == p[i]
                 l == Len(s)
      <4>1. q \in 1..l /\ l \in Nat /\ l <= 1
        BY <2>6, <3>1
      <4> HIDE DEF q, l
      <4>2. q = 1 /\ l = 1
        BY <4>1
      <4> QED
        BY <4>2 DEF q, l
    <3> QED
      BY <2>2, <2>5, <3>2
  <2>8. CASE ix.mintUser = Sol
    BY <1>2, <2>1, <2>7, <2>8 DEF TransfersOk, r
  <2>9. CASE ix.mintUser # Sol
    <3>1. s[1].from = ix.searcher
      BY <1>2, <2>1, <2>7, <2>9 DEF TransfersOk
    <3> QED
      BY <1>4, <2>7, <3>1 DEF r
  <2> QED
    BY <2>8, <2>9
<1>5. ASSUME NEW i \in 1..L, tx.ixs[i].op = "CloseAccount", tx.ixs[i].account[1] = ix.user
      PROVE  tx.ixs[i].account = <<ix.user, Sol>> /\ tx.ixs[i].destination = ix.user
  <2> DEFINE of(w) == {j \in Closes(tx) : tx.ixs[j].account = <<w, Sol>>}
  <2>1. i \in Closes(tx)
    BY <1>3, <1>5 DEF Closes, Positions
  <2>2. Closes(tx) = of(ix.user) \cup of(ix.searcher) /\ Closes(tx) # {}
    BY <1>2, <2>1 DEF CloseAccountsOk
  <2>3. \A j \in of(ix.user) : tx.ixs[j].destination = ix.user
    BY <1>2, <2>2 DEF CloseAccountsOk
  <2>4. i \notin of(ix.searcher)
    <3>1. <<ix.searcher, Sol>>[1] = ix.searcher
      OBVIOUS
    <3> QED
      BY <1>5, <3>1
  <2>5. i \in of(ix.user)
    BY <2>1, <2>2, <2>4
  <2> QED
    BY <2>3, <2>5
<1>6. ASSUME NEW i \in 1..L PROVE Harmless(tx.ixs[i], ix.user)
  BY <1>4, <1>5 DEF Harmless
<1> HIDE DEF ix
<1>7. \E x, y \in 0..Len(tx.ixs) :
        /\ \A i \in 1..Len(tx.ixs) : tx.ixs[i].op = "CreateAta" /\ tx.ixs[i].payer # ix.searcher => i \in {x, y}
        /\ opp.inits.userMintUser # "UserPayer" => x = 0
        /\ opp.inits.userMintSearcher # "UserPayer" => y = 0
  BY <1>2, CreationsIs
<1> QED
  BY <1>6, <1>7 DEF ix

(* What a verified swap that executes leaves its user, mint by mint, where *)
(* another is the searcher: what the swap brings and costs, and the rent   *)
(* of the accounts that are for the user to pay.                           *)
LEMMA UserLanded ==
  ASSUME NEW opp, NEW tx \in Transactions(Memos), Verified(opp, tx), NEW c, Fine(c), NEW n,
         Execute(c, tx, n).err = None, NEW k, k = ProgramInstruction(tx, {"Swap", "SwapV2"}),
         Meta \notin {tx.ixs[k].user, tx.ixs[k].searcher}, tx.ixs[k].searcher # tx.ixs[k].user, NEW m \in Mints
  PROVE  LET ix == tx.ixs[k]
             rent == UserPaidInits(opp.inits) * RentToken
         IN  /\ c.meta # None /\ FeesOf(c, SwapArgs(c.meta.platformBps, ix)).ok
             /\ SwapBrings(c, ix, m) \in Nat /\ SwapCosts(ix, m) \in Nat /\ rent \in Nat
             /\ Worth(Execute(c, tx, n).chain, ix.user, m)
                  >= Worth(c, ix.user, m) + SwapBrings(c, ix, m) - SwapCosts(ix, m) - Part(m, Sol, rent)
<1> USE ChainAssumption
<1> DEFINE L == Len(tx.ixs)
           f == Run(c, tx, n)
           ix == tx.ixs[k]
           u == ix.user
<1>1. /\ L \in Nat /\ k \in 1..L
      /\ f[0].chain = c /\ f[L].chain = Execute(c, tx, n).chain
      /\ \A i \in 0..L : Fine(f[i].chain)
      /\ \A i \in 1..L : i # k => LET r == Step(f[i - 1].chain, tx, tx.ixs[i], n)
                               IN  tx.ixs[i] \in Quiet /\ r.err = None /\ f[i].chain = r.chain
      /\ SwapDone(f[k - 1].chain, f[k].chain, ix)
      /\ f[k - 1].chain.meta = c.meta
  <2> HIDE DEF f
  <2>1. f = Run(c, tx, n)
    BY DEF f
  <2> QED
    BY <2>1, SwapRun
<1>2. ix \in SwapInstructions /\ u \in Wallets
  <2>1. ix \in SwapInstructions
    BY VerifiedIs DEF SwapOf
  <2> QED
    BY <2>1 DEF SwapInstructions
<1> HIDE DEF f, L
<1> DEFINE p == opp.inits.userMintUser = "UserPayer"
           q == opp.inits.userMintSearcher = "UserPayer"
<1>3. PICK x, y \in 0..L :
        /\ \A i \in 1..L : tx.ixs[i].op = "CreateAta" /\ tx.ixs[i].payer # ix.searcher => i \in {x, y}
        /\ ~p => x = 0
        /\ ~q => y = 0
  BY HarmlessIs DEF L
<1>4. \A i \in 1..L : Harmless(tx.ixs[i], u)
  BY HarmlessIs DEF L
<1> DEFINE T(i) == Worth(f[i].chain, u, m)
<1>5. ASSUME NEW i \in 0..L PROVE T(i) \in Nat
  BY <1>1, <1>2, WorthNat
<1>6. ASSUME NEW i \in 1..L, i # k
      PROVE  T(i) >= T(i - 1) \/ (m = Sol /\ i \in {x, y} /\ T(i) >= T(i - 1) - RentToken)
  <2> DEFINE jx == tx.ixs[i]
             b == f[i - 1].chain
             r == Step(b, tx, jx, n)
  <2>1. /\ Fine(b) /\ r.err = None /\ f[i].chain = r.chain /\ jx \in Quiet /\ Fine(r.chain) /\ Harmless(jx, u)
    <3>1. i - 1 \in 0..L /\ i \in 0..L
      BY <1>1
    <3> QED
      BY <1>1, <1>4, <1>6, <3>1
  <2>2. jx.op = "CreateAta" /\ jx.payer = u => i \in {x, y}
    BY <1>3
  <2>3. r = Step(b, tx, jx, n)
    OBVIOUS
  <2> HIDE DEF jx, b, r, u
  <2>4. /\ Worth(r.chain, u, m) >= Worth(b, u, m) - RentToken
        /\ Worth(r.chain, u, m) >= Worth(b, u, m) \/ (m = Sol /\ jx.op = "CreateAta" /\ jx.payer = u)
    BY <1>2, <2>1, <2>3, QuietWorth
  <2> QED
    BY <2>1, <2>2, <2>4 DEF b
<1> DEFINE gain == SwapBrings(c, ix, m)
           cost == SwapCosts(ix, m)
<1>7. /\ c.meta # None /\ FeesOf(c, SwapArgs(c.meta.platformBps, ix)).ok
      /\ gain \in Nat /\ cost \in Nat /\ T(k) >= T(k - 1) + gain - cost
  <2> DEFINE b == f[k - 1].chain
             d == f[k].chain
  <2>1. Fine(b) /\ Fine(d) /\ SwapDone(b, d, ix) /\ b.meta = c.meta
    <3>1. k - 1 \in 0..L /\ k \in 0..L
      BY <1>1
    <3> QED
      BY <1>1, <3>1
  <2> HIDE DEF b, d
  <2>2. ix.searcher # ix.user
    OBVIOUS
  <2> HIDE DEF ix
  <2>3. /\ SwapBrings(b, ix, m) \in Nat /\ SwapCosts(ix, m) \in Nat
        /\ Worth(d, ix.user, m) >= Worth(b, ix.user, m) + SwapBrings(b, ix, m) - SwapCosts(ix, m)
    BY <1>2, <2>1, <2>2, SwapWorth
  <2>4. SwapBrings(b, ix, m) = gain
    BY <2>1 DEF SwapBrings, FeesOf
  <2>5. c.meta # None /\ FeesOf(c, SwapArgs(c.meta.platformBps, ix)).ok
    BY <2>1 DEF SwapDone, FeesOf
  <2> QED
    BY <2>3, <2>4, <2>5 DEF b, d
<1> HIDE DEF ix, u, gain, cost, T, p, q
<1> DEFINE rent(z, i) == IF m = Sol /\ z # 0 /\ z <= i THEN RentToken ELSE 0
           owed(i) == IF i < k THEN 0 ELSE gain - cost
           At(i) == T(i) >= T(0) + owed(i) - rent(x, i) - rent(y, i)
           Good == {i \in 0..L : At(i)}
<1>8. RentToken \in Nat /\ x \in Nat /\ y \in Nat /\ k \in Nat /\ 0 \in 0..L /\ T(0) \in Nat
  BY <1>1, <1>3, <1>5
<1>9. 0 \in Good
  <2>1. 0 < k /\ rent(x, 0) = 0 /\ rent(y, 0) = 0
    BY <1>1, <1>8
  <2>2. owed(0) = 0
    BY <2>1
  <2> HIDE DEF rent, owed
  <2> QED
    BY <1>8, <2>1, <2>2
<1>10. ASSUME NEW i \in 0..(L - 1), i \in Good PROVE i + 1 \in Good
  <2>1. /\ i + 1 \in 1..L /\ i + 1 \in 0..L /\ i \in 0..L /\ (i + 1) - 1 = i /\ i \in Nat
        /\ T(i) \in Nat /\ T(i + 1) \in Nat
    <3>1. i + 1 \in 1..L /\ i + 1 \in 0..L /\ i \in 0..L /\ (i + 1) - 1 = i /\ i \in Nat
      BY <1>1
    <3> QED
      BY <1>5, <3>1
  <2>2. ASSUME NEW z \in Nat
        PROVE  /\ rent(z, i) \in Nat /\ rent(z, i + 1) \in Nat /\ rent(z, i + 1) >= rent(z, i)
               /\ m = Sol /\ z = i + 1 => rent(z, i + 1) = rent(z, i) + RentToken
    <3>1. z <= i => z <= i + 1
      BY <2>1
    <3>2. z = i + 1 => z # 0 /\ ~(z <= i) /\ z <= i + 1
      BY <2>1
    <3> QED
      BY <1>8, <3>1, <3>2
  <2> DEFINE X == rent(x, i)      Y == rent(y, i)
             X1 == rent(x, i + 1) Y1 == rent(y, i + 1)
             t == T(i) t1 == T(i + 1) t0 == T(0)
             o == owed(i) o1 == owed(i + 1)
  <2>3. /\ X \in Nat /\ X1 \in Nat /\ X1 >= X /\ (m = Sol /\ x = i + 1 => X1 = X + RentToken)
        /\ Y \in Nat /\ Y1 \in Nat /\ Y1 >= Y /\ (m = Sol /\ y = i + 1 => Y1 = Y + RentToken)
    <3> HIDE DEF rent
    <3> QED
      BY <1>8, <2>2
  <2>4. t >= t0 + o - X - Y /\ t \in Nat /\ t1 \in Nat /\ t0 \in Nat
    BY <1>8, <1>10, <2>1
  <2>5. o \in Int /\ (i + 1 = k => o = 0 /\ o1 = gain - cost) /\ (i + 1 # k => o1 = o)
    <3>1. i + 1 = k => i < k /\ ~(i + 1 < k)
      BY <1>8, <2>1
    <3>2. i + 1 # k => (i < k <=> i + 1 < k)
      BY <1>8, <2>1
    <3> QED
      BY <1>7, <3>1, <3>2
  <2>6. i + 1 = k => t1 >= t + gain - cost
    BY <1>7, <2>1
  <2>7. i + 1 # k => t1 >= t \/ (m = Sol /\ i + 1 \in {x, y} /\ t1 >= t - RentToken)
    BY <1>6, <2>1
  <2>8. t1 >= t0 + o1 - X1 - Y1 => i + 1 \in Good
    BY <2>1
  <2> HIDE DEF X, Y, X1, Y1, t, t1, t0, o, o1, rent, owed, Good
  <2>9. CASE i + 1 = k
    BY <1>7, <2>3, <2>4, <2>5, <2>6, <2>8, <2>9
  <2>10. CASE i + 1 # k
    BY <1>8, <2>3, <2>4, <2>5, <2>7, <2>8, <2>10
  <2> QED
    BY <2>9, <2>10
<1>11. L \in Good
  <2> HIDE DEF Good
  <2>1. 0..L \subseteq Good
    BY <1>1, <1>9, <1>10, InductionUpTo
  <2> QED
    BY <1>1, <2>1
<1> DEFINE paid == UserPaidInits(opp.inits) * RentToken
<1>12. paid = (IF p THEN RentToken ELSE 0) + (IF q THEN RentToken ELSE 0)
  <2>1. UserPaidInits(opp.inits) = (IF p THEN 1 ELSE 0) + (IF q THEN 1 ELSE 0)
    BY UserPaidIs DEF p, q
  <2> QED
    BY <1>8, <2>1
<1>13. rent(x, L) + rent(y, L) <= Part(m, Sol, paid) /\ rent(x, L) \in Nat /\ rent(y, L) \in Nat /\ paid \in Nat
  <2>1. CASE m = Sol
    BY <1>3, <1>8, <1>12, <2>1 DEF Part
  <2>2. CASE m # Sol
    BY <1>8, <1>12, <2>2 DEF Part
  <2> QED
    BY <2>1, <2>2
<1>14. T(L) >= T(0) + (gain - cost) - rent(x, L) - rent(y, L) /\ T(L) \in Nat
  <2>1. ~(L < k) /\ L \in 0..L
    BY <1>1
  <2> QED
    BY <1>5, <1>11, <2>1
<1>15. Part(m, Sol, paid) \in Nat
  BY <1>13 DEF Part
<1> HIDE DEF rent, paid
<1>16. T(L) >= T(0) + gain - cost - Part(m, Sol, paid)
  BY <1>7, <1>8, <1>13, <1>14, <1>15
<1> QED
  BY <1>1, <1>7, <1>13, <1>16 DEF T, u, ix, gain, cost, paid

(* What was answered of a swap is the amount its user pays: the server     *)
(* answers with the swap it verified, and neither changes afterwards.      *)
AnswerInv ==
  bid.stage = "answered" /\ IsSwap /\ quote.answer # None => quote.answer.userAmount = SwapIx.args.amountUser

(* The amount that is answered is the swap's.                              *)
LEMMA AnswerIs ==
  ASSUME NEW ix \in SwapInstructions, NEW meta, NEW q, NEW opp, NEW a, a = Answer(meta, q, opp, ix), a # None
  PROVE  a.userAmount = ix.args.amountUser
<1> DEFINE args == SwapArgs(meta.platformBps, ix)
<1>1. a.userAmount = args.amountUser
  BY DEF Answer
<1>2. ix.args \in SwapArguments
  BY DEF SwapInstructions
<1>3. args.amountUser = ix.args.amountUser
  BY <1>2 DEF SwapArgs, SwapArguments
<1> QED
  BY <1>1, <1>3

(* Any other step leaves the bid and its answer, or takes the bid to       *)
(* another stage.                                                          *)
LEMMA AnswerKept ==
  ASSUME MarketInv, [MarketNext]_vars, ~AnswerQuote
  PROVE  bid'.stage # "answered" \/ (bid' = bid /\ quote'.answer = quote.answer /\ quote'.request = quote.request)
<1> DEFINE Same == bid' = bid /\ quote' = quote
           Goal == bid'.stage # "answered" \/ (bid' = bid /\ quote'.answer = quote.answer /\ quote'.request = quote.request)
<1>1. /\ bid \in [stage : Stages, tx : Transactions(Memos) \cup {None}, sdk : BOOLEAN]
      /\ quote = [request |-> quote.request, opp |-> quote.opp, live |-> quote.live, answer |-> quote.answer]
  BY DEF MarketInv, BidInv, QuoteInv
<1>2. CASE Same
  BY <1>2
<1>3. ASSUME NEW s, bid' = [bid EXCEPT !.stage = s] PROVE bid'.stage = s
  BY <1>1, <1>3
<1>4. CASE \E q \in Requests : GetQuote(q)
  BY <1>4 DEF GetQuote
<1>5. ASSUME NEW tx, NEW sdk, SendSwap(tx, sdk) PROVE Goal
  BY <1>5 DEF SendSwap
<1>6. CASE \E b \in BidParams : SendSdkSwap(b) \/ SendOtherSwap(b)
  BY <1>5, <1>6 DEF SendSdkSwap, SendOtherSwap
<1>7. CASE \E tx \in BidTxs : SendBid(tx)
  BY <1>7 DEF SendBid
<1>8. CASE VerifyFields \/ VerifySignatures \/ Simulate \/ SimulationUnavailable
  <2> HIDE DEF Goal
  <2>1. CASE VerifyFields
    <3> DEFINE ok == /\ ComputeBudgetOk(bid.tx, samples, now)
                     /\ IF IsSwap THEN quote.live /\ SwapDataOk(Metadata, quote.opp, bid.tx, now)
                        ELSE SubmitBidDataOk(bid.tx, now)
    <3>1. Advance("sent", ok, "fields")
      BY <2>1 DEF VerifyFields
    <3> HIDE DEF ok
    <3>2. bid'.stage = IF ok THEN "fields" ELSE "rejected"
      BY <1>1, <3>1 DEF Advance
    <3> QED
      BY <3>2 DEF Goal
  <2>2. CASE VerifySignatures
    <3> DEFINE ok == IF IsSwap THEN /\ quote.live
                                    /\ BidPermission(Metadata, quote.opp, bid.tx) = quote.opp.permission
                                    /\ FeePayerOk(bid.tx, quote.opp)
                                    /\ SignaturesOk(bid.tx, {quote.opp.user})
                     ELSE SignaturesOk(bid.tx, {})
    <3>1. Advance("fields", ok, "signed")
      BY <2>2 DEF VerifySignatures
    <3> HIDE DEF ok
    <3>2. bid'.stage = IF ok THEN "signed" ELSE "rejected"
      BY <1>1, <3>1 DEF Advance
    <3> QED
      BY <3>2 DEF Goal
  <2>3. CASE Simulate
    <3> DEFINE ok == \/ IsIndicative
                     \/ IF IsSwap THEN SimulatedSwapOk(chain, bid.tx, now) ELSE SimulatedBidOk(chain, bid.tx, now)
    <3>1. Advance("signed", ok, "accepted")
      BY <2>3 DEF Simulate
    <3> HIDE DEF ok
    <3>2. bid'.stage = IF ok THEN "accepted" ELSE "rejected"
      BY <1>1, <3>1 DEF Advance
    <3> QED
      BY <3>2 DEF Goal
  <2>4. CASE SimulationUnavailable
    <3> DEFINE ok == IsIndicative
    <3>1. Advance("signed", ok, "accepted")
      BY <2>4 DEF SimulationUnavailable
    <3> HIDE DEF ok
    <3>2. bid'.stage = IF ok THEN "accepted" ELSE "rejected"
      BY <1>1, <3>1 DEF Advance
    <3> QED
      BY <3>2 DEF Goal
  <2> QED
    BY <1>8, <2>1, <2>2, <2>3, <2>4
<1>9. CASE RemoveOpportunity
  <2>1. bid' = bid /\ quote' = [quote EXCEPT !.live = FALSE]
    BY <1>9 DEF RemoveOpportunity
  <2> QED
    BY <1>1, <2>1
<1>10. CASE Lands
  <2>1. bid'.stage \in {"landed", "failed"}
    BY <1>3, <1>10 DEF Lands
  <2> QED
    BY <2>1
<1>11. ASSUME NEW c, Change(c) PROVE Same
  BY <1>11 DEF Change
<1>12. CASE \E ix \in AdminSteps : Administer(ix)
  BY <1>11, <1>12 DEF Administer
<1>13. CASE \E x \in Flows : Flow(x[1], x[2])
  BY <1>11, <1>13 DEF Flow
<1>14. CASE \E a \in TokenAccounts : CloseEmpty(a)
  BY <1>11, <1>14 DEF CloseEmpty
<1>15. CASE \E x \in Samples : UpdateFee(x)
  BY <1>15 DEF UpdateFee
<1>16. CASE Tick \/ ForgetMetadata
  BY <1>16 DEF Tick, ForgetMetadata
<1>17. CASE Terminating \/ UNCHANGED vars
  BY <1>17 DEF Terminating, vars
<1> HIDE DEF Goal
<1> QED
  BY <1>2, <1>4, <1>6, <1>7, <1>8, <1>9, <1>10, <1>12, <1>13, <1>14, <1>15, <1>16, <1>17 DEF MarketNext, Same, Goal

(* Every step keeps the answer true.                                       *)
LEMMA AnswerStep ==
  ASSUME MarketInv, AnswerInv, [MarketNext]_vars
  PROVE  AnswerInv'
<1>1. CASE AnswerQuote
  <2> DEFINE k == ProgramInstruction(bid.tx, {"Swap", "SwapV2"})
             tx == bid.tx
             opp == quote.opp
             ix == tx.ixs[k]
             a == Answer(Metadata, quote.request, opp, ix)
  <2>1. tx \in Transactions(Memos) /\ Verified(opp, tx)
    BY <1>1 DEF AnswerQuote, MarketInv, BidInv
  <2>2. ix \in SwapInstructions
    <3> HIDE DEF tx, opp
    <3> QED
      BY <2>1, VerifiedIs DEF SwapOf, tx
  <2>3. /\ bid \in [stage : Stages, tx : Transactions(Memos) \cup {None}, sdk : BOOLEAN]
        /\ quote = [request |-> quote.request, opp |-> quote.opp, live |-> quote.live, answer |-> quote.answer]
    BY DEF MarketInv, BidInv, QuoteInv
  <2>4. bid' = [bid EXCEPT !.stage = "answered"] /\ quote' = [quote EXCEPT !.answer = a]
    BY <1>1 DEF AnswerQuote
  <2> HIDE DEF a
  <2>5. bid'.tx = tx /\ quote'.answer = a
    BY <2>3, <2>4
  <2>6. SwapIx' = ix
    BY <2>5 DEF SwapIx
  <2>7. a # None => a.userAmount = ix.args.amountUser
    <3> HIDE DEF ix
    <3> QED
      BY <2>2, AnswerIs DEF a
  <2> QED
    BY <2>5, <2>6, <2>7 DEF AnswerInv
<1>2. CASE ~AnswerQuote
  <2>1. bid'.stage # "answered" \/ (bid' = bid /\ quote'.answer = quote.answer /\ quote'.request = quote.request)
    BY <1>2, AnswerKept
  <2> QED
    BY <2>1 DEF AnswerInv, IsSwap, SwapIx
<1> QED
  BY <1>1, <1>2

(* So it always holds.                                                     *)
LEMMA AnswerInvariant == MarketSpec => []AnswerInv
<1>1. MarketInit => AnswerInv
  BY DEF MarketInit, NoBid, AnswerInv
<1>2. MarketInv /\ AnswerInv /\ [MarketNext]_vars => AnswerInv'
  BY AnswerStep
<1> QED
  BY <1>1, <1>2, MarketInvariant, PTL DEF MarketSpec

(* A swap that was accepted and executes, whatever a searcher other than   *)
(* the user made of it, costs the user no more than what was answered and  *)
(* the rent that was the user's to pay, and brings the searcher's amount   *)
(* without the agreed fees.                                                *)
THEOREM UserIsProtected == MarketSpec => UserProtected
<1> DEFINE Body ==
      LET opp == quote.opp
          of(mint, m, n) == IF m = mint THEN n ELSE 0
          due == IF opp.feeToken = "searcher" THEN AgreedFees.remaining ELSE SwapIx.args.amountSearcher
      IN  \A m \in Mints :
             Gain(chain, chain', opp.user, m)
               >= of(opp.mintSearcher, m, due) - of(opp.mintUser, m, quote.answer.userAmount)
                  - of(Sol, m, UserPaidInits(opp.inits) * RentToken)
<1>1. ASSUME MarketInv, AnswerInv, Landing, IsSwap, AgreedTerms, SwapIx.searcher # SwapIx.user
      PROVE  Body
  <2> DEFINE k == ProgramInstruction(bid.tx, {"Swap", "SwapV2"})
             tx == bid.tx
             ix == tx.ixs[k]
             c == chain
             d == chain'
             n == now
             opp == quote.opp
             args == SwapArgs(c.meta.platformBps, ix)
             fees == FeesOf(c, args)
             agreed == SwapFees(IF opp.feeToken = "searcher" THEN ix.args.amountSearcher ELSE ix.args.amountUser,
                                opp.referral, opp.platform, c.meta.splitRelayer)
             answered == quote.answer.userAmount
             due == IF opp.feeToken = "searcher" THEN agreed.remaining ELSE ix.args.amountSearcher
             rent == UserPaidInits(opp.inits) * RentToken
  <2>1. /\ Fine(c) /\ d = Execute(c, tx, n).chain /\ Execute(c, tx, n).err = None
        /\ tx \in Transactions(Memos) /\ Verified(opp, tx) /\ SwapOf(opp, tx, k)
        /\ Meta \notin {ix.user, ix.searcher} /\ ix.searcher # ix.user
    BY <1>1, SwapLandingIs DEF SwapIx
  <2>2. SwapIx = ix /\ AgreedFees = agreed
    BY DEF SwapIx, AgreedFees
  <2>3. ix.op = "SwapV2" \/ c.meta.platformBps * BpsToPpm = opp.platform
    BY <1>1, <2>2 DEF AgreedTerms
  <2>4. answered = ix.args.amountUser
    BY <1>1, <2>2 DEF AnswerInv, Landing, Lands
  <2> HIDE DEF tx, c, d, n, opp, answered
  <2>5. k = ProgramInstruction(tx, {"Swap", "SwapV2"})
    BY DEF tx
  <2> HIDE DEF k
  <2>6. /\ ix \in SwapInstructions /\ Agrees(opp, ix)
        /\ ix.user = opp.user /\ ix.mintUser = opp.mintUser /\ ix.mintSearcher = opp.mintSearcher
        /\ ix.args.feeToken = opp.feeToken
    BY <2>1 DEF SwapOf, Agrees
  <2>7. ASSUME NEW m \in Mints
        PROVE  /\ c.meta # None /\ fees.ok
               /\ SwapBrings(c, ix, m) \in Nat /\ SwapCosts(ix, m) \in Nat /\ rent \in Nat
               /\ Worth(d, ix.user, m)
                    >= Worth(c, ix.user, m) + SwapBrings(c, ix, m) - SwapCosts(ix, m) - Part(m, Sol, rent)
    BY <2>1, <2>5, UserLanded
  <2>8. c.meta # None /\ fees.ok
    BY <2>7, ChainAssumption
  <2>9. fees = agreed
    <3> HIDE DEF ix
    <3> QED
      BY <2>1, <2>3, <2>6, <2>8, AgreedIs
  <2>10. RestOf(args, fees, "searcher") = due
    <3>1. args.feeToken = ix.args.feeToken /\ args.amountSearcher = ix.args.amountSearcher
      <4>1. ix.args \in SwapArguments
        BY <2>6 DEF SwapInstructions
      <4> HIDE DEF ix
      <4> QED
        BY <4>1 DEF SwapArgs, SwapArguments
    <3> HIDE DEF args, fees, agreed
    <3> QED
      BY <2>6, <2>9, <3>1 DEF RestOf
  <2>11. ASSUME NEW m \in Mints
         PROVE  /\ SwapBrings(c, ix, m) = Part(m, opp.mintSearcher, due)
                /\ SwapCosts(ix, m) = Part(m, opp.mintUser, answered)
    <3> HIDE DEF due, ix
    <3> QED
      BY <2>4, <2>6, <2>10 DEF SwapBrings, SwapCosts, fees, args
  <2> HIDE DEF due, rent, ix, fees
  <2>12. ASSUME NEW m \in Mints
         PROVE  Gain(c, d, opp.user, m)
                  >= Part(m, opp.mintSearcher, due) - Part(m, opp.mintUser, answered) - Part(m, Sol, rent)
    <3> DEFINE u == ix.user
               w0 == Worth(c, u, m)
               w1 == Worth(d, u, m)
               brings == SwapBrings(c, ix, m)
               costs == SwapCosts(ix, m)
               paid == Part(m, Sol, rent)
    <3>1. w1 >= w0 + brings - costs - paid /\ brings \in Nat /\ costs \in Nat /\ paid \in Nat
      BY <2>7 DEF Part
    <3>2. w0 \in Nat /\ w1 \in Nat
      <4>1. Fine(d) /\ u \in Wallets
        BY <2>1, <2>6, ExecuteFine DEF Outcome, Becomes, SwapInstructions
      <4> HIDE DEF u
      <4> QED
        BY <2>1, <4>1, WorthNat
    <3>3. Gain(c, d, opp.user, m) = w1 - w0
      BY <2>6 DEF Gain
    <3> HIDE DEF w0, w1, brings, costs, paid
    <3>4. w1 - w0 >= brings - costs - paid
      BY <3>1, <3>2
    <3> QED
      BY <2>11, <3>3, <3>4 DEF brings, costs, paid
  <2> HIDE DEF agreed
  <2> QED
    BY <2>2, <2>12 DEF Part, due, rent, answered, c, d, opp
<1>2. MarketInv /\ AnswerInv /\ [MarketNext]_vars =>
         ((Landing /\ IsSwap /\ AgreedTerms /\ SwapIx.searcher # SwapIx.user) => Body)
  BY <1>1
<1> QED
  BY <1>2, MarketInvariant, AnswerInvariant, PTL DEF MarketSpec, UserProtected
====
