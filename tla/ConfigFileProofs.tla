--------------------------- MODULE ConfigFileProofs ---------------------------
(***************************************************************************)
(* Whatever processes write the configuration file, in whatever order, and *)
(* whichever of them die: every copy of it that a process holds, and so    *)
(* the file, is consistent with the chain.  A copy is changed by one       *)
(* setter at a time, each of which keeps it consistent (the lemmas), and   *)
(* what the chain has recorded is never taken back (ChainGrows).  And      *)
(* while processes are at work one after the other, each holds the file as *)
(* it is (Alone), and no setter takes a name out of it (WritesExtend).     *)
(***************************************************************************)
EXTENDS ConfigFile, WellFoundedInduction, TLAPS

Places == 0 .. MaxAddress
VaultEntry == [symbol : Symbols, address : Places, config : Places, gateway : Places, posId : Places]
WorkerEntry == [name : WorkerNames, address : Places, strategy : Places]
CreditorEntry == [name : CreditorNames, address : Places]
File == [fields : [Fields \cup Symbols -> Places], workers : Seq(WorkerEntry), deltaVaults : Seq(VaultEntry),
         pools : Seq(PoolIds), creditors : Seq(CreditorEntry),
         controller : [address : Places, creditors : SUBSET Places]]

Listed(c) ==
  /\ \A i \in DOMAIN c.deltaVaults : c.deltaVaults[i].address # NoAddress => c.deltaVaults[i].config # NoAddress
  /\ \A i, j \in DOMAIN c.deltaVaults : c.deltaVaults[i].symbol = c.deltaVaults[j].symbol => i = j
  /\ \A i, j \in DOMAIN c.workers : c.workers[i].name = c.workers[j].name => i = j
  /\ \A i, j \in DOMAIN c.pools : c.pools[i] = c.pools[j] => i = j
OneVault(v, pos, gws) ==
  /\ v.posId # NoAddress => v.address # NoAddress /\ pos[v.address] = v.posId
  /\ v.gateway # NoAddress => <<v.gateway, v.address>> \in gws
Sent(c, sent) ==
  c.controller.creditors # {} =>
    /\ <<c.controller.address, c.controller.creditors>> \in sent
    /\ c.controller.creditors \subseteq {c.creditors[i].address : i \in DOMAIN c.creditors}
Sound(c, pos, gws, sent) ==
  /\ c \in File
  /\ Listed(c)
  /\ \A i \in DOMAIN c.deltaVaults : OneVault(c.deltaVaults[i], pos, gws)
  /\ Sent(c, sent)

\* A process between initPositions and the write still holds the entry of the vault it opened.
Opened(p) ==
  opened[p] # "none" =>
    \E i \in DOMAIN config[p].deltaVaults :
      config[p].deltaVaults[i].symbol = opened[p] /\ config[p].deltaVaults[i].address # NoAddress

FileInv ==
  /\ used \in 1 .. MaxAddress
  /\ posIds \in [Addresses -> Places]
  /\ config \in [Processes -> File] /\ opened \in [Processes -> Symbols \cup {"none"}]
  /\ Sound(file, posIds, gateways, credits)
  /\ \A p \in Processes : Sound(config[p], posIds, gateways, credits) /\ Opened(p)
  /\ \A p \in Processes : p \notin alive => opened[p] = "none"

----------------------------------------------------------------------------
(* What the helpers of the community modules return. *)

\* Min of a set of naturals is its least element.
LEMMA MinIsIn ==
  ASSUME NEW S \in SUBSET Nat, S # {}
  PROVE  Min(S) \in S /\ \A y \in S : Min(S) <= y
PROOF
<1> DEFINE R == OpToRel(<, Nat)
<1>1. IsWellFoundedOn(R, Nat) BY NatLessThanWellFounded
<1>2. PICK x \in S : \A y \in S : ~ (<<y, x>> \in R)
  <2> HIDE DEF R
  <2> QED BY <1>1, WFMin
<1>3. \A y \in S : <<y, x>> \in R <=> y < x BY DEF OpToRel
<1>4. \A y \in S : x <= y
  <2> SUFFICES ASSUME NEW y \in S PROVE x <= y OBVIOUS
  <2>1. ~ (y < x) BY <1>2, <1>3
  <2>2. x \in Nat /\ y \in Nat OBVIOUS
  <2> QED BY <2>1, <2>2
<1> QED BY <1>4 DEF Min

\* The search for a vault's entry by its symbol finds one, or there is none.
LEMMA VaultIsFound ==
  ASSUME NEW c \in File, NEW symbol
  PROVE  \/ IndexOf(c, symbol) = 0 /\ \A i \in DOMAIN c.deltaVaults : c.deltaVaults[i].symbol # symbol
         \/ IndexOf(c, symbol) \in DOMAIN c.deltaVaults /\ c.deltaVaults[IndexOf(c, symbol)].symbol = symbol
PROOF
<1> DEFINE I == {i \in 1 .. Len(c.deltaVaults) : c.deltaVaults[i].symbol = symbol}
<1>1. IndexOf(c, symbol) = IF I # {} THEN Min(I) ELSE 0 BY DEF IndexOf, SelectInSeq
<1>2. DOMAIN c.deltaVaults = 1 .. Len(c.deltaVaults) BY DEF File
<1>3. I \in SUBSET Nat BY DEF File
<1>4. I # {} => Min(I) \in I
  <2> HIDE DEF I
  <2> QED BY <1>3, MinIsIn
<1> QED BY <1>1, <1>2, <1>4

\* The same for the entry of a worker by its name.
LEMMA WorkerIsFound ==
  ASSUME NEW c \in File, NEW name
  PROVE  \/ WorkerOf(c, name) = 0 /\ \A k \in DOMAIN c.workers : c.workers[k].name # name
         \/ WorkerOf(c, name) \in DOMAIN c.workers /\ c.workers[WorkerOf(c, name)].name = name
PROOF
<1> DEFINE I == {k \in 1 .. Len(c.workers) : c.workers[k].name = name}
<1>1. WorkerOf(c, name) = IF I # {} THEN Min(I) ELSE 0 BY DEF WorkerOf, SelectInSeq
<1>2. DOMAIN c.workers = 1 .. Len(c.workers) BY DEF File
<1>3. I \in SUBSET Nat BY DEF File
<1>4. I # {} => Min(I) \in I
  <2> HIDE DEF I
  <2> QED BY <1>3, MinIsIn
<1> QED BY <1>1, <1>2, <1>4

\* A worker is found by the address of a listed one.
LEMMA WorkerAddressIsFound ==
  ASSUME NEW c \in File, NEW k \in DOMAIN c.workers
  PROVE  WorkerAt(c, c.workers[k].address) \in DOMAIN c.workers
PROOF
<1> DEFINE I == {j \in 1 .. Len(c.workers) : c.workers[j].address = c.workers[k].address}
<1>1. WorkerAt(c, c.workers[k].address) = IF I # {} THEN Min(I) ELSE 0 BY DEF WorkerAt, SelectInSeq
<1>2. DOMAIN c.workers = 1 .. Len(c.workers) BY DEF File
<1>3. I \in SUBSET Nat /\ k \in I BY <1>2 DEF File
<1>4. Min(I) \in I
  <2> HIDE DEF I
  <2> QED BY <1>3, MinIsIn
<1> QED BY <1>1, <1>2, <1>3, <1>4

\* And for a creditor of a name that is listed.
LEMMA CreditorIsFound ==
  ASSUME NEW c \in File, NEW k \in DOMAIN c.creditors
  PROVE  \E i \in DOMAIN c.creditors : convertCreditorNameToAddress(c, c.creditors[k].name) = c.creditors[i].address
PROOF
<1> DEFINE I == {j \in 1 .. Len(c.creditors) : c.creditors[j].name = c.creditors[k].name}
<1>1. convertCreditorNameToAddress(c, c.creditors[k].name) = c.creditors[IF I # {} THEN Min(I) ELSE 0].address
  BY DEF convertCreditorNameToAddress, SelectInSeq
<1>2. DOMAIN c.creditors = 1 .. Len(c.creditors) BY DEF File
<1>3. I \in SUBSET Nat /\ k \in I BY <1>2 DEF File
<1>4. Min(I) \in I
  <2> HIDE DEF I
  <2> QED BY <1>3, MinIsIn
<1>5. Min(I) \in DOMAIN c.creditors /\ I # {} BY <1>2, <1>3, <1>4
<1> HIDE DEF I
<1> QED BY <1>1, <1>5
----------------------------------------------------------------------------
(* Every setter keeps a copy sound. *)

LEMMA TokenKeepsSound ==
  ASSUME NEW c, NEW pos, NEW gws, NEW sent, Sound(c, pos, gws, sent),
         NEW key \in Fields \cup Symbols, NEW address \in Places
  PROVE  Sound(addOrSetToken(c, key, address), pos, gws, sent)
PROOF
<1> DEFINE d == addOrSetToken(c, key, address)
<1>1. d \in File BY DEF Sound, File, addOrSetToken
<1>2. /\ d.workers = c.workers /\ d.deltaVaults = c.deltaVaults /\ d.pools = c.pools
      /\ d.creditors = c.creditors /\ d.controller = c.controller
  BY DEF Sound, File, addOrSetToken
<1> HIDE DEF d
<1>3. Sound(d, pos, gws, sent) BY <1>1, <1>2 DEF Sound, Listed, Sent
<1> QED BY <1>3 DEF d

\* A list of vaults put in the place of another one.
LEMMA VaultsKeepSound ==
  ASSUME NEW c, NEW pos, NEW gws, NEW sent, Sound(c, pos, gws, sent),
         NEW s \in Seq(VaultEntry),
         \A i \in DOMAIN s : s[i].address # NoAddress => s[i].config # NoAddress,
         \A i, j \in DOMAIN s : s[i].symbol = s[j].symbol => i = j,
         \A i \in DOMAIN s : OneVault(s[i], pos, gws)
  PROVE  Sound([c EXCEPT !.deltaVaults = s], pos, gws, sent)
PROOF
<1> DEFINE d == [c EXCEPT !.deltaVaults = s]
<1>1. d \in File BY DEF Sound, File
<1>2. /\ d.workers = c.workers /\ d.deltaVaults = s /\ d.pools = c.pools
      /\ d.creditors = c.creditors /\ d.controller = c.controller
  BY DEF Sound, File
<1> HIDE DEF d
<1>3. Listed(d) BY <1>2 DEF Sound, Listed
<1>4. Sent(d, sent) BY <1>2 DEF Sound, Sent
<1>5. Sound(d, pos, gws, sent) BY <1>1, <1>2, <1>3, <1>4 DEF Sound
<1> QED BY <1>5 DEF d

\* The entry of one symbol is replaced, or added where there was none.
LEMMA EntryKeepsSound ==
  ASSUME NEW c, NEW pos, NEW gws, NEW sent, Sound(c, pos, gws, sent),
         NEW e \in VaultEntry, OneVault(e, pos, gws), e.address # NoAddress => e.config # NoAddress
  PROVE  LET i == IndexOf(c, e.symbol)
         IN Sound([c EXCEPT !.deltaVaults = IF i = 0 THEN Append(@, e) ELSE [@ EXCEPT ![i] = e]], pos, gws, sent)
PROOF
<1> DEFINE i == IndexOf(c, e.symbol)
           old == c.deltaVaults
           new == IF i = 0 THEN Append(old, e) ELSE [old EXCEPT ![i] = e]
<1>0. c \in File /\ old \in Seq(VaultEntry) BY DEF Sound, File
<1>1. \/ i = 0 /\ \A k \in DOMAIN old : old[k].symbol # e.symbol
      \/ i \in DOMAIN old /\ old[i].symbol = e.symbol
  BY <1>0, VaultIsFound
<1>2. /\ \A k \in DOMAIN old : old[k].address # NoAddress => old[k].config # NoAddress
      /\ \A k, j \in DOMAIN old : old[k].symbol = old[j].symbol => k = j
      /\ \A k \in DOMAIN old : OneVault(old[k], pos, gws)
  BY DEF Sound, Listed
<1> HIDE DEF i, old
<1>3. CASE i = 0 /\ \A k \in DOMAIN old : old[k].symbol # e.symbol
  <2>1. new = Append(old, e) /\ new \in Seq(VaultEntry) BY <1>0, <1>3
  <2>2. /\ DOMAIN new = DOMAIN old \cup {Len(old) + 1} /\ Len(old) + 1 \notin DOMAIN old
        /\ new[Len(old) + 1] = e /\ \A k \in DOMAIN old : new[k] = old[k]
    BY <1>0, <2>1
  <2> HIDE DEF new
  <2>3. \A k \in DOMAIN new : new[k].address # NoAddress => new[k].config # NoAddress BY <1>2, <2>2
  <2>4. \A k, j \in DOMAIN new : new[k].symbol = new[j].symbol => k = j BY <1>2, <1>3, <2>2
  <2>5. \A k \in DOMAIN new : OneVault(new[k], pos, gws) BY <1>2, <2>2
  <2>6. Sound([c EXCEPT !.deltaVaults = new], pos, gws, sent) BY <2>1, <2>3, <2>4, <2>5, VaultsKeepSound
  <2> QED BY <2>6 DEF new, i, old
<1>4. CASE i \in DOMAIN old /\ old[i].symbol = e.symbol
  <2>1. i # 0 BY <1>0, <1>4
  <2>2. new = [old EXCEPT ![i] = e] /\ new \in Seq(VaultEntry) BY <1>0, <1>4, <2>1
  <2>3. /\ DOMAIN new = DOMAIN old
        /\ new[i] = e /\ \A k \in DOMAIN old : k # i => new[k] = old[k]
    BY <1>0, <1>4, <2>2
  <2> HIDE DEF new
  <2>4. \A k \in DOMAIN new : new[k].address # NoAddress => new[k].config # NoAddress BY <1>2, <2>3
  <2>5. \A k, j \in DOMAIN new : new[k].symbol = new[j].symbol => k = j BY <1>2, <1>4, <2>3
  <2>6. \A k \in DOMAIN new : OneVault(new[k], pos, gws) BY <1>2, <2>3
  <2>7. Sound([c EXCEPT !.deltaVaults = new], pos, gws, sent) BY <2>2, <2>4, <2>5, <2>6, VaultsKeepSound
  <2> QED BY <2>7 DEF new, i, old
<1> QED BY <1>1, <1>3, <1>4

\* The controller is replaced by one whose creditors, if any, were sent to it.
LEMMA ControllerKeepsSound ==
  ASSUME NEW c, NEW pos, NEW gws, NEW sent, Sound(c, pos, gws, sent),
         NEW k \in [address : Places, creditors : SUBSET Places],
         k.creditors # {} =>
           /\ <<k.address, k.creditors>> \in sent
           /\ k.creditors \subseteq {c.creditors[i].address : i \in DOMAIN c.creditors}
  PROVE  Sound([c EXCEPT !.controller = k], pos, gws, sent)
PROOF
<1> DEFINE d == [c EXCEPT !.controller = k]
<1>1. d \in File BY DEF Sound, File
<1>2. /\ d.workers = c.workers /\ d.deltaVaults = c.deltaVaults /\ d.pools = c.pools
      /\ d.creditors = c.creditors /\ d.controller = k
  BY DEF Sound, File
<1> HIDE DEF d
<1>3. Sound(d, pos, gws, sent) BY <1>1, <1>2 DEF Sound, Listed, Sent
<1> QED BY <1>3 DEF d

\* A list of workers put in the place of another one.
LEMMA WorkersKeepSound ==
  ASSUME NEW c, NEW pos, NEW gws, NEW sent, Sound(c, pos, gws, sent),
         NEW s \in Seq(WorkerEntry), \A i, j \in DOMAIN s : s[i].name = s[j].name => i = j
  PROVE  Sound([c EXCEPT !.workers = s], pos, gws, sent)
PROOF
<1> DEFINE d == [c EXCEPT !.workers = s]
<1>1. d \in File BY DEF Sound, File
<1>2. /\ d.workers = s /\ d.deltaVaults = c.deltaVaults /\ d.pools = c.pools
      /\ d.creditors = c.creditors /\ d.controller = c.controller
  BY DEF Sound, File
<1> HIDE DEF d
<1>3. Sound(d, pos, gws, sent) BY <1>1, <1>2 DEF Sound, Listed, Sent
<1> QED BY <1>3 DEF d

\* The entry of one worker is replaced, or added where there was none of that name.
LEMMA WorkerKeepsSound ==
  ASSUME NEW c, NEW pos, NEW gws, NEW sent, Sound(c, pos, gws, sent), NEW e \in WorkerEntry
  PROVE  Sound(addOrSetVaultWorker(c, e), pos, gws, sent)
PROOF
<1> DEFINE i == WorkerOf(c, e.name)
           old == c.workers
           new == IF i = 0 THEN Append(old, e) ELSE [old EXCEPT ![i] = e]
<1>0. c \in File /\ old \in Seq(WorkerEntry) BY DEF Sound, File
<1>1. \/ i = 0 /\ \A k \in DOMAIN old : old[k].name # e.name
      \/ i \in DOMAIN old /\ old[i].name = e.name
  BY <1>0, WorkerIsFound
<1>2. \A k, j \in DOMAIN old : old[k].name = old[j].name => k = j BY DEF Sound, Listed
<1>9. addOrSetVaultWorker(c, e) = [c EXCEPT !.workers = new] BY <1>0 DEF addOrSetVaultWorker, File
<1> HIDE DEF i, old
<1>3. CASE i = 0 /\ \A k \in DOMAIN old : old[k].name # e.name
  <2>1. new = Append(old, e) /\ new \in Seq(WorkerEntry) BY <1>0, <1>3
  <2>2. /\ DOMAIN new = DOMAIN old \cup {Len(old) + 1} /\ Len(old) + 1 \notin DOMAIN old
        /\ new[Len(old) + 1] = e /\ \A k \in DOMAIN old : new[k] = old[k]
    BY <1>0, <2>1
  <2> HIDE DEF new
  <2>3. \A k, j \in DOMAIN new : new[k].name = new[j].name => k = j BY <1>2, <1>3, <2>2
  <2>4. Sound([c EXCEPT !.workers = new], pos, gws, sent) BY <2>1, <2>3, WorkersKeepSound
  <2> QED BY <1>9, <2>4
<1>4. CASE i \in DOMAIN old /\ old[i].name = e.name
  <2>1. i # 0 BY <1>0, <1>4
  <2>2. new = [old EXCEPT ![i] = e] /\ new \in Seq(WorkerEntry) BY <1>0, <1>4, <2>1
  <2>3. /\ DOMAIN new = DOMAIN old
        /\ new[i] = e /\ \A k \in DOMAIN old : k # i => new[k] = old[k]
    BY <1>0, <1>4, <2>2
  <2> HIDE DEF new
  <2>4. \A k, j \in DOMAIN new : new[k].name = new[j].name => k = j BY <1>2, <1>4, <2>3
  <2>5. Sound([c EXCEPT !.workers = new], pos, gws, sent) BY <2>2, <2>4, WorkersKeepSound
  <2> QED BY <1>9, <2>5
<1> QED BY <1>1, <1>3, <1>4

\* A strategy is entered for a listed worker: the names stay as they are.
LEMMA StrategyKeepsSound ==
  ASSUME NEW c, NEW pos, NEW gws, NEW sent, Sound(c, pos, gws, sent),
         NEW k \in DOMAIN c.workers, NEW strategy \in Places
  PROVE  Sound(addOrSetWorkerStrategy(c, c.workers[k].address, strategy), pos, gws, sent)
PROOF
<1> DEFINE i == WorkerAt(c, c.workers[k].address)
           old == c.workers
           new == [old EXCEPT ![i] = [@ EXCEPT !.strategy = strategy]]
<1>0. c \in File /\ old \in Seq(WorkerEntry) BY DEF Sound, File
<1>1. i \in DOMAIN old BY <1>0, WorkerAddressIsFound
<1>2. \A m, j \in DOMAIN old : old[m].name = old[j].name => m = j BY DEF Sound, Listed
<1>3. addOrSetWorkerStrategy(c, c.workers[k].address, strategy) = [c EXCEPT !.workers = new]
  BY <1>0 DEF addOrSetWorkerStrategy, File
<1> HIDE DEF i, old
<1>4. old[i] \in WorkerEntry BY <1>0, <1>1
<1>5. /\ [old[i] EXCEPT !.strategy = strategy] \in WorkerEntry
      /\ [old[i] EXCEPT !.strategy = strategy].name = old[i].name
  BY <1>4 DEF WorkerEntry
<1>6. new \in Seq(WorkerEntry) BY <1>0, <1>1, <1>5
<1>7. DOMAIN new = DOMAIN old /\ \A m \in DOMAIN old : new[m].name = old[m].name BY <1>0, <1>1, <1>5
<1> HIDE DEF new
<1>8. \A m, j \in DOMAIN new : new[m].name = new[j].name => m = j BY <1>2, <1>7
<1> QED BY <1>3, <1>6, <1>8, WorkersKeepSound

\* A pool that is not listed is appended.
LEMMA PoolKeepsSound ==
  ASSUME NEW c, NEW pos, NEW gws, NEW sent, Sound(c, pos, gws, sent),
         NEW pid \in PoolIds, \A i \in DOMAIN c.pools : c.pools[i] # pid
  PROVE  Sound(addOrSetYielPool(c, pid), pos, gws, sent)
PROOF
<1> DEFINE d == addOrSetYielPool(c, pid)
<1>0. c \in File /\ c.pools \in Seq(PoolIds) /\ Append(c.pools, pid) \in Seq(PoolIds) BY DEF Sound, File
<1>1. d \in File BY <1>0 DEF File, addOrSetYielPool
<1>2. /\ d.workers = c.workers /\ d.deltaVaults = c.deltaVaults /\ d.pools = Append(c.pools, pid)
      /\ d.creditors = c.creditors /\ d.controller = c.controller
  BY DEF Sound, File, addOrSetYielPool
<1> HIDE DEF d
<1>3. /\ DOMAIN d.pools = DOMAIN c.pools \cup {Len(c.pools) + 1}
      /\ d.pools[Len(c.pools) + 1] = pid /\ \A k \in DOMAIN c.pools : d.pools[k] = c.pools[k]
  BY <1>0, <1>2
<1>4. \A k, j \in DOMAIN d.pools : d.pools[k] = d.pools[j] => k = j BY <1>3 DEF Sound, Listed
<1>5. Listed(d) BY <1>2, <1>4 DEF Sound, Listed
<1>6. Sent(d, sent) BY <1>2 DEF Sound, Sent
<1>7. Sound(d, pos, gws, sent) BY <1>1, <1>2, <1>5, <1>6 DEF Sound
<1> QED BY <1>7 DEF d

\* A creditor is appended; those sent before stay listed.
LEMMA CreditorKeepsSound ==
  ASSUME NEW c, NEW pos, NEW gws, NEW sent, Sound(c, pos, gws, sent), NEW e \in CreditorEntry
  PROVE  Sound(addOrSetCreditors(c, e), pos, gws, sent)
PROOF
<1> DEFINE d == addOrSetCreditors(c, e)
<1>0. c \in File /\ c.creditors \in Seq(CreditorEntry) /\ Append(c.creditors, e) \in Seq(CreditorEntry)
  BY DEF Sound, File
<1>1. d \in File BY <1>0 DEF File, addOrSetCreditors
<1>2. /\ d.workers = c.workers /\ d.deltaVaults = c.deltaVaults /\ d.pools = c.pools
      /\ d.creditors = Append(c.creditors, e) /\ d.controller = c.controller
  BY DEF Sound, File, addOrSetCreditors
<1> HIDE DEF d
<1>3. /\ DOMAIN c.creditors \subseteq DOMAIN d.creditors
      /\ \A k \in DOMAIN c.creditors : d.creditors[k] = c.creditors[k]
  BY <1>0, <1>2
<1>4. {c.creditors[i].address : i \in DOMAIN c.creditors} \subseteq {d.creditors[i].address : i \in DOMAIN d.creditors}
  BY <1>3
<1>5. Sent(d, sent) BY <1>2, <1>4 DEF Sound, Sent
<1>6. Sound(d, pos, gws, sent) BY <1>1, <1>2, <1>5 DEF Sound, Listed
<1> QED BY <1>6 DEF d

\* What is recorded on the chain stays recorded.
LEMMA ChainGrows ==
  ASSUME NEW c, NEW pos, NEW gws, NEW sent, Sound(c, pos, gws, sent),
         NEW pos2, NEW gws2, NEW sent2, gws \subseteq gws2, sent \subseteq sent2,
         \A a \in Addresses : pos[a] # NoAddress => pos2[a] = pos[a]
  PROVE  Sound(c, pos2, gws2, sent2)
PROOF
<1>1. \A i \in DOMAIN c.deltaVaults : OneVault(c.deltaVaults[i], pos2, gws2)
  <2> SUFFICES ASSUME NEW i \in DOMAIN c.deltaVaults PROVE OneVault(c.deltaVaults[i], pos2, gws2) OBVIOUS
  <2> DEFINE v == c.deltaVaults[i]
  <2>1. v \in VaultEntry /\ OneVault(v, pos, gws) BY DEF Sound, File
  <2> HIDE DEF v
  <2>2. v.address # NoAddress => v.address \in Addresses
    BY <2>1 DEF VaultEntry, Places, Addresses, NoAddress
  <2>3. OneVault(v, pos2, gws2) BY <2>1, <2>2 DEF OneVault
  <2> QED BY <2>3 DEF v
<1> QED BY <1>1 DEF Sound, Sent
\* The entry of a listed vault, changed in another field than its symbol.
LEMMA ListedEntryKeepsSound ==
  ASSUME NEW c, NEW pos, NEW gws, NEW sent, Sound(c, pos, gws, sent),
         NEW i, i = IndexOf(c, c.deltaVaults[i].symbol), i \in DOMAIN c.deltaVaults,
         NEW e \in VaultEntry, e.symbol = c.deltaVaults[i].symbol,
         OneVault(e, pos, gws), e.address # NoAddress => e.config # NoAddress
  PROVE  Sound([c EXCEPT !.deltaVaults = [@ EXCEPT ![i] = e]], pos, gws, sent)
PROOF
<1>1. i # 0 BY DEF Sound, File
<1>2. i = IndexOf(c, e.symbol) OBVIOUS
<1> QED BY <1>1, <1>2, EntryKeepsSound

\* A symbol is listed once: the search finds the very entry.
LEMMA FoundOnce ==
  ASSUME NEW c \in File, Listed(c), NEW i \in DOMAIN c.deltaVaults
  PROVE  IndexOf(c, c.deltaVaults[i].symbol) = i
PROOF
<1> QED BY VaultIsFound DEF Listed

\* The configuration contract of a vault is entered, before or after the vault itself.
LEMMA VaultsConfigKeepsSound ==
  ASSUME NEW c, NEW pos, NEW gws, NEW sent, Sound(c, pos, gws, sent),
         NEW s \in Symbols, NEW value \in Places, value # NoAddress
  PROVE  Sound(addOrSetDeltaNeutralVaultsConfig(c, s, value), pos, gws, sent)
PROOF
<1> DEFINE i == IndexOf(c, s)
           fresh == [defaultDeltaNeutralVaultsEntity(s) EXCEPT !.config = value]
<1>0. c \in File /\ c.deltaVaults \in Seq(VaultEntry) BY DEF Sound, File
<1>1. \/ i = 0
      \/ i \in DOMAIN c.deltaVaults /\ c.deltaVaults[i].symbol = s
  BY <1>0, VaultIsFound
<1>2. CASE i = 0
  <2>1. /\ fresh = [symbol |-> s, address |-> NoAddress, config |-> value, gateway |-> NoAddress, posId |-> NoAddress]
        /\ fresh \in VaultEntry
    BY ConfigFileAssumption DEF defaultDeltaNeutralVaultsEntity, VaultEntry, Places, NoAddress
  <2>2. OneVault(fresh, pos, gws) /\ fresh.symbol = s /\ fresh.address = NoAddress BY <2>1 DEF OneVault
  <2> HIDE DEF fresh
  <2>3. Sound([c EXCEPT !.deltaVaults = Append(@, fresh)], pos, gws, sent)
    BY <1>2, <2>1, <2>2, EntryKeepsSound
  <2> QED BY <1>2, <2>3 DEF addOrSetDeltaNeutralVaultsConfig, fresh
<1>3. CASE i \in DOMAIN c.deltaVaults /\ c.deltaVaults[i].symbol = s
  <2> DEFINE v == c.deltaVaults[i]
             e == [v EXCEPT !.config = value]
  <2>1. v \in VaultEntry /\ OneVault(v, pos, gws) BY <1>3, <1>0 DEF Sound
  <2>2. /\ e \in VaultEntry /\ e.symbol = s /\ e.config = value
        /\ e.address = v.address /\ e.gateway = v.gateway /\ e.posId = v.posId
    BY <1>3, <2>1 DEF VaultEntry
  <2>3. OneVault(e, pos, gws) BY <2>1, <2>2 DEF OneVault
  <2>4. i # 0 BY <1>0, <1>3
  <2>5. addOrSetDeltaNeutralVaultsConfig(c, s, value) = [c EXCEPT !.deltaVaults = [@ EXCEPT ![i] = e]]
    BY <1>0, <2>4 DEF addOrSetDeltaNeutralVaultsConfig, File
  <2>6. i = IndexOf(c, v.symbol) BY <1>3
  <2> HIDE DEF e, i
  <2>7. Sound([c EXCEPT !.deltaVaults = [@ EXCEPT ![i] = e]], pos, gws, sent)
    BY <1>3, <2>2, <2>3, <2>6, ListedEntryKeepsSound
  <2> QED BY <2>5, <2>7
<1> QED BY <1>1, <1>2, <1>3

\* A deployed vault: its entry starts without gateway and positions.
LEMMA VaultKeepsSound ==
  ASSUME NEW c, NEW pos, NEW gws, NEW sent, Sound(c, pos, gws, sent),
         NEW s \in Symbols, NEW address \in Places, NEW value \in Places, value # NoAddress
  PROVE  Sound(addOrSetDeltaNeutralVaults(c, s, [defaultDeltaNeutralVaultsEntity(s) EXCEPT !.address = address, !.config = value]),
               pos, gws, sent)
PROOF
<1> DEFINE e == [defaultDeltaNeutralVaultsEntity(s) EXCEPT !.address = address, !.config = value]
<1>0. NoAddress \in Places BY ConfigFileAssumption DEF NoAddress, Places
<1> DEFINE v == defaultDeltaNeutralVaultsEntity(s)
<1>1. v \in VaultEntry /\ v.symbol = s /\ v.gateway = NoAddress /\ v.posId = NoAddress
  BY <1>0 DEF defaultDeltaNeutralVaultsEntity, VaultEntry
<1> HIDE DEF v
<1> DEFINE w == [v EXCEPT !.address = address]
<1>2. w \in VaultEntry /\ w.symbol = s /\ w.gateway = NoAddress /\ w.posId = NoAddress
  BY <1>1 DEF VaultEntry
<1>3. e = [w EXCEPT !.config = value] BY DEF v
<1> HIDE DEF w, e
<1>4. e \in VaultEntry /\ e.symbol = s /\ e.config = value /\ e.gateway = NoAddress /\ e.posId = NoAddress
  BY <1>2, <1>3 DEF VaultEntry
<1>5. OneVault(e, pos, gws) BY <1>4 DEF OneVault
<1>6. Sound(addOrSetDeltaNeutralVaults(c, s, e), pos, gws, sent)
  BY <1>5, <1>4, EntryKeepsSound DEF addOrSetDeltaNeutralVaults
<1> QED BY <1>6 DEF e, v

\* The gateway of the vault the entry names.
LEMMA GatewayKeepsSound ==
  ASSUME NEW c, NEW pos, NEW gws, NEW sent, Sound(c, pos, gws, sent),
         NEW i \in DOMAIN c.deltaVaults, NEW value \in Places, <<value, c.deltaVaults[i].address>> \in gws
  PROVE  Sound(setDeltaNeutralGateway(c, c.deltaVaults[i].symbol, value), pos, gws, sent)
PROOF
<1> DEFINE v == c.deltaVaults[i]
           e == [v EXCEPT !.gateway = value]
<1>0. c \in File /\ c.deltaVaults \in Seq(VaultEntry) /\ Listed(c) BY DEF Sound, File
<1>1. v \in VaultEntry /\ OneVault(v, pos, gws) /\ (v.address # NoAddress => v.config # NoAddress)
  BY <1>0 DEF Sound, Listed
<1>2. /\ e \in VaultEntry /\ e.symbol = v.symbol /\ e.gateway = value
      /\ e.address = v.address /\ e.config = v.config /\ e.posId = v.posId
  BY <1>1 DEF VaultEntry
<1>3. OneVault(e, pos, gws) BY <1>1, <1>2 DEF OneVault
<1>4. IndexOf(c, v.symbol) = i BY <1>0, FoundOnce
<1>5. setDeltaNeutralGateway(c, v.symbol, value) = [c EXCEPT !.deltaVaults = [@ EXCEPT ![i] = e]]
  BY <1>0, <1>4 DEF setDeltaNeutralGateway, File
<1> HIDE DEF e
<1>6. Sound([c EXCEPT !.deltaVaults = [@ EXCEPT ![i] = e]], pos, gws, sent)
  BY <1>1, <1>2, <1>3, <1>4, ListedEntryKeepsSound
<1> QED BY <1>5, <1>6

\* The positions of the vault the entry names.
LEMMA PositionsKeepSound ==
  ASSUME NEW c, NEW pos, NEW gws, NEW sent, Sound(c, pos, gws, sent),
         NEW i \in DOMAIN c.deltaVaults, c.deltaVaults[i].address # NoAddress, pos[c.deltaVaults[i].address] \in Places
  PROVE  Sound(setDeltaNeutralVaultsInitPositionIds(c, c.deltaVaults[i].symbol, pos[c.deltaVaults[i].address]), pos, gws, sent)
PROOF
<1> DEFINE v == c.deltaVaults[i]
           e == [v EXCEPT !.posId = pos[v.address]]
<1>0. c \in File /\ c.deltaVaults \in Seq(VaultEntry) /\ Listed(c) BY DEF Sound, File
<1>1. v \in VaultEntry /\ OneVault(v, pos, gws) /\ v.config # NoAddress
  BY <1>0 DEF Sound, Listed
<1>2. /\ e \in VaultEntry /\ e.symbol = v.symbol /\ e.posId = pos[v.address]
      /\ e.address = v.address /\ e.config = v.config /\ e.gateway = v.gateway
  BY <1>1 DEF VaultEntry
<1>3. OneVault(e, pos, gws) BY <1>1, <1>2 DEF OneVault
<1>4. IndexOf(c, v.symbol) = i BY <1>0, FoundOnce
<1>5. setDeltaNeutralVaultsInitPositionIds(c, v.symbol, pos[v.address]) = [c EXCEPT !.deltaVaults = [@ EXCEPT ![i] = e]]
  BY <1>0, <1>4 DEF setDeltaNeutralVaultsInitPositionIds, File
<1> HIDE DEF e
<1>6. Sound([c EXCEPT !.deltaVaults = [@ EXCEPT ![i] = e]], pos, gws, sent)
  BY <1>1, <1>2, <1>3, <1>4, ListedEntryKeepsSound
<1> QED BY <1>5, <1>6
----------------------------------------------------------------------------
(* The steps. *)

\* A process writes a sound copy, and has no positions left to save.
LEMMA WriteKeepsInv ==
  ASSUME FileInv, NEW p \in Processes, NEW d, writeConfigFile(p, d),
         alive' = alive, opened' = [opened EXCEPT ![p] = "none"], used' \in 1 .. MaxAddress,
         posIds' = posIds, gateways \subseteq gateways', credits \subseteq credits',
         Sound(d, posIds', gateways', credits')
  PROVE  FileInv'
PROOF
<1>1. config' = [config EXCEPT ![p] = d] /\ file' = d BY DEF writeConfigFile
<1>2. d \in File BY DEF Sound
<1>3. posIds' \in [Addresses -> Places] /\ opened' \in [Processes -> Symbols \cup {"none"}]
      /\ config' \in [Processes -> File]
  BY <1>1, <1>2 DEF FileInv
<1>4. Sound(file', posIds', gateways', credits') BY <1>1
<1>5. ASSUME NEW q \in Processes
      PROVE  Sound(config'[q], posIds', gateways', credits') /\ Opened(q)'
  <2>1. CASE q = p
    <3>1. config'[q] = d /\ opened'[q] = "none" BY <1>1, <2>1 DEF FileInv
    <3> QED BY <3>1 DEF Opened
  <2>2. CASE q # p
    <3>1. config'[q] = config[q] /\ opened'[q] = opened[q] BY <1>1, <2>2 DEF FileInv
    <3>2. Sound(config[q], posIds, gateways, credits) BY DEF FileInv
    <3>3. Sound(config[q], posIds', gateways', credits') BY <3>2, ChainGrows
    <3> QED BY <3>1, <3>3 DEF Opened, FileInv
  <2> QED BY <2>1, <2>2
<1>6. \A q \in Processes : q \notin alive' => opened'[q] = "none" BY DEF FileInv
<1> QED BY <1>3, <1>4, <1>5, <1>6 DEF FileInv

\* A process that is idle writes a sound copy.
LEMMA IdleWriteKeepsInv ==
  ASSUME FileInv, NEW p \in Processes, Idle(p), NEW d, Write(p, d),
         used' \in 1 .. MaxAddress,
         posIds' = posIds, gateways \subseteq gateways', credits \subseteq credits',
         Sound(d, posIds', gateways', credits')
  PROVE  FileInv'
PROOF
<1>1. opened' = [opened EXCEPT ![p] = "none"] BY DEF Write, Idle, FileInv
<1>2. alive' = alive /\ writeConfigFile(p, d) BY DEF Write
<1> QED BY <1>1, <1>2, WriteKeepsInv

\* A deployment takes a fresh address within the bound.
LEMMA DeployedIsBounded ==
  ASSUME FileInv, Deployed
  PROVE  used' \in 1 .. MaxAddress /\ Address \in Places /\ Address # NoAddress /\ Address \in Addresses
PROOF
<1> QED BY ConfigFileAssumption DEF FileInv, Deployed, Address, Places, Addresses, NoAddress

\* The network starts with a file that names older contracts at most.
LEMMA FileInvHolds == Init => FileInv
PROOF
<1> SUFFICES ASSUME Init PROVE FileInv OBVIOUS
<1>1. NoFile \in File BY ConfigFileAssumption DEF NoFile, File, Places, NoAddress
<1>2. NoFile.deltaVaults = <<>> /\ NoFile.workers = <<>> /\ NoFile.pools = <<>> /\ NoFile.controller.creditors = {}
  BY DEF NoFile
<1>3. Sound(NoFile, posIds, gateways, credits) BY <1>1, <1>2 DEF Sound, Listed, Sent
<1>4. PICK present \in SUBSET Existing :
        file = [NoFile EXCEPT !.fields = [k \in DOMAIN @ |-> IF k \in present THEN Older ELSE NoAddress]]
  BY DEF Init
<1>5. file \in File
  <2> DEFINE fields == [k \in DOMAIN NoFile.fields |-> IF k \in present THEN Older ELSE NoAddress]
  <2>1. DOMAIN NoFile.fields = Fields \cup Symbols BY DEF NoFile
  <2>2. fields \in [Fields \cup Symbols -> Places] BY <2>1, ConfigFileAssumption DEF Places, NoAddress, Older
  <2>3. file = [NoFile EXCEPT !.fields = fields] BY <1>4
  <2> HIDE DEF fields
  <2> QED BY <1>1, <2>2, <2>3 DEF File
<1>6. /\ file.deltaVaults = <<>> /\ file.workers = <<>> /\ file.pools = <<>> /\ file.controller.creditors = {}
  BY <1>4 DEF NoFile
<1>7. Sound(file, posIds, gateways, credits) BY <1>5, <1>6 DEF Sound, Listed, Sent
<1>8. used \in 1 .. MaxAddress /\ posIds \in [Addresses -> Places] /\ config \in [Processes -> File]
      /\ opened \in [Processes -> Symbols \cup {"none"}] /\ \A p \in Processes : opened[p] = "none"
  BY <1>1, ConfigFileAssumption DEF Init, Older, NoAddress, Places, Addresses
<1>9. \A p \in Processes : config[p] = NoFile BY DEF Init
<1> QED BY <1>3, <1>7, <1>8, <1>9 DEF FileInv, Opened

\* Every step of every process keeps the invariant.
LEMMA FileInvIsKept == FileInv /\ [Next]_vars => FileInv'
PROOF
<1> SUFFICES ASSUME FileInv, [Next]_vars PROVE FileInv' OBVIOUS
<1>1. ASSUME NEW p \in Processes, Start(p) PROVE FileInv'
  <2>1. /\ file' = file /\ used' = used /\ posIds' = posIds /\ gateways' = gateways /\ credits' = credits
        /\ opened' = opened /\ opened[p] = "none" /\ alive' = alive \cup {p} /\ config' = [config EXCEPT ![p] = file]
    BY <1>1 DEF Start, chain, FileInv
  <2>2. config' \in [Processes -> File] BY <2>1 DEF FileInv, Sound
  <2>3. ASSUME NEW q \in Processes PROVE Sound(config'[q], posIds', gateways', credits') /\ Opened(q)'
    <3>1. CASE q = p BY <2>1, <3>1 DEF FileInv, Opened
    <3>2. CASE q # p BY <2>1, <3>2 DEF FileInv, Opened
    <3> QED BY <3>1, <3>2
  <2> QED BY <2>1, <2>2, <2>3 DEF FileInv
<1>2. ASSUME NEW p \in Processes, End(p) PROVE FileInv'
  <2>1. /\ file' = file /\ used' = used /\ posIds' = posIds /\ gateways' = gateways /\ credits' = credits
        /\ opened' = [opened EXCEPT ![p] = "none"] /\ alive' = alive \ {p} /\ config' = [config EXCEPT ![p] = NoFile]
    BY <1>2 DEF End, chain
  <2>2. NoFile \in File BY ConfigFileAssumption DEF NoFile, File, Places, NoAddress
  <2>3. NoFile.deltaVaults = <<>> /\ NoFile.workers = <<>> /\ NoFile.pools = <<>> /\ NoFile.controller.creditors = {}
    BY DEF NoFile
  <2>4. Sound(NoFile, posIds, gateways, credits) BY <2>2, <2>3 DEF Sound, Listed, Sent
  <2>5. config' \in [Processes -> File] /\ opened' \in [Processes -> Symbols \cup {"none"}]
    BY <2>1, <2>2 DEF FileInv
  <2>6. ASSUME NEW q \in Processes PROVE Sound(config'[q], posIds', gateways', credits') /\ Opened(q)'
    <3>1. CASE q = p BY <2>1, <2>4, <3>1 DEF FileInv, Opened
    <3>2. CASE q # p BY <2>1, <3>2 DEF FileInv, Opened
    <3> QED BY <3>1, <3>2
  <2>7. \A q \in Processes : q \notin alive' => opened'[q] = "none" BY <2>1 DEF FileInv
  <2> QED BY <2>1, <2>5, <2>6, <2>7 DEF FileInv
<1>3. ASSUME NEW p \in Processes, SetField(p) PROVE FileInv'
  <2>1. Idle(p) /\ Deployed /\ posIds' = posIds /\ gateways' = gateways /\ credits' = credits BY <1>3 DEF SetField, chain
  <2>2. PICK key \in Fields : Write(p, addOrSetToken(config[p], key, Address)) BY <1>3 DEF SetField
  <2>3. Sound(addOrSetToken(config[p], key, Address), posIds, gateways, credits)
    BY <2>1, DeployedIsBounded, TokenKeepsSound DEF FileInv
  <2> QED BY <2>1, <2>2, <2>3, DeployedIsBounded, IdleWriteKeepsInv
<1>4. ASSUME NEW p \in Processes, DeployWorker(p) PROVE FileInv'
  <2>1. Idle(p) /\ Deployed /\ posIds' = posIds /\ gateways' = gateways /\ credits' = credits BY <1>4 DEF DeployWorker, chain
  <2>2. PICK name \in WorkerNames :
          Write(p, addOrSetVaultWorker(config[p], [name |-> name, address |-> Address, strategy |-> NoAddress]))
    BY <1>4 DEF DeployWorker
  <2>3. [name |-> name, address |-> Address, strategy |-> NoAddress] \in WorkerEntry
    BY <2>1, DeployedIsBounded, ConfigFileAssumption DEF WorkerEntry, Places, NoAddress
  <2>4. Sound(addOrSetVaultWorker(config[p], [name |-> name, address |-> Address, strategy |-> NoAddress]),
              posIds, gateways, credits)
    BY <2>3, WorkerKeepsSound DEF FileInv
  <2> QED BY <2>1, <2>2, <2>4, DeployedIsBounded, IdleWriteKeepsInv
<1>5. ASSUME NEW p \in Processes, SetWorkerStrategy(p) PROVE FileInv'
  <2>1. Idle(p) /\ Deployed /\ posIds' = posIds /\ gateways' = gateways /\ credits' = credits
    BY <1>5 DEF SetWorkerStrategy, chain
  <2>2. PICK i \in DOMAIN config[p].workers :
          Write(p, addOrSetWorkerStrategy(config[p], config[p].workers[i].address, Address))
    BY <1>5 DEF SetWorkerStrategy
  <2>3. Sound(addOrSetWorkerStrategy(config[p], config[p].workers[i].address, Address), posIds, gateways, credits)
    BY <2>1, DeployedIsBounded, StrategyKeepsSound DEF FileInv
  <2> QED BY <2>1, <2>2, <2>3, DeployedIsBounded, IdleWriteKeepsInv
<1>6. ASSUME NEW p \in Processes, DeployDeltaNeutralVaultConfig(p) PROVE FileInv'
  <2>1. Idle(p) /\ Deployed /\ posIds' = posIds /\ gateways' = gateways /\ credits' = credits
    BY <1>6 DEF DeployDeltaNeutralVaultConfig, chain
  <2>2. PICK s \in Symbols : Write(p, addOrSetDeltaNeutralVaultsConfig(config[p], s, Address))
    BY <1>6 DEF DeployDeltaNeutralVaultConfig
  <2>3. Sound(addOrSetDeltaNeutralVaultsConfig(config[p], s, Address), posIds, gateways, credits)
    BY <2>1, DeployedIsBounded, VaultsConfigKeepsSound DEF FileInv
  <2> QED BY <2>1, <2>2, <2>3, DeployedIsBounded, IdleWriteKeepsInv
<1>7. ASSUME NEW p \in Processes, DeployDeltaNeutralVault(p) PROVE FileInv'
  <2>1. Idle(p) /\ Deployed /\ posIds' = posIds /\ gateways' = gateways /\ credits' = credits
    BY <1>7 DEF DeployDeltaNeutralVault, chain
  <2> DEFINE e(s, value) == [defaultDeltaNeutralVaultsEntity(s) EXCEPT !.address = Address, !.config = value]
             listed(s) == IF IndexOf(config[p], s) = 0 THEN NoAddress ELSE config[p].deltaVaults[IndexOf(config[p], s)].config
  <2>2. PICK s \in Symbols, given \in {NoAddress, Older} :
          LET entry == e(s, IF given = NoAddress THEN listed(s) ELSE given)
          IN /\ entry.config # NoAddress
             /\ Write(p, addOrSetToken(addOrSetDeltaNeutralVaults(config[p], s, entry), s, Address))
    BY <1>7 DEF DeployDeltaNeutralVault
  <2> DEFINE value == IF given = NoAddress THEN listed(s) ELSE given
  <2>3. value \in Places
    <3>1. config[p] \in File BY DEF FileInv
    <3> DEFINE i == IndexOf(config[p], s)
    <3>2. i = 0 \/ i \in DOMAIN config[p].deltaVaults BY <3>1, VaultIsFound
    <3>3. 0 \in Places /\ Older \in Places BY ConfigFileAssumption DEF Older, Places
    <3>4. i \in DOMAIN config[p].deltaVaults => config[p].deltaVaults[i].config \in Places
      <4>1. config[p].deltaVaults \in Seq(VaultEntry) BY <3>1 DEF File
      <4> HIDE DEF i
      <4>2. i \in DOMAIN config[p].deltaVaults => config[p].deltaVaults[i] \in VaultEntry BY <4>1
      <4>3. \A v \in VaultEntry : v.config \in Places BY DEF VaultEntry
      <4> QED BY <4>2, <4>3
    <3> HIDE DEF i
    <3>5. (IF i = 0 THEN NoAddress ELSE config[p].deltaVaults[i].config) \in Places
      BY <3>2, <3>3, <3>4 DEF NoAddress
    <3> QED BY <3>3, <3>5 DEF i
  <2>4. e(s, value).config = value BY DEF defaultDeltaNeutralVaultsEntity
  <2> DEFINE c == addOrSetDeltaNeutralVaults(config[p], s, e(s, value))
  <2>5. value # NoAddress BY <2>2, <2>4
  <2>6. Sound(c, posIds, gateways, credits)
    <3> HIDE DEF value
    <3> QED BY <2>1, <2>3, <2>5, DeployedIsBounded, VaultKeepsSound DEF FileInv
  <2>7. Write(p, addOrSetToken(c, s, Address)) BY <2>2
  <2> HIDE DEF c
  <2>8. Sound(addOrSetToken(c, s, Address), posIds, gateways, credits)
    BY <2>1, <2>6, DeployedIsBounded, TokenKeepsSound
  <2> QED BY <2>1, <2>7, <2>8, DeployedIsBounded, IdleWriteKeepsInv
<1>8. ASSUME NEW p \in Processes, DeployGateway(p) PROVE FileInv'
  <2>1. Idle(p) /\ Deployed /\ posIds' = posIds /\ credits' = credits BY <1>8 DEF DeployGateway
  <2>2. PICK i \in DOMAIN config[p].deltaVaults :
          /\ gateways' = gateways \cup {<<Address, config[p].deltaVaults[i].address>>}
          /\ Write(p, setDeltaNeutralGateway(config[p], config[p].deltaVaults[i].symbol, Address))
    BY <1>8 DEF DeployGateway
  <2>3. Sound(config[p], posIds, gateways', credits)
    <3>1. Sound(config[p], posIds, gateways, credits) BY DEF FileInv
    <3> QED BY <2>2, <3>1, ChainGrows
  <2>4. Sound(setDeltaNeutralGateway(config[p], config[p].deltaVaults[i].symbol, Address), posIds, gateways', credits)
    BY <2>1, <2>2, <2>3, DeployedIsBounded, GatewayKeepsSound
  <2> QED BY <2>1, <2>2, <2>4, DeployedIsBounded, IdleWriteKeepsInv
<1>9. ASSUME NEW p \in Processes, OpenPositions(p) PROVE FileInv'
  <2>1. /\ Idle(p) /\ Deployed /\ file' = file /\ alive' = alive /\ config' = config
        /\ gateways' = gateways /\ credits' = credits
    BY <1>9 DEF OpenPositions
  <2>2. PICK i \in DOMAIN config[p].deltaVaults :
          /\ config[p].deltaVaults[i].address # NoAddress
          /\ posIds[config[p].deltaVaults[i].address] = NoAddress
          /\ posIds' = [posIds EXCEPT ![config[p].deltaVaults[i].address] = Address]
          /\ opened' = [opened EXCEPT ![p] = config[p].deltaVaults[i].symbol]
    BY <1>9 DEF OpenPositions
  <2>3. config[p].deltaVaults[i] \in VaultEntry BY DEF FileInv, File
  <2>4. opened' \in [Processes -> Symbols \cup {"none"}] /\ posIds' \in [Addresses -> Places]
    BY <2>1, <2>2, <2>3, DeployedIsBounded DEF FileInv, VaultEntry
  <2>5. \A a \in Addresses : posIds[a] # NoAddress => posIds'[a] = posIds[a] BY <2>2 DEF FileInv
  <2>6. Sound(file, posIds', gateways', credits')
    <3>1. Sound(file, posIds, gateways, credits) BY DEF FileInv
    <3> QED BY <2>1, <2>5, <3>1, ChainGrows
  <2>7. ASSUME NEW q \in Processes PROVE Sound(config'[q], posIds', gateways', credits') /\ Opened(q)'
    <3>1. Sound(config[q], posIds, gateways, credits) BY DEF FileInv
    <3>2. Sound(config[q], posIds', gateways', credits') BY <2>1, <2>5, <3>1, ChainGrows
    <3>3. CASE q = p
      <4>1. opened'[q] = config[q].deltaVaults[i].symbol BY <2>2, <3>3 DEF FileInv
      <4> QED BY <2>1, <2>2, <3>2, <3>3, <4>1 DEF Opened
    <3>4. CASE q # p
      <4>1. opened'[q] = opened[q] BY <2>2, <3>4 DEF FileInv
      <4> QED BY <2>1, <3>2, <4>1 DEF Opened, FileInv
    <3> QED BY <3>3, <3>4
  <2>8. \A q \in Processes : q \notin alive' => opened'[q] = "none" BY <2>1, <2>2 DEF FileInv, Idle
  <2> QED BY <2>1, <2>4, <2>6, <2>7, <2>8, DeployedIsBounded DEF FileInv
<1>10. ASSUME NEW p \in Processes, SavePositions(p) PROVE FileInv'
  <2> DEFINE c == config[p]
  <2>1. PICK i \in DOMAIN c.deltaVaults : c.deltaVaults[i].symbol = opened[p] /\ c.deltaVaults[i].address # NoAddress
    BY <1>10 DEF SavePositions, FileInv, Opened
  <2>2. Sound(c, posIds, gateways, credits) BY DEF FileInv
  <2>3. IndexOf(c, opened[p]) = i BY <2>1, <2>2, FoundOnce DEF Sound
  <2>4. /\ alive' = alive /\ used' = used /\ posIds' = posIds /\ gateways' = gateways /\ credits' = credits
        /\ opened' = [opened EXCEPT ![p] = "none"]
        /\ writeConfigFile(p, setDeltaNeutralVaultsInitPositionIds(c, c.deltaVaults[i].symbol, posIds[c.deltaVaults[i].address]))
    BY <1>10, <2>3 DEF SavePositions, chain
  <2>5. c.deltaVaults[i] \in VaultEntry BY <2>2 DEF Sound, File
  <2>6. posIds[c.deltaVaults[i].address] \in Places
    BY <2>1, <2>5 DEF FileInv, VaultEntry, Places, Addresses, NoAddress
  <2>7. Sound(setDeltaNeutralVaultsInitPositionIds(c, c.deltaVaults[i].symbol, posIds[c.deltaVaults[i].address]),
              posIds, gateways, credits)
    BY <2>1, <2>2, <2>6, PositionsKeepSound
  <2>8. used' \in 1 .. MaxAddress BY <2>4 DEF FileInv
  <2> HIDE DEF c
  <2> QED BY <2>4, <2>7, <2>8, WriteKeepsInv
<1>11. ASSUME NEW p \in Processes, AddPool(p) PROVE FileInv'
  <2>1. Idle(p) /\ used' = used /\ posIds' = posIds /\ gateways' = gateways /\ credits' = credits BY <1>11 DEF AddPool, chain
  <2>2. PICK pid \in PoolIds : /\ \A i \in DOMAIN config[p].pools : config[p].pools[i] # pid
                               /\ Write(p, addOrSetYielPool(config[p], pid))
    BY <1>11 DEF AddPool
  <2>3. Sound(addOrSetYielPool(config[p], pid), posIds, gateways, credits) BY <2>2, PoolKeepsSound DEF FileInv
  <2>4. used' \in 1 .. MaxAddress BY <2>1 DEF FileInv
  <2> QED BY <2>1, <2>2, <2>3, <2>4, IdleWriteKeepsInv
<1>12. ASSUME NEW p \in Processes, DeployCreditor(p) PROVE FileInv'
  <2>1. Idle(p) /\ Deployed /\ posIds' = posIds /\ gateways' = gateways /\ credits' = credits
    BY <1>12 DEF DeployCreditor, chain
  <2>2. PICK name \in CreditorNames : Write(p, addOrSetCreditors(config[p], [name |-> name, address |-> Address]))
    BY <1>12 DEF DeployCreditor
  <2>3. [name |-> name, address |-> Address] \in CreditorEntry BY <2>1, DeployedIsBounded DEF CreditorEntry
  <2>4. Sound(addOrSetCreditors(config[p], [name |-> name, address |-> Address]), posIds, gateways, credits)
    BY <2>3, CreditorKeepsSound DEF FileInv
  <2> QED BY <2>1, <2>2, <2>4, DeployedIsBounded, IdleWriteKeepsInv
<1>13. ASSUME NEW p \in Processes, DeployController(p) PROVE FileInv'
  <2>1. /\ Idle(p) /\ Deployed /\ posIds' = posIds /\ gateways' = gateways /\ credits' = credits
        /\ Write(p, setAVController(config[p], Address))
    BY <1>13 DEF DeployController, chain
  <2>2. [address |-> Address, creditors |-> {}] \in [address : Places, creditors : SUBSET Places]
    BY <2>1, DeployedIsBounded
  <2>3. Sound(setAVController(config[p], Address), posIds, gateways, credits)
    BY <2>2, ControllerKeepsSound DEF FileInv, setAVController
  <2> QED BY <2>1, <2>3, DeployedIsBounded, IdleWriteKeepsInv
<1>14. ASSUME NEW p \in Processes, SetCreditors(p) PROVE FileInv'
  <2> DEFINE c == config[p]
             addresses(names) == {convertCreditorNameToAddress(c, n) : n \in names}
  <2>1. Idle(p) /\ used' = used /\ posIds' = posIds /\ gateways' = gateways BY <1>14 DEF SetCreditors
  <2>2. PICK names \in (SUBSET CreditorNames) \ {{}} :
          /\ \A n \in names : \E i \in DOMAIN c.creditors : c.creditors[i].name = n
          /\ credits' = credits \cup {<<c.controller.address, addresses(names)>>}
          /\ Write(p, setCreditToAVController(c, addresses(names)))
    BY <1>14 DEF SetCreditors
  <2>3. Sound(c, posIds, gateways, credits) BY DEF FileInv
  <2>4. c \in File BY <2>3 DEF Sound
  <2> HIDE DEF c
  <2>5. addresses(names) \subseteq {c.creditors[i].address : i \in DOMAIN c.creditors}
    <3>1. ASSUME NEW n \in names
          PROVE  \E i \in DOMAIN c.creditors : convertCreditorNameToAddress(c, n) = c.creditors[i].address
      <4>1. PICK k \in DOMAIN c.creditors : c.creditors[k].name = n BY <2>2
      <4> QED BY <2>4, <4>1, CreditorIsFound
    <3> QED BY <3>1
  <2>6. {c.creditors[i].address : i \in DOMAIN c.creditors} \subseteq Places
    <3>1. c.creditors \in Seq(CreditorEntry) BY <2>4 DEF File
    <3>2. \A i \in DOMAIN c.creditors : c.creditors[i] \in CreditorEntry BY <3>1
    <3>3. \A o \in CreditorEntry : o.address \in Places BY DEF CreditorEntry
    <3> QED BY <3>2, <3>3
  <2> DEFINE k == [address |-> c.controller.address, creditors |-> addresses(names)]
  <2> HIDE DEF addresses
  <2>7. setCreditToAVController(c, addresses(names)) = [c EXCEPT !.controller = k]
    BY <2>4 DEF setCreditToAVController, File
  <2>8. Sound(c, posIds, gateways, credits') BY <2>2, <2>3, ChainGrows
  <2>9. k \in [address : Places, creditors : SUBSET Places] BY <2>4, <2>5, <2>6 DEF File
  <2>10. <<k.address, k.creditors>> \in credits' BY <2>2
  <2>11. k.creditors \subseteq {c.creditors[i].address : i \in DOMAIN c.creditors} BY <2>5
  <2> HIDE DEF k
  <2>12. Sound([c EXCEPT !.controller = k], posIds, gateways, credits')
    BY <2>8, <2>9, <2>10, <2>11, ControllerKeepsSound
  <2>13. used' \in 1 .. MaxAddress BY <2>1 DEF FileInv
  <2> QED BY <2>1, <2>2, <2>7, <2>12, <2>13, IdleWriteKeepsInv
<1>15. CASE UNCHANGED vars BY <1>15 DEF vars, FileInv, Opened
<1> QED BY <1>1, <1>2, <1>3, <1>4, <1>5, <1>6, <1>7, <1>8, <1>9, <1>10, <1>11, <1>12, <1>13, <1>14, <1>15 DEF Next

----------------------------------------------------------------------------
\* So it always holds.
LEMMA FileIsSound == Spec => []FileInv
PROOF
<1> QED BY FileInvHolds, FileInvIsKept, PTL DEF Spec

\* For any number of processes and contracts: the positions and the gateway the file lists for a
\* delta-neutral vault are those of the vault at the address it lists.
THEOREM EntryIsAlwaysOneVault == Spec => []EntryIsOneVault
PROOF
<1>1. FileInv => EntryIsOneVault BY DEF FileInv, Sound, OneVault, EntryIsOneVault
<1> QED BY <1>1, FileIsSound, PTL

\* No vault is ever listed without its configuration contract, and nothing twice.
THEOREM ConfigIsAlwaysBeforeVault == Spec => []ConfigBeforeVault
PROOF
<1>1. FileInv => ConfigBeforeVault BY DEF FileInv, Sound, Listed, ConfigBeforeVault
<1> QED BY <1>1, FileIsSound, PTL

\* The creditors the file lists for the controller were sent to that controller.
THEOREM CreditorsWereAlwaysSent == Spec => []CreditorsWereSent
PROOF
<1>1. FileInv => CreditorsWereSent BY DEF FileInv, Sound, Sent, CreditorsWereSent
<1> QED BY <1>1, FileIsSound, PTL

----------------------------------------------------------------------------
(* One process at a time loses nothing. *)

\* Every name of c is in the same place in d, and every creditor is.
Extended(c, d) ==
  /\ \A k \in Fields \cup Symbols : c.fields[k] # NoAddress => d.fields[k] # NoAddress
  /\ \A i \in DOMAIN c.workers : i \in DOMAIN d.workers /\ d.workers[i].name = c.workers[i].name
  /\ \A i \in DOMAIN c.deltaVaults : i \in DOMAIN d.deltaVaults /\ d.deltaVaults[i].symbol = c.deltaVaults[i].symbol
  /\ \A i \in DOMAIN c.creditors : i \in DOMAIN d.creditors /\ d.creditors[i] = c.creditors[i]

\* The parts of a copy that a setter leaves alone.
Others(c, d, part) ==
  /\ part # "fields" => d.fields = c.fields
  /\ part # "workers" => d.workers = c.workers
  /\ part # "deltaVaults" => d.deltaVaults = c.deltaVaults
  /\ part # "creditors" => d.creditors = c.creditors

\* Tokens and the other fields.
LEMMA TokenExtends ==
  ASSUME NEW c \in File, NEW key \in Fields \cup Symbols, NEW address, address # NoAddress
  PROVE  Extended(c, addOrSetToken(c, key, address))
PROOF
<1> DEFINE d == addOrSetToken(c, key, address)
<1>1. Others(c, d, "fields") BY DEF Others, addOrSetToken, File
<1>2. d.fields = [c.fields EXCEPT ![key] = address] BY DEF addOrSetToken, File
<1>3. c.fields \in [Fields \cup Symbols -> Places] BY DEF File
<1> HIDE DEF d
<1>4. Extended(c, d) BY <1>1, <1>2, <1>3 DEF Extended, Others
<1> QED BY <1>4 DEF d

\* The entry of a worker stays where it is.
LEMMA WorkerExtends ==
  ASSUME NEW c \in File, NEW e \in WorkerEntry
  PROVE  Extended(c, addOrSetVaultWorker(c, e))
PROOF
<1> DEFINE i == WorkerOf(c, e.name)
           old == c.workers
           new == IF i = 0 THEN Append(old, e) ELSE [old EXCEPT ![i] = e]
           d == addOrSetVaultWorker(c, e)
<1>0. old \in Seq(WorkerEntry) BY DEF File
<1>1. i = 0 \/ (i \in DOMAIN old /\ old[i].name = e.name) BY WorkerIsFound
<1>2. d.workers = new /\ Others(c, d, "workers") BY DEF Others, addOrSetVaultWorker, File
<1> HIDE DEF d, i, old
<1>3. \A k \in DOMAIN old : k \in DOMAIN new /\ new[k].name = old[k].name
  <2>1. CASE i = 0 BY <1>0, <2>1
  <2>2. CASE i # 0 /\ i \in DOMAIN old /\ old[i].name = e.name
    <3>1. new = [old EXCEPT ![i] = e] BY <2>2
    <3> HIDE DEF new
    <3> QED BY <1>0, <2>2, <3>1
  <2> QED BY <1>1, <2>1, <2>2
<1>4. Extended(c, d) BY <1>2, <1>3 DEF Extended, Others, old
<1> QED BY <1>4 DEF d

\* So does it when its strategy is entered.
LEMMA StrategyExtends ==
  ASSUME NEW c \in File, NEW k \in DOMAIN c.workers, NEW strategy
  PROVE  Extended(c, addOrSetWorkerStrategy(c, c.workers[k].address, strategy))
PROOF
<1> DEFINE i == WorkerAt(c, c.workers[k].address)
           old == c.workers
           e == [old[i] EXCEPT !.strategy = strategy]
           d == addOrSetWorkerStrategy(c, c.workers[k].address, strategy)
<1>0. old \in Seq(WorkerEntry) BY DEF File
<1>1. i \in DOMAIN old BY WorkerAddressIsFound
<1>2. d.workers = [old EXCEPT ![i] = e] /\ Others(c, d, "workers") BY DEF Others, addOrSetWorkerStrategy, File
<1>3. e.name = old[i].name BY <1>0, <1>1 DEF WorkerEntry
<1> HIDE DEF d, i, old, e
<1>4. \A m \in DOMAIN old : m \in DOMAIN d.workers /\ d.workers[m].name = old[m].name BY <1>0, <1>1, <1>2, <1>3
<1>5. Extended(c, d) BY <1>2, <1>4 DEF Extended, Others, old
<1> QED BY <1>5 DEF d

\* The entry of a delta-neutral vault stays where it is, or is appended.
LEMMA EntryExtends ==
  ASSUME NEW c \in File, NEW e, NEW d,
         d = [c EXCEPT !.deltaVaults = IF IndexOf(c, e.symbol) = 0 THEN Append(@, e) ELSE [@ EXCEPT ![IndexOf(c, e.symbol)] = e]]
  PROVE  Extended(c, d)
PROOF
<1> DEFINE i == IndexOf(c, e.symbol)
           old == c.deltaVaults
           new == IF i = 0 THEN Append(old, e) ELSE [old EXCEPT ![i] = e]
<1>0. old \in Seq(VaultEntry) BY DEF File
<1>1. i = 0 \/ (i \in DOMAIN old /\ old[i].symbol = e.symbol) BY VaultIsFound
<1>2. d.deltaVaults = new /\ Others(c, d, "deltaVaults") BY DEF Others, File
<1> HIDE DEF i, old
<1>3. \A k \in DOMAIN old : k \in DOMAIN new /\ new[k].symbol = old[k].symbol
  <2>1. CASE i = 0 BY <1>0, <2>1
  <2>2. CASE i # 0 /\ i \in DOMAIN old /\ old[i].symbol = e.symbol
    <3>1. new = [old EXCEPT ![i] = e] BY <2>2
    <3> HIDE DEF new
    <3> QED BY <1>0, <2>2, <3>1
  <2> QED BY <1>1, <2>1, <2>2
<1> QED BY <1>2, <1>3 DEF Extended, Others, old

\* An entry is changed in another field than its symbol.
LEMMA FieldExtends ==
  ASSUME NEW c \in File, NEW i \in DOMAIN c.deltaVaults, NEW e, e.symbol = c.deltaVaults[i].symbol,
         NEW d, d = [c EXCEPT !.deltaVaults = [@ EXCEPT ![i] = e]]
  PROVE  Extended(c, d)
PROOF
<1> DEFINE old == c.deltaVaults
<1>0. old \in Seq(VaultEntry) /\ i \in DOMAIN old /\ e.symbol = old[i].symbol BY DEF File
<1>1. d.deltaVaults = [old EXCEPT ![i] = e] /\ Others(c, d, "deltaVaults") BY DEF Others, File
<1> HIDE DEF old
<1>2. \A k \in DOMAIN old : k \in DOMAIN d.deltaVaults /\ d.deltaVaults[k].symbol = old[k].symbol BY <1>0, <1>1
<1> QED BY <1>1, <1>2 DEF Extended, Others, old

\* A creditor is appended, whatever it is called.
LEMMA CreditorExtends ==
  ASSUME NEW c \in File, NEW e
  PROVE  Extended(c, addOrSetCreditors(c, e))
PROOF
<1> DEFINE d == addOrSetCreditors(c, e)
           old == c.creditors
<1>0. old \in Seq(CreditorEntry) BY DEF File
<1>1. d.creditors = Append(old, e) /\ Others(c, d, "creditors") BY DEF Others, addOrSetCreditors, File
<1> HIDE DEF d, old
<1>2. \A k \in DOMAIN old : k \in DOMAIN d.creditors /\ d.creditors[k] = old[k] BY <1>0, <1>1
<1>3. Extended(c, d) BY <1>1, <1>2 DEF Extended, Others, old
<1> QED BY <1>3 DEF d

\* Setters of pools and of the controller name nothing.
LEMMA NamelessExtends ==
  ASSUME NEW c \in File, NEW d, Others(c, d, "none")
  PROVE  Extended(c, d)
PROOF
<1> QED BY DEF Others, Extended

\* The first creditor of a name stays the first one.
LEMMA CreditorNameKept ==
  ASSUME NEW c \in File, NEW d \in File, Extended(c, d), NEW k \in DOMAIN c.creditors
  PROVE  convertCreditorNameToAddress(d, c.creditors[k].name) = convertCreditorNameToAddress(c, c.creditors[k].name)
PROOF
<1> DEFINE n == c.creditors[k].name
           I == {j \in 1 .. Len(c.creditors) : c.creditors[j].name = n}
           J == {j \in 1 .. Len(d.creditors) : d.creditors[j].name = n}
<1>1. convertCreditorNameToAddress(c, n) = c.creditors[IF I # {} THEN Min(I) ELSE 0].address
  BY DEF convertCreditorNameToAddress, SelectInSeq
<1>2. convertCreditorNameToAddress(d, n) = d.creditors[IF J # {} THEN Min(J) ELSE 0].address
  BY DEF convertCreditorNameToAddress, SelectInSeq
<1>3. DOMAIN c.creditors = 1 .. Len(c.creditors) /\ DOMAIN d.creditors = 1 .. Len(d.creditors)
      /\ Len(c.creditors) \in Nat /\ Len(d.creditors) \in Nat
  BY DEF File
<1>4. \A i \in DOMAIN c.creditors : i \in DOMAIN d.creditors /\ d.creditors[i] = c.creditors[i] BY DEF Extended
<1>5. I \in SUBSET Nat /\ J \in SUBSET Nat /\ k \in I BY <1>3
<1>6. I \subseteq J BY <1>3, <1>4
<1>7. \A j \in J : j \in I \/ \A i \in I : i <= j BY <1>3, <1>4
<1>8. Min(I) \in I /\ (\A y \in I : Min(I) <= y) /\ Min(J) \in J /\ (\A y \in J : Min(J) <= y) /\ I # {} /\ J # {}
  <2> HIDE DEF I, J, n
  <2> QED BY <1>5, <1>6, MinIsIn
<1>9. Min(J) = Min(I)
  <2>1. Min(I) \in Nat /\ Min(J) \in Nat BY <1>5, <1>8
  <2> HIDE DEF I, J, n
  <2>2. Min(J) <= Min(I) BY <1>6, <1>8
  <2>3. Min(I) <= Min(J) BY <1>7, <1>8
  <2> QED BY <2>1, <2>2, <2>3
<1>10. Min(I) \in DOMAIN c.creditors BY <1>3, <1>8
<1>11. d.creditors[Min(J)].address = c.creditors[Min(I)].address BY <1>4, <1>9, <1>10
<1> HIDE DEF I, J
<1> QED BY <1>1, <1>2, <1>8, <1>11

\* What is named stays named.
LEMMA NamesKept ==
  ASSUME NEW c \in File, NEW d \in File, Extended(c, d)
  PROVE  Names(c) \subseteq Names(d)
PROOF
<1>1. \A i \in DOMAIN c.workers : <<"worker", c.workers[i].name>> \in Names(d) BY DEF Extended, Names
<1>2. \A i \in DOMAIN c.deltaVaults : <<"vault", c.deltaVaults[i].symbol>> \in Names(d) BY DEF Extended, Names
<1>3. \A i \in DOMAIN c.creditors : <<"creditor", c.creditors[i].name>> \in Names(d) BY DEF Extended, Names
<1>4. \A k \in DOMAIN c.fields : c.fields[k] # NoAddress => <<"field", k>> \in Names(d) BY DEF Extended, Names, File
<1> QED BY <1>1, <1>2, <1>3, <1>4 DEF Names

\* A process p writes d, which has all the names of its copy.
Extending(p, d) ==
  /\ writeConfigFile(p, d) /\ p \in alive /\ UNCHANGED <<alive, overlapped>>
  /\ Extended(config[p], d)
Quiet == UNCHANGED <<file, alive, config, overlapped>>

\* That is what the setters of the deployment scripts do.
LEMMA IdleWriteExtends ==
  ASSUME NEW p, Idle(p), NEW d, Write(p, d), Extended(config[p], d)
  PROVE  Extending(p, d)
PROOF
<1> QED BY DEF Extending, Idle, Write

\* Every step but the first and the last of a process writes such a copy, or nothing.
LEMMA WritesExtend ==
  ASSUME FileInv, NEW p \in Processes,
         \/ SetField(p) \/ DeployWorker(p) \/ SetWorkerStrategy(p)
         \/ DeployDeltaNeutralVaultConfig(p) \/ DeployDeltaNeutralVault(p) \/ DeployGateway(p)
         \/ OpenPositions(p) \/ SavePositions(p)
         \/ AddPool(p) \/ DeployCreditor(p) \/ DeployController(p) \/ SetCreditors(p)
  PROVE  Quiet \/ \E d : Extending(p, d)
PROOF
<1> DEFINE c == config[p]
           Goal == Quiet \/ \E d : Extending(p, d)
<1> SUFFICES Goal OBVIOUS
<1>0. c \in File /\ Listed(c) BY DEF FileInv, Sound
<1> HIDE DEF c
<1>a. Deployed => Address # NoAddress /\ Address \in Places BY DeployedIsBounded
<1>b. ASSUME NEW d, Idle(p), Write(p, d), Extended(c, d) PROVE Goal BY <1>b, IdleWriteExtends DEF c
<1> HIDE DEF Goal
<1>1. CASE SetField(p)
  <2>1. PICK key \in Fields : Write(p, addOrSetToken(c, key, Address)) BY <1>1 DEF SetField, c
  <2>2. Idle(p) /\ Address # NoAddress BY <1>1, <1>a DEF SetField
  <2> QED BY <1>0, <1>b, <2>1, <2>2, TokenExtends
<1>2. CASE DeployWorker(p)
  <2> DEFINE e(name) == [name |-> name, address |-> Address, strategy |-> NoAddress]
  <2>1. PICK name \in WorkerNames : Write(p, addOrSetVaultWorker(c, e(name))) BY <1>2 DEF DeployWorker, c
  <2>2. Idle(p) /\ Address \in Places BY <1>2, <1>a DEF DeployWorker
  <2>3. e(name) \in WorkerEntry BY <2>2, ConfigFileAssumption DEF WorkerEntry, Places, NoAddress
  <2> HIDE DEF e
  <2> QED BY <1>0, <1>b, <2>1, <2>2, <2>3, WorkerExtends
<1>3. CASE SetWorkerStrategy(p)
  <2>1. PICK i \in DOMAIN c.workers : Write(p, addOrSetWorkerStrategy(c, c.workers[i].address, Address))
    BY <1>3 DEF SetWorkerStrategy, c
  <2>2. Idle(p) BY <1>3 DEF SetWorkerStrategy
  <2> QED BY <1>0, <1>b, <2>1, <2>2, StrategyExtends
<1>4. CASE DeployDeltaNeutralVaultConfig(p)
  <2>1. PICK s \in Symbols : Write(p, addOrSetDeltaNeutralVaultsConfig(c, s, Address))
    BY <1>4 DEF DeployDeltaNeutralVaultConfig, c
  <2>2. Idle(p) BY <1>4 DEF DeployDeltaNeutralVaultConfig
  <2> DEFINE i == IndexOf(c, s)
             d == addOrSetDeltaNeutralVaultsConfig(c, s, Address)
             fresh == [defaultDeltaNeutralVaultsEntity(s) EXCEPT !.config = Address]
             changed == [c.deltaVaults[i] EXCEPT !.config = Address]
  <2>3. CASE i = 0
    <3>1. fresh.symbol = s BY DEF defaultDeltaNeutralVaultsEntity
    <3>2. d = [c EXCEPT !.deltaVaults = Append(@, fresh)] BY <2>3 DEF addOrSetDeltaNeutralVaultsConfig
    <3> HIDE DEF fresh, d
    <3>3. Extended(c, d) BY <1>0, <2>3, <3>1, <3>2, EntryExtends
    <3> QED BY <1>b, <2>1, <2>2, <3>3 DEF d
  <2>4. CASE i # 0
    <3>1. i \in DOMAIN c.deltaVaults BY <1>0, <2>4, VaultIsFound
    <3>2. c.deltaVaults[i] \in VaultEntry BY <1>0, <3>1 DEF File
    <3>3. changed.symbol = c.deltaVaults[i].symbol BY <3>2 DEF VaultEntry
    <3>4. d = [c EXCEPT !.deltaVaults = [@ EXCEPT ![i] = changed]]
      BY <1>0, <2>4 DEF addOrSetDeltaNeutralVaultsConfig, File
    <3> HIDE DEF changed, d, i
    <3>5. Extended(c, d) BY <1>0, <3>1, <3>3, <3>4, FieldExtends
    <3> QED BY <1>b, <2>1, <2>2, <3>5 DEF d
  <2> QED BY <2>3, <2>4
<1>5. CASE DeployDeltaNeutralVault(p)
  <2> DEFINE listed(s) == IF IndexOf(c, s) = 0 THEN NoAddress ELSE c.deltaVaults[IndexOf(c, s)].config
             e(s, given) == [defaultDeltaNeutralVaultsEntity(s) EXCEPT !.address = Address,
                               !.config = IF given = NoAddress THEN listed(s) ELSE given]
  <2>1. PICK s \in Symbols, given \in {NoAddress, Older} :
          Write(p, addOrSetToken(addOrSetDeltaNeutralVaults(c, s, e(s, given)), s, Address))
    BY <1>5 DEF DeployDeltaNeutralVault, c
  <2>2. Idle(p) /\ Address # NoAddress /\ Deployed BY <1>5, <1>a DEF DeployDeltaNeutralVault
  <2> DEFINE m == addOrSetDeltaNeutralVaults(c, s, e(s, given))
  <2>3. e(s, given).symbol = s BY DEF defaultDeltaNeutralVaultsEntity
  <2> HIDE DEF e
  <2>4. m = [c EXCEPT !.deltaVaults = IF IndexOf(c, s) = 0 THEN Append(@, e(s, given)) ELSE [@ EXCEPT ![IndexOf(c, s)] = e(s, given)]]
    BY DEF addOrSetDeltaNeutralVaults
  <2>5. Extended(c, m) BY <1>0, <2>3, <2>4, EntryExtends
  <2>6. m.fields = c.fields BY <1>0, <2>4 DEF File
  <2> DEFINE d == addOrSetToken(m, s, Address)
  <2>7. DOMAIN m = DOMAIN c /\ "fields" \in DOMAIN m BY <1>0, <2>4 DEF File
  <2> HIDE DEF m
  <2>8. d.workers = m.workers /\ d.deltaVaults = m.deltaVaults /\ d.creditors = m.creditors
        /\ d.fields = [c.fields EXCEPT ![s] = Address]
    BY <2>6, <2>7 DEF addOrSetToken
  <2>9. c.fields \in [Fields \cup Symbols -> Places] BY <1>0 DEF File
  <2> HIDE DEF d
  <2>10. Extended(c, d) BY <2>2, <2>5, <2>8, <2>9 DEF Extended
  <2> QED BY <1>b, <2>1, <2>2, <2>10 DEF d, m
<1>6. CASE DeployGateway(p)
  <2>1. PICK i \in DOMAIN c.deltaVaults : Write(p, setDeltaNeutralGateway(c, c.deltaVaults[i].symbol, Address))
    BY <1>6 DEF DeployGateway, c
  <2>2. Idle(p) BY <1>6 DEF DeployGateway
  <2> DEFINE d == setDeltaNeutralGateway(c, c.deltaVaults[i].symbol, Address)
             e == [c.deltaVaults[i] EXCEPT !.gateway = Address]
  <2>3. IndexOf(c, c.deltaVaults[i].symbol) = i BY <1>0, FoundOnce
  <2>4. c.deltaVaults[i] \in VaultEntry BY <1>0 DEF File
  <2>5. e.symbol = c.deltaVaults[i].symbol BY <2>4 DEF VaultEntry
  <2>6. d = [c EXCEPT !.deltaVaults = [@ EXCEPT ![i] = e]] BY <1>0, <2>3 DEF setDeltaNeutralGateway, File
  <2> HIDE DEF d, e
  <2>7. Extended(c, d) BY <1>0, <2>5, <2>6, FieldExtends
  <2> QED BY <1>b, <2>1, <2>2, <2>7 DEF d
<1>7. CASE OpenPositions(p) BY <1>7 DEF OpenPositions, Quiet, Goal
<1>8. CASE SavePositions(p)
  <2>1. PICK i \in DOMAIN c.deltaVaults : c.deltaVaults[i].symbol = opened[p]
    BY <1>8 DEF SavePositions, FileInv, Opened, c
  <2>2. IndexOf(c, opened[p]) = i /\ IndexOf(c, c.deltaVaults[i].symbol) = i BY <1>0, <2>1, FoundOnce
  <2> DEFINE id == posIds[c.deltaVaults[i].address]
             d == setDeltaNeutralVaultsInitPositionIds(c, c.deltaVaults[i].symbol, id)
             e == [c.deltaVaults[i] EXCEPT !.posId = id]
  <2>3. writeConfigFile(p, d) /\ p \in alive /\ UNCHANGED <<alive, overlapped>> BY <1>8, <2>2 DEF SavePositions, c
  <2>4. c.deltaVaults[i] \in VaultEntry BY <1>0 DEF File
  <2>5. e.symbol = c.deltaVaults[i].symbol BY <2>4 DEF VaultEntry
  <2>6. d = [c EXCEPT !.deltaVaults = [@ EXCEPT ![i] = e]]
    BY <1>0, <2>2 DEF setDeltaNeutralVaultsInitPositionIds, File
  <2> HIDE DEF d, e
  <2>7. Extended(c, d) BY <1>0, <2>5, <2>6, FieldExtends
  <2>8. Extending(p, d) BY <2>3, <2>7 DEF Extending, c
  <2> QED BY <2>8 DEF Goal
<1>9. CASE AddPool(p)
  <2>1. PICK pid \in PoolIds : Write(p, addOrSetYielPool(c, pid)) BY <1>9 DEF AddPool, c
  <2>2. Idle(p) BY <1>9 DEF AddPool
  <2>3. Others(c, addOrSetYielPool(c, pid), "none") BY <1>0 DEF Others, addOrSetYielPool, File
  <2> QED BY <1>0, <1>b, <2>1, <2>2, <2>3, NamelessExtends
<1>10. CASE DeployCreditor(p)
  <2>1. PICK name \in CreditorNames : Write(p, addOrSetCreditors(c, [name |-> name, address |-> Address]))
    BY <1>10 DEF DeployCreditor, c
  <2>2. Idle(p) BY <1>10 DEF DeployCreditor
  <2> QED BY <1>0, <1>b, <2>1, <2>2, CreditorExtends
<1>11. CASE DeployController(p)
  <2>1. Idle(p) /\ Write(p, setAVController(c, Address)) BY <1>11 DEF DeployController, c
  <2>2. Others(c, setAVController(c, Address), "none") BY <1>0 DEF Others, setAVController, File
  <2> QED BY <1>0, <1>b, <2>1, <2>2, NamelessExtends
<1>12. CASE SetCreditors(p)
  <2> DEFINE addresses(names) == {convertCreditorNameToAddress(c, n) : n \in names}
  <2>1. PICK names \in (SUBSET CreditorNames) \ {{}} : Write(p, setCreditToAVController(c, addresses(names)))
    BY <1>12 DEF SetCreditors, c
  <2>2. Idle(p) BY <1>12 DEF SetCreditors
  <2> HIDE DEF addresses
  <2>3. Others(c, setCreditToAVController(c, addresses(names)), "none") BY <1>0 DEF Others, setCreditToAVController, File
  <2> QED BY <1>0, <1>b, <2>1, <2>2, <2>3, NamelessExtends
<1> QED BY <1>1, <1>2, <1>3, <1>4, <1>5, <1>6, <1>7, <1>8, <1>9, <1>10, <1>11, <1>12 DEF Goal

\* Until two processes have been at work at once, the one at work has the file as it is.
Alone ==
  ~overlapped =>
    /\ \A p, q \in alive : p = q
    /\ \A p \in alive : config[p] = file
AloneInv == FileInv /\ Alone /\ alive \subseteq Processes

\* At first nobody is at work.
LEMMA AloneInvHolds == Init => AloneInv
PROOF
<1> QED BY FileInvHolds DEF Init, AloneInv, Alone

\* A step takes nothing from the file while one process is at work at a time.
LEMMA AloneExtends ==
  ASSUME AloneInv, [Next]_vars, ~overlapped
  PROVE  Extended(file, file')
PROOF
<1>1. CASE UNCHANGED file BY <1>1 DEF Extended
<1>2. ASSUME NEW p \in Processes, NEW d, Extending(p, d) PROVE Extended(file, file')
  BY <1>2 DEF Extending, writeConfigFile, AloneInv, Alone
<1>3. CASE UNCHANGED vars BY <1>1, <1>3 DEF vars
<1>4. ASSUME NEW p \in Processes, Start(p) \/ End(p) PROVE UNCHANGED file BY <1>4 DEF Start, End
<1>5. FileInv BY DEF AloneInv
<1> QED BY <1>1, <1>2, <1>3, <1>4, <1>5, WritesExtend DEF Next, Quiet

\* Every step keeps that.
LEMMA AloneInvIsKept == AloneInv /\ [Next]_vars => AloneInv'
PROOF
<1> SUFFICES ASSUME AloneInv, [Next]_vars PROVE AloneInv' OBVIOUS
<1>0. FileInv' BY FileInvIsKept DEF AloneInv
<1>1. config \in [Processes -> File] /\ alive \subseteq Processes BY DEF AloneInv, FileInv
<1>2. ASSUME NEW p \in Processes, Start(p) PROVE AloneInv'
  BY <1>0, <1>1, <1>2 DEF Start, AloneInv, Alone
<1>3. ASSUME NEW p \in Processes, End(p) PROVE AloneInv'
  BY <1>0, <1>1, <1>3 DEF End, AloneInv, Alone
<1>4. ASSUME NEW p \in Processes, NEW d, Extending(p, d) PROVE AloneInv'
  BY <1>0, <1>1, <1>4 DEF Extending, writeConfigFile, AloneInv, Alone
<1>5. CASE Quiet BY <1>0, <1>5 DEF Quiet, AloneInv, Alone
<1>6. CASE UNCHANGED vars BY <1>0, <1>6 DEF vars, AloneInv, Alone
<1>7. FileInv BY DEF AloneInv
<1> QED BY <1>2, <1>3, <1>4, <1>5, <1>6, <1>7, WritesExtend DEF Next

\* So it always holds.
LEMMA AloneAlways == Spec => []AloneInv
PROOF
<1> QED BY AloneInvHolds, AloneInvIsKept, PTL DEF Spec

\* Unless two processes have been at work at once, no write of the configuration file loses a name that
\* an earlier one put there: ConfigFileHelper changes its copy in place or appends to it.
THEOREM NothingIsForgotten == Spec => NothingForgotten
PROOF
<1>1. AloneInv /\ AloneInv' /\ [Next]_vars => [~overlapped => Names(file) \subseteq Names(file')]_vars
  <2> SUFFICES ASSUME AloneInv, AloneInv', [Next]_vars, ~overlapped PROVE Names(file) \subseteq Names(file') OBVIOUS
  <2>1. file \in File /\ file' \in File BY DEF AloneInv, FileInv, Sound
  <2> QED BY <2>1, AloneExtends, NamesKept
<1> QED BY <1>1, AloneAlways, PTL DEF Spec, NothingForgotten

\* And the name of a creditor keeps meaning the contract it meant first.
THEOREM CreditorNamesAreFixed == Spec => CreditorNameIsFixed
PROOF
<1> DEFINE Fixed == \A n \in {file.creditors[i].name : i \in DOMAIN file.creditors} :
                      convertCreditorNameToAddress(file', n) = convertCreditorNameToAddress(file, n)
<1>1. AloneInv /\ AloneInv' /\ [Next]_vars => [~overlapped => Fixed]_vars
  <2> SUFFICES ASSUME AloneInv, AloneInv', [Next]_vars, ~overlapped PROVE Fixed OBVIOUS
  <2>1. file \in File /\ file' \in File BY DEF AloneInv, FileInv, Sound
  <2> QED BY <2>1, AloneExtends, CreditorNameKept
<1> QED BY <1>1, AloneAlways, PTL DEF Spec, CreditorNameIsFixed
=============================================================================
