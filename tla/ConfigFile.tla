----------------------------- MODULE ConfigFile -----------------------------
(***************************************************************************)
(* The configuration file of a network (.mainnet.json) and the processes   *)
(* that write it through ConfigFileHelper.  A process reads the file once, *)
(* when it starts (getConfig returns the imported module); every setter    *)
(* changes its copy and writes the whole copy over the file.  Several      *)
(* processes can be at work, and each can die between any two steps.       *)
(***************************************************************************)
EXTENDS Naturals, Sequences, SequencesExt

CONSTANTS
  Processes,
  Symbols,      \* delta-neutral vaults
  Fields,       \* other things of which the file holds one address
  Existing,     \* those of them that have to be there before they are set
  WorkerNames,
  CreditorNames,
  PoolIds,
  MaxAddress,   \* bound: contracts deployed
  MaxStarts     \* bound: processes started

NoAddress == 0
Older == 1  \* whatever was deployed before
Addresses == 1 .. MaxAddress
ASSUME ConfigFileAssumption ==
  /\ MaxAddress \in Nat \ {0} /\ MaxStarts \in Nat
  /\ Existing \subseteq Fields /\ Fields \cap Symbols = {}

VARIABLES
  file,     \* the file
  alive,    \* the processes at work
  config,   \* [process -> its copy]
  opened,   \* [process -> the delta-neutral vault whose positions it has opened, or "none"]
  used,     \* how many addresses the deployments have used up
  starts,
  posIds,   \* on the chain: [address of a vault -> the id of its positions, or NoAddress]
  gateways, \* on the chain: {<<gateway, vault>>}
  credits,  \* sent to the chain: {<<controller, creditors>>}
  overlapped \* history: whether two processes have been at work at once

vars == <<file, alive, config, opened, used, starts, posIds, gateways, credits, overlapped>>
chain == <<posIds, gateways, credits>>

NoFile == [fields |-> [k \in Fields \cup Symbols |-> NoAddress], workers |-> <<>>, deltaVaults |-> <<>>, pools |-> <<>>, creditors |-> <<>>,
           controller |-> [address |-> NoAddress, creditors |-> {}]]

----------------------------------------------------------------------------
(* The setters, as functions of the copy.  One address stands for what is deployed together. *)

\* Tokens, and every other field that holds one address.
addOrSetToken(c, key, address) == [c EXCEPT !.fields[key] = address]

WorkerOf(c, name) == SelectInSeq(c.workers, LAMBDA w : w.name = name)
\* Mutant: the list is replaced.
addOrSetVaultWorker_Replaces(c, value) == [c EXCEPT !.workers = <<value>>]
addOrSetVaultWorker(c, value) ==
  LET i == WorkerOf(c, value.name)
  IN [c EXCEPT !.workers = IF i = 0 THEN Append(@, value) ELSE [@ EXCEPT ![i] = value]]

\* Found by its address, in whatever vault it is.
WorkerAt(c, address) == SelectInSeq(c.workers, LAMBDA w : w.address = address)
addOrSetWorkerStrategy(c, address, strategy) == [c EXCEPT !.workers[WorkerAt(c, address)].strategy = strategy]

defaultDeltaNeutralVaultsEntity(symbol) ==
  [symbol |-> symbol, address |-> NoAddress, config |-> NoAddress, gateway |-> NoAddress, posId |-> NoAddress]
IndexOf(c, symbol) == SelectInSeq(c.deltaVaults, LAMBDA v : v.symbol = symbol)

\* Mutant: an entry of that symbol is not looked for.
addOrSetDeltaNeutralVaultsConfig_Appends(c, symbol, value) ==
  [c EXCEPT !.deltaVaults = Append(@, [defaultDeltaNeutralVaultsEntity(symbol) EXCEPT !.config = value])]
addOrSetDeltaNeutralVaultsConfig(c, symbol, value) ==
  LET i == IndexOf(c, symbol)
  IN [c EXCEPT !.deltaVaults =
        IF i = 0 THEN Append(@, [defaultDeltaNeutralVaultsEntity(symbol) EXCEPT !.config = value])
        ELSE [@ EXCEPT ![i].config = value]]

\* Mutant: the new entry is merged into the old one.
addOrSetDeltaNeutralVaults_Merges(c, symbol, value) ==
  LET i == IndexOf(c, symbol)
  IN [c EXCEPT !.deltaVaults =
        IF i = 0 THEN Append(@, value)
        ELSE [@ EXCEPT ![i] = [@ EXCEPT !.address = value.address, !.config = value.config]]]
addOrSetDeltaNeutralVaults(c, symbol, value) ==
  LET i == IndexOf(c, symbol)
  IN [c EXCEPT !.deltaVaults = IF i = 0 THEN Append(@, value) ELSE [@ EXCEPT ![i] = value]]

setDeltaNeutralGateway(c, symbol, value) == [c EXCEPT !.deltaVaults[IndexOf(c, symbol)].gateway = value]
setDeltaNeutralVaultsInitPositionIds(c, symbol, id) == [c EXCEPT !.deltaVaults[IndexOf(c, symbol)].posId = id]

\* Both only ever append, whatever they are called.
addOrSetYielPool(c, pool) == [c EXCEPT !.pools = Append(@, pool)]
\* Mutant: a creditor of the same name is replaced.
addOrSetCreditors_Sets(c, creditor) ==
  [c EXCEPT !.creditors = Append(SelectSeq(@, LAMBDA o : o.name # creditor.name), creditor)]
addOrSetCreditors(c, creditor) == [c EXCEPT !.creditors = Append(@, creditor)]

\* Mutant: the creditors of the old controller stay.
setAVController_KeepsCreditors(c, address) == [c EXCEPT !.controller.address = address]
setAVController(c, address) == [c EXCEPT !.controller = [address |-> address, creditors |-> {}]]

setCreditToAVController(c, addresses) == [c EXCEPT !.controller.creditors = addresses]

\* Converter: the first creditor of that name.
convertCreditorNameToAddress(c, name) ==
  c.creditors[SelectInSeq(c.creditors, LAMBDA o : o.name = name)].address

----------------------------------------------------------------------------
Init ==
  /\ \E present \in SUBSET Existing :
       file = [NoFile EXCEPT !.fields = [k \in DOMAIN @ |-> IF k \in present THEN Older ELSE NoAddress]]
  /\ alive = {}
  /\ config = [p \in Processes |-> NoFile]
  /\ opened = [p \in Processes |-> "none"]
  /\ used = Older /\ starts = 0
  /\ posIds = [v \in Addresses |-> NoAddress]
  /\ gateways = {} /\ credits = {} /\ overlapped = FALSE

Idle(p) == p \in alive /\ opened[p] = "none"

\* The process imports the file; config files of a network are never read again.
Start(p) ==
  /\ p \notin alive /\ starts < MaxStarts
  /\ alive' = alive \cup {p}
  /\ overlapped' = (overlapped \/ alive # {})
  /\ config' = [config EXCEPT ![p] = file]
  /\ starts' = starts + 1
  /\ UNCHANGED <<file, opened, used, chain>>

\* The script is over, throws or is killed.
End(p) ==
  /\ p \in alive
  /\ alive' = alive \ {p}
  /\ config' = [config EXCEPT ![p] = NoFile]
  /\ opened' = [opened EXCEPT ![p] = "none"]
  /\ UNCHANGED <<file, used, starts, overlapped, chain>>

\* writeFileSync is one step: a process that is killed in the middle of it, and would leave half a file,
\* is not modelled.
writeConfigFile(p, c) == config' = [config EXCEPT ![p] = c] /\ file' = c

Deployed == used' = used + 1 /\ used < MaxAddress
Address == used + 1
Write(p, c) == writeConfigFile(p, c) /\ UNCHANGED <<alive, opened, starts, overlapped>>

SetField(p) ==
  /\ Idle(p) /\ Deployed
  /\ \E key \in Fields :
       \* setVaultTwosideOptimalOnKey and setSharedStrategyOnKey throw on a key that is empty.
       /\ key \in Existing => config[p].fields[key] # NoAddress
       /\ Write(p, addOrSetToken(config[p], key, Address))
  /\ UNCHANGED chain

DeployWorker(p) ==
  /\ Idle(p) /\ Deployed
  /\ \E name \in WorkerNames :
       Write(p, addOrSetVaultWorker(config[p], [name |-> name, address |-> Address, strategy |-> NoAddress]))
  /\ UNCHANGED chain

SetWorkerStrategy(p) ==
  /\ Idle(p) /\ Deployed
  /\ \E i \in DOMAIN config[p].workers :
       Write(p, addOrSetWorkerStrategy(config[p], config[p].workers[i].address, Address))
  /\ UNCHANGED chain

DeployDeltaNeutralVaultConfig(p) ==
  /\ Idle(p) /\ Deployed
  /\ \E s \in Symbols : Write(p, addOrSetDeltaNeutralVaultsConfig(config[p], s, Address))
  /\ UNCHANGED chain

\* The configuration contract is given in the script (an older one) or looked up in the copy; the entry
\* starts without gateway and positions.  The script writes the entry and then the address among the
\* tokens, without waiting in between; here both are one write.
DeployDeltaNeutralVault(p) ==
  /\ Idle(p) /\ Deployed
  /\ \E s \in Symbols, given \in {NoAddress, Older} :
       LET i == IndexOf(config[p], s)
           listed == IF i = 0 THEN NoAddress ELSE config[p].deltaVaults[i].config
           entry == [defaultDeltaNeutralVaultsEntity(s) EXCEPT
                       !.address = Address, !.config = IF given = NoAddress THEN listed ELSE given]
       IN /\ entry.config # NoAddress
          /\ Write(p, addOrSetToken(addOrSetDeltaNeutralVaults(config[p], s, entry), s, Address))
  /\ UNCHANGED chain

DeployGateway(p) ==
  /\ Idle(p) /\ Deployed
  /\ \E i \in DOMAIN config[p].deltaVaults :
       LET v == config[p].deltaVaults[i]
       IN /\ v.address # NoAddress
          /\ gateways' = gateways \cup {<<Address, v.address>>}
          /\ Write(p, setDeltaNeutralGateway(config[p], v.symbol, Address))
  /\ UNCHANGED <<posIds, credits>>

\* initPositions of the vault the copy names, once per vault; the receipt is waited for.
OpenPositions(p) ==
  /\ Idle(p) /\ Deployed
  /\ \E i \in DOMAIN config[p].deltaVaults :
       LET v == config[p].deltaVaults[i]
       IN /\ v.address # NoAddress /\ posIds[v.address] = NoAddress
          /\ posIds' = [posIds EXCEPT ![v.address] = Address]
          /\ opened' = [opened EXCEPT ![p] = v.symbol]
  /\ UNCHANGED <<file, alive, config, starts, overlapped, gateways, credits>>

\* The ids are read from the chain and written.
SavePositions(p) ==
  /\ p \in alive /\ opened[p] # "none"
  /\ LET c == config[p]
         v == c.deltaVaults[IndexOf(c, opened[p])]
     IN writeConfigFile(p, setDeltaNeutralVaultsInitPositionIds(c, v.symbol, posIds[v.address]))
  /\ opened' = [opened EXCEPT ![p] = "none"]
  /\ UNCHANGED <<alive, used, starts, overlapped, chain>>

\* A pool is added when the copy does not list it yet.
AddPool(p) ==
  /\ Idle(p)
  /\ \E pid \in PoolIds :
       /\ \A i \in DOMAIN config[p].pools : config[p].pools[i] # pid
       /\ Write(p, addOrSetYielPool(config[p], pid))
  /\ UNCHANGED <<used, chain>>

DeployCreditor(p) ==
  /\ Idle(p) /\ Deployed
  /\ \E name \in CreditorNames : Write(p, addOrSetCreditors(config[p], [name |-> name, address |-> Address]))
  /\ UNCHANGED chain

DeployController(p) ==
  /\ Idle(p) /\ Deployed
  /\ Write(p, setAVController(config[p], Address))
  /\ UNCHANGED chain

\* The creditors are looked up by name, sent to the controller and written without waiting.
SetCreditors(p) ==
  /\ Idle(p) /\ config[p].controller.address # NoAddress
  /\ \E names \in (SUBSET CreditorNames) \ {{}} :
       LET c == config[p]
           addresses == {convertCreditorNameToAddress(c, n) : n \in names}
       IN /\ \A n \in names : \E i \in DOMAIN c.creditors : c.creditors[i].name = n
          /\ credits' = credits \cup {<<c.controller.address, addresses>>}
          /\ Write(p, setCreditToAVController(c, addresses))
  /\ UNCHANGED <<used, posIds, gateways>>

Next == \E p \in Processes :
  \/ Start(p) \/ End(p)
  \/ SetField(p) \/ DeployWorker(p) \/ SetWorkerStrategy(p)
  \/ DeployDeltaNeutralVaultConfig(p) \/ DeployDeltaNeutralVault(p) \/ DeployGateway(p)
  \/ OpenPositions(p) \/ SavePositions(p)
  \/ AddPool(p) \/ DeployCreditor(p) \/ DeployController(p) \/ SetCreditors(p)

Spec == Init /\ [][Next]_vars

----------------------------------------------------------------------------
\* The positions and the gateway the file lists for a vault are those of the vault at the address it
\* lists, however many processes write and whichever dies: every write is of one consistent copy, and
\* a redeployed vault starts without them.
EntryIsOneVault ==
  \A i \in DOMAIN file.deltaVaults :
    LET v == file.deltaVaults[i]
    IN /\ v.posId # NoAddress => v.address # NoAddress /\ posIds[v.address] = v.posId
       /\ v.gateway # NoAddress => <<v.gateway, v.address>> \in gateways

\* A vault is never listed before its configuration contract (the note at addOrSetDeltaNeutralVaultsConfig),
\* and a symbol, like the name of a worker or the id of a pool, is listed once.
ConfigBeforeVault ==
  /\ \A i \in DOMAIN file.deltaVaults :
       file.deltaVaults[i].address # NoAddress => file.deltaVaults[i].config # NoAddress
  /\ \A i, j \in DOMAIN file.deltaVaults : file.deltaVaults[i].symbol = file.deltaVaults[j].symbol => i = j
  /\ \A i, j \in DOMAIN file.workers : file.workers[i].name = file.workers[j].name => i = j
  /\ \A i, j \in DOMAIN file.pools : file.pools[i] = file.pools[j] => i = j

\* The creditors the file lists for the controller were sent to that very controller, and are
\* listed as creditors themselves, also after a controller or a creditor is deployed again.
CreditorsWereSent ==
  LET c == file.controller
  IN c.creditors # {} =>
       /\ <<c.address, c.creditors>> \in credits
       /\ c.creditors \subseteq {file.creditors[i].address : i \in DOMAIN file.creditors}

\* What the file names.
Names(c) ==
  {<<"worker", c.workers[i].name>> : i \in DOMAIN c.workers}
  \cup {<<"vault", c.deltaVaults[i].symbol>> : i \in DOMAIN c.deltaVaults}
  \cup {<<"creditor", c.creditors[i].name>> : i \in DOMAIN c.creditors}
  \cup {<<"field", k>> : k \in {l \in DOMAIN c.fields : c.fields[l] # NoAddress}}
\* While no two processes have been at work at once, nothing that was ever named is lost.
NothingForgotten == [][~overlapped => Names(file) \subseteq Names(file')]_vars

\* Then the name of a creditor also keeps meaning the contract it meant first (Converter): deploying
\* the creditor again does not change what set-params sends to the controller.
CreditorNameIsFixed ==
  [][~overlapped => \A n \in {file.creditors[i].name : i \in DOMAIN file.creditors} :
               convertCreditorNameToAddress(file', n) = convertCreditorNameToAddress(file, n)]_vars
=============================================================================
