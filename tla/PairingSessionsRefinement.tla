---------------------- MODULE PairingSessionsRefinement ----------------------
(***************************************************************************)
(* The in-memory repository, with its lock, its two maps and a claim that  *)
(* awaits the device, implements PairingLedger, where a claim is one       *)
(* transaction, as long as no tombstone is forgotten.                      *)
(***************************************************************************)
EXTENDS PairingSessions

\* A claim takes effect at the time it has read.
Claiming == {p \in Callers : At(p, "device")}

LedgerTime == IF Claiming = {} THEN clock
              ELSE task[CHOOSE p \in Claiming : TRUE].at

Ledger == INSTANCE PairingLedger WITH clock <- LedgerTime, tombs <- SeqRange(tombs)

\* Every behaviour of the repository under its callers is one of the ledger:
\* the await inside a claim is not seen from outside.
ImplementsPairingLedger == Ledger!Spec

\* A step forgets no tombstone: the codes it frees, and those that were held,
\* are held.
Remembers ==
    /\ SeqRange(tombs) \subseteq SeqRange(tombs')
    /\ \A i \in Sessions : session[i] # "none" /\ session'[i] = "none"
                              => code[i] \in SeqRange(tombs')

\* Whatever the bound of the tombstones, a step that forgets none is one of the
\* ledger: only the loss of the oldest tombstones is not seen there.
RememberingStepsAreLedgerSteps ==
    [][Remembers => [Ledger!Next]_(Ledger!vars)]_vars
=============================================================================
