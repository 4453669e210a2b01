------------------------------ MODULE Profile ------------------------------
(***************************************************************************)
(* Identities and trusted contacts: the commands pair, init, restore and   *)
(* serve of kin/cli.py, the First Flight wizard of the app                 *)
(* (tui/first_flight.py), and the relay's directory they talk to.          *)
(*                                                                         *)
(* A recovery phrase determines both key pairs, so a phrase is its own     *)
(* public key.  The table identity has no key: every insert adds a row and *)
(* readers take the first.  A command is split where another process, the  *)
(* relay or a crash can come between: before and after each request to the *)
(* relay and between the keychain and the database.  Each profile has at   *)
(* most one command and one wizard running.  The owner compares            *)
(* fingerprints out of band: they match when both sides computed them from *)
(* the same two keys.  Endpoints are left out.                             *)
(***************************************************************************)
EXTENDS Integers, Sequences, FiniteSets

CONSTANTS
    Profiles,     \* profiles, on any number of machines
    Flyers,       \* those of them whose owner also opens the app
    Usernames,
    Wanted,       \* those each profile's owner may choose for it
    MaxPhrases,   \* recovery phrases each profile's owner makes
    MaxStumbles   \* processes that die, answers lost, keychains locked

ASSUME ProfileAssumption ==
    /\ Flyers \subseteq Profiles
    /\ Wanted \in [Profiles -> SUBSET Usernames]
    /\ MaxPhrases \in [Profiles -> Nat] /\ MaxStumbles \in Nat

VARIABLES
    directory,  \* the relay's directory_entries: both public keys, by username
    ident,      \* the profile's table identity
    keychain,   \* the private keys stored for the profile
    phrases,    \* how many phrases the owner has been shown or brought
    trusted,    \* the profile's verified contacts: both keys, by username
    cmd,        \* the command running, or resting
    wiz,        \* First Flight's identity step, or resting
    stumbles,
    overlapped  \* profiles whose identity was being made by two processes, or made again

NoPhrase == <<>>
Phrase(p, i) == <<p, i>>
PhrasesOf(p) == {Phrase(p, i) : i \in 1..MaxPhrases[p]}
AllPhrases == UNION {PhrasesOf(p) : p \in Profiles}
NoEntry == [key |-> NoPhrase, x |-> NoPhrase]
Resting0 == [pc |-> "rest", name |-> "", phrase |-> NoPhrase, entry |-> NoEntry]

profileVars == <<directory, ident, keychain, phrases, trusted, cmd, wiz, stumbles, overlapped>>

ProfileInit ==
    /\ directory = [n \in Usernames |-> NoEntry]
    /\ ident = [p \in Profiles |-> <<>>]
    /\ keychain = [p \in Profiles |-> NoEntry]
    /\ phrases = [p \in Profiles |-> 0]
    /\ trusted = [p \in Profiles |-> [n \in Usernames |-> NoEntry]]
    /\ cmd = [p \in Profiles |-> Resting0]
    /\ wiz = [p \in Profiles |-> Resting0]
    /\ stumbles = 0
    /\ overlapped = {}

Goes(p, job) == cmd' = [cmd EXCEPT ![p] = job]
Stops(p) == Goes(p, Resting0)

SetupRunning(p) ==
    cmd[p].pc \in {"pair", "init", "words", "posts", "registers", "saves", "restores", "inserts"}
Overlaps(p, does) == overlapped' = IF does THEN overlapped \cup {p} ELSE overlapped

\* The row every reader takes.
Me(p) == ident[p][1]

IdentityRow(name, phrase, via) == [name |-> name, key |-> phrase, via |-> via]

-----------------------------------------------------------------------------
(* The relay.                                                              *)

\* /directory/register: a username is never reassigned to another key.
Registrable(n, key) == directory[n] = NoEntry \/ directory[n].key = key

\* Faulty variant: a username may be taken over.
register_endpoint_any(n, key, x) == directory' = [directory EXCEPT ![n] = [key |-> key, x |-> x]]

register_endpoint(n, key, x) ==
    /\ Registrable(n, key)
    /\ directory' = [directory EXCEPT ![n] = [key |-> key, x |-> x]]

-----------------------------------------------------------------------------
(* kin pair (no argument), kin init, kin restore.                          *)

\* No identity yet; pair asks for a username, init has both from its options.
SetupBegins(p, flow, n) ==
    /\ cmd[p] = Resting0 /\ ident[p] = <<>>
    /\ flow \in {"pair", "init"} /\ n \in Wanted[p]
    /\ Goes(p, [Resting0 EXCEPT !.pc = flow, !.name = n])
    /\ Overlaps(p, wiz[p].pc = "row")
    /\ UNCHANGED <<directory, ident, keychain, phrases, trusted, wiz, stumbles>>

\* The lookup answers 404.  pair then generates a phrase and stores the
\* signing key at once (setup_new_identity); init only derives its keys.
SetupLooksUp(p) ==
    LET job == cmd[p]
        phrase == Phrase(p, phrases[p] + 1)
    IN /\ job.pc \in {"pair", "init"}
       /\ IF directory[job.name] # NoEntry
          THEN Stops(p) /\ UNCHANGED <<keychain, phrases>>
          ELSE /\ phrases[p] < MaxPhrases[p]
               /\ phrases' = [phrases EXCEPT ![p] = @ + 1]
               /\ keychain' = IF job.pc = "pair" THEN [keychain EXCEPT ![p].key = phrase] ELSE keychain
               /\ Goes(p, [job EXCEPT !.phrase = phrase,
                                      !.pc = IF job.pc = "pair" THEN "words" ELSE "posts"])
       /\ UNCHANGED <<directory, ident, trusted, wiz, stumbles, overlapped>>

\* pair asks for two words of the phrase; then the encryption key is stored.
SetupConfirms(p) ==
    /\ cmd[p].pc = "words"
    /\ \/ Stops(p) /\ UNCHANGED keychain
       \/ /\ keychain' = [keychain EXCEPT ![p].x = cmd[p].phrase]
          /\ Goes(p, [cmd[p] EXCEPT !.pc = "registers"])
    /\ UNCHANGED <<directory, ident, phrases, trusted, wiz, stumbles, overlapped>>

\* The registration; 409 when someone else was faster, and the answer may be lost.
\* (The signing key pair registers is read back from the keychain.)
SetupRegisters(p) ==
    LET job == cmd[p]
        phrase == IF job.pc = "registers" THEN keychain[p].key ELSE job.phrase
    IN /\ job.pc \in {"registers", "posts"}
       /\ \/ /\ register_endpoint(job.name, phrase, job.phrase)
             /\ \/ /\ Goes(p, [job EXCEPT !.phrase = phrase,
                                          !.pc = IF job.pc = "posts" THEN "saves" ELSE "inserts"])
                   /\ UNCHANGED stumbles
                \/ /\ stumbles < MaxStumbles
                   /\ stumbles' = stumbles + 1
                   /\ Stops(p)
          \/ /\ ~ Registrable(job.name, phrase)
             /\ Stops(p)
             /\ UNCHANGED <<directory, stumbles>>
       /\ UNCHANGED <<ident, keychain, phrases, trusted, wiz, overlapped>>

\* restore: the phrase must be the one the directory knows for the username.
RestoreLooksUp(p, n, phrase) ==
    /\ cmd[p] = Resting0
    /\ phrase[2] <= phrases[phrase[1]]
    /\ directory[n] = [key |-> phrase, x |-> phrase]
    /\ Goes(p, [Resting0 EXCEPT !.pc = "restores", !.name = n, !.phrase = phrase])
    /\ Overlaps(p, wiz[p].pc = "row")
    /\ UNCHANGED <<directory, ident, keychain, phrases, trusted, wiz, stumbles>>

\* init and restore store both keys after the relay has answered; restore
\* refuses a profile that has an identity.
SetupSaves(p) ==
    /\ cmd[p].pc \in {"saves", "restores"}
    /\ IF cmd[p].pc = "restores" /\ ident[p] # <<>>
       THEN Stops(p) /\ UNCHANGED keychain
       ELSE /\ keychain' = [keychain EXCEPT ![p] = [key |-> cmd[p].phrase, x |-> cmd[p].phrase]]
            /\ Goes(p, [cmd[p] EXCEPT !.pc = "inserts"])
    /\ UNCHANGED <<directory, ident, phrases, trusted, wiz, stumbles, overlapped>>

\* The identity row is committed last.
SetupInserts(p) ==
    /\ cmd[p].pc = "inserts"
    /\ ident' = [ident EXCEPT ![p] = Append(@, IdentityRow(cmd[p].name, cmd[p].phrase, "cli"))]
    /\ Stops(p)
    /\ Overlaps(p, ident[p] # <<>>)
    /\ UNCHANGED <<directory, keychain, phrases, trusted, wiz, stumbles>>

\* kin serve --public-endpoint: register_identity_endpoint publishes the stored
\* keys again; a 409 is an error and changes nothing.
Serve(p) ==
    /\ cmd[p] = Resting0 /\ ident[p] # <<>> /\ keychain[p].x # NoPhrase
    /\ register_endpoint(Me(p).name, Me(p).key, keychain[p].x)
    /\ UNCHANGED <<ident, keychain, phrases, trusted, cmd, wiz, stumbles, overlapped>>

-----------------------------------------------------------------------------
(* First Flight.                                                           *)

\* The wizard opens on its identity step: there is no identity row, or its
\* private key cannot be read now (check_durable_state).
WizardOpens(p) ==
    /\ p \in Flyers /\ wiz[p] = Resting0
    /\ \/ ident[p] = <<>> /\ UNCHANGED <<stumbles, overlapped>>
       \/ /\ ident[p] # <<>> /\ stumbles < MaxStumbles
          /\ stumbles' = stumbles + 1
          /\ UNCHANGED overlapped
    /\ wiz' = [wiz EXCEPT ![p].pc = "identity"]
    /\ UNCHANGED <<directory, ident, keychain, phrases, trusted, cmd>>

\* Create (a new phrase, two words confirmed) or restore (any phrase the owner
\* has): both keys are stored; the directory is not asked.
WizardKeys(p, n, phrase) ==
    /\ wiz[p].pc = "identity" /\ n \in Wanted[p]
    /\ \/ phrase = Phrase(p, phrases[p] + 1) /\ phrases' = [phrases EXCEPT ![p] = @ + 1]
       \/ phrase[2] <= phrases[phrase[1]] /\ UNCHANGED phrases
    /\ keychain' = [keychain EXCEPT ![p] = [key |-> phrase, x |-> phrase]]
    /\ wiz' = [wiz EXCEPT ![p] = [Resting0 EXCEPT !.pc = "row", !.name = n, !.phrase = phrase]]
    /\ Overlaps(p, SetupRunning(p) \/ ident[p] # <<>>)
    /\ UNCHANGED <<directory, ident, trusted, cmd, stumbles>>

WizardInserts(p) ==
    /\ wiz[p].pc = "row"
    /\ ident' = [ident EXCEPT ![p] = Append(@, IdentityRow(wiz[p].name, wiz[p].phrase, "app"))]
    /\ wiz' = [wiz EXCEPT ![p] = Resting0]
    /\ Overlaps(p, SetupRunning(p) \/ ident[p] # <<>>)
    /\ UNCHANGED <<directory, keychain, phrases, trusted, cmd, stumbles>>

-----------------------------------------------------------------------------
(* kin pair <username>, and First Flight's pairing step.                   *)

\* The owner pairs with someone else, whom the profile does not trust yet.
PairLooksUp(p, n) ==
    /\ cmd[p] = Resting0 /\ ident[p] # <<>>
    /\ trusted[p][n] = NoEntry
    /\ directory[n] # NoEntry /\ n # Me(p).name
    /\ Goes(p, [Resting0 EXCEPT !.pc = "compares", !.name = n, !.entry = directory[n]])
    /\ UNCHANGED <<directory, ident, keychain, phrases, trusted, wiz, stumbles, overlapped>>

\* What profile p computes for an entry, and what the owner of r computes for p.
compute_fingerprint(p, key) == {Me(p).key, key}
SeenBy(r, p) == compute_fingerprint(r, directory[Me(p).name].key)

\* Out of band, the owner of n sees the fingerprint that p computes.
FingerprintsMatch(p, n, key) ==
    \E r \in Profiles : /\ ident[r] # <<>> /\ Me(r).name = n
                        /\ SeenBy(r, p) = compute_fingerprint(p, key)

\* The owners compare; the contact is recorded only on a match.
PairConfirms(p) ==
    /\ cmd[p].pc = "compares"
    /\ \/ /\ FingerprintsMatch(p, cmd[p].name, cmd[p].entry.key)
          /\ trusted' = [trusted EXCEPT ![p][cmd[p].name] = cmd[p].entry]
       \/ UNCHANGED trusted
    /\ Stops(p)
    /\ UNCHANGED <<directory, ident, keychain, phrases, wiz, stumbles, overlapped>>

\* refresh_contact_endpoint, before every message to a contact: the pinned keys
\* must be the directory's, else the owner gets a security alert.
refresh_contact_endpoint(p, n) == directory[n] = trusted[p][n]

\* A process dies between two steps.
ProfileDies(p) ==
    /\ stumbles < MaxStumbles
    /\ stumbles' = stumbles + 1
    /\ \/ cmd[p] # Resting0 /\ Stops(p) /\ UNCHANGED wiz
       \/ wiz[p] # Resting0 /\ wiz' = [wiz EXCEPT ![p] = Resting0] /\ UNCHANGED cmd
    /\ UNCHANGED <<directory, ident, keychain, phrases, trusted, overlapped>>

ProfileNext ==
    \E p \in Profiles :
        \/ \E n \in Usernames : \/ \E flow \in {"pair", "init"} : SetupBegins(p, flow, n)
                                \/ \E phrase \in AllPhrases : \/ RestoreLooksUp(p, n, phrase)
                                                              \/ WizardKeys(p, n, phrase)
                                \/ PairLooksUp(p, n)
        \/ SetupLooksUp(p) \/ SetupConfirms(p) \/ SetupRegisters(p) \/ SetupSaves(p) \/ SetupInserts(p)
        \/ Serve(p) \/ WizardOpens(p) \/ WizardInserts(p) \/ PairConfirms(p) \/ ProfileDies(p)

ProfileSpec == ProfileInit /\ [][ProfileNext]_profileVars

-----------------------------------------------------------------------------
ProfileTypeOK ==
    LET Keyed == AllPhrases \cup {NoPhrase}
        Entry == [key : Keyed, x : Keyed]
        Job == [pc : {"rest", "pair", "init", "words", "posts", "registers", "saves", "restores",
                      "inserts", "compares", "identity", "row"},
                name : Usernames \cup {""}, phrase : Keyed, entry : Entry]
    IN /\ directory \in [Usernames -> Entry]
       /\ \A p \in Profiles : \A i \in DOMAIN ident[p] :
              ident[p][i] \in [name : Usernames, key : Keyed, via : {"cli", "app"}]
       /\ keychain \in [Profiles -> Entry]
       /\ phrases \in [Profiles -> Nat]
       /\ trusted \in [Profiles -> [Usernames -> Entry]]
       /\ cmd \in [Profiles -> Job] /\ wiz \in [Profiles -> Job]
       /\ stumbles \in 0..MaxStumbles /\ overlapped \in SUBSET Profiles

\* What a profile says of itself and of others stays true.  A contact's pinned
\* key is the one the directory has for the username for ever (usernames are
\* never reassigned), and refresh_contact_endpoint raises no alert for it; an
\* identity made by the commands is the one the directory publishes; and its
\* private keys are in the keychain, whatever crashed or was lost on the way
\* (cli.py pair, initialize, restore; kin_relay/routes.py register_endpoint).
\* Excepted are a profile whose identity two processes made at once or the
\* wizard made again, and identities of the wizard, which does not register.
IdentityHolds ==
    \A p \in Profiles :
        /\ \A n \in Usernames : trusted[p][n] # NoEntry =>
               /\ trusted[p][n].key = directory[n].key
               /\ overlapped = {} => refresh_contact_endpoint(p, n)
        /\ (ident[p] # <<>> /\ p \notin overlapped /\ wiz[p].pc # "row") =>
               /\ keychain[p] = [key |-> Me(p).key, x |-> Me(p).key]
               /\ Me(p).via = "cli" => directory[Me(p).name].key = Me(p).key
=============================================================================
