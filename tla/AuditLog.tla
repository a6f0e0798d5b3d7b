------------------------------- MODULE AuditLog -------------------------------
(***************************************************************************)
(* The server's audit log (audit/{audit,head,key}.go): a chain of entries   *)
(* in one file, a sealed head in another, and the key that signs both.      *)
(* The server appends and seals in two steps and may die between them or    *)
(* within a line; `bloxsmith audit verify` reads both files from a process  *)
(* of its own, at any moment.                                               *)
(*                                                                         *)
(* An entry's hash stands for its contents and those of every entry before  *)
(* it: `id` is the hash it records, `prev` the one it links to, and `true`  *)
(* says that its contents are those it was hashed with.                     *)
(***************************************************************************)
EXTENDS Naturals, Sequences

CONSTANTS
    AuditKeys, NoAuditKey,
    MaxEntries,  \* bound: entries written
    MaxStarts,   \* bound: starts of the server
    MaxHarm      \* bound: times somebody other than the server changes the file

ASSUME AuditLogAssumption ==
    /\ NoAuditKey \notin AuditKeys
    /\ MaxEntries \in Nat /\ MaxStarts \in Nat /\ MaxHarm \in Nat

VARIABLES
    lines,    \* the file: its entries in order
    torn,     \* its end: "no", "half" an entry, or one that is whole but "unended"
    head,     \* the sealed head: count, the last entry's id, key
    keyAt,    \* the key an opening process finds; NoAuditKey when it cannot
    server,   \* up or not, its key, and the entries it owes a seal of
    reader,   \* audit verify: its key, and the head it has read
    tally     \* history: entries written, starts, harm done, whether the server
              \* ever appended without a key, and whether an entry was swallowed

auditLogVars == <<lines, torn, head, keyAt, server, reader, tally>>

MaybeKey == AuditKeys \union {NoAuditKey}
NoId == 0
NoHead == [count |-> 0, last |-> NoId, key |-> NoAuditKey, was |-> <<>>]
Down == [up |-> FALSE, key |-> NoAuditKey, owes |-> <<>>]
NoReader == [on |-> FALSE, key |-> NoAuditKey, head |-> NoHead]

AuditLogInit ==
    /\ lines = <<>> /\ torn = "no" /\ head = NoHead
    /\ keyAt \in AuditKeys /\ server = Down /\ reader = NoReader
    /\ tally = [entries |-> 0, starts |-> 0, harm |-> 0, keyless |-> FALSE, swallowed |-> FALSE]

-----------------------------------------------------------------------------
LastId(es) == IF es = <<>> THEN NoId ELSE es[Len(es)].id
Links(es) ==
    \A i \in DOMAIN es : es[i].true /\ es[i].prev = IF i = 1 THEN NoId ELSE es[i - 1].id
Seal(es, k) == [count |-> Len(es), last |-> LastId(es), key |-> k, was |-> es]

NextEntry == [id |-> tally.entries + 1, prev |-> LastId(lines), at |-> Len(lines),
              key |-> server.key, true |-> TRUE]
MayAppend == server.up /\ server.owes = <<>> /\ torn # "half" /\ tally.entries < MaxEntries
Counted == [tally EXCEPT !.entries = @ + 1, !.keyless = @ \/ server.key = NoAuditKey]

\* main.go 666-676: a server opens the log, and Adopt seals a chain that is
\* whole and not yet sealed under its key.
StartServer ==
    /\ ~server.up /\ tally.starts < MaxStarts
    /\ server' = [up |-> TRUE, key |-> keyAt, owes |-> <<>>]
    /\ head' = IF keyAt # NoAuditKey /\ head.key # keyAt /\ torn # "half" /\ Links(lines)
               THEN Seal(lines, keyAt) ELSE head
    /\ tally' = [tally EXCEPT !.starts = @ + 1]
    /\ UNCHANGED <<lines, torn, keyAt, reader>>

\* Append reads the chain, refuses one with a line it cannot read, and writes
\* after it.  Written after an entry without its end of line, the new one is in
\* a line of which only the first entry is ever decoded.
AppendEntry ==
    /\ MayAppend
    /\ lines' = IF torn = "unended" THEN lines ELSE Append(lines, NextEntry)
    /\ torn' = "no"
    /\ server' = [server EXCEPT !.owes = IF server.key = NoAuditKey THEN <<>>
                                         ELSE Append(lines, NextEntry)]
    /\ tally' = [Counted EXCEPT !.swallowed = @ \/ torn = "unended"]
    /\ UNCHANGED <<head, keyAt, reader>>

\* The write fails, or the process dies, within the line or before its end; the
\* caller is told, and nothing is sealed.
AppendTears ==
    /\ MayAppend /\ torn = "no"
    /\ \/ torn' = "half" /\ UNCHANGED lines
       \/ torn' = "unended" /\ lines' = Append(lines, NextEntry)
    /\ server' \in {server, Down} /\ tally' = Counted
    /\ UNCHANGED <<head, keyAt, reader>>

\* writeHead replaces the head in one rename, or fails, which is only logged.
SealHead ==
    /\ server.owes # <<>> /\ server' = [server EXCEPT !.owes = <<>>]
    /\ head' \in {head, Seal(server.owes, server.key)}
    /\ UNCHANGED <<lines, torn, keyAt, reader, tally>>

StopServer == server.up /\ server' = Down /\ UNCHANGED <<lines, torn, head, keyAt, reader, tally>>

-----------------------------------------------------------------------------
\* Mutant: what is sealed is counted, and not compared.
JudgeCountsOnly(k, h, es, end) ==
    IF end = "half" THEN "cannot" ELSE
    IF ~Links(es) THEN "tampered" ELSE
    IF k = NoAuditKey THEN (IF es = <<>> THEN "intact" ELSE "cannot") ELSE
    IF \E i \in DOMAIN es : es[i].key \notin {k, NoAuditKey} THEN "cannot" ELSE
    IF h = NoHead THEN (IF es = <<>> THEN "intact" ELSE "cannot") ELSE
    IF h.key # k THEN "cannot" ELSE
    IF Len(es) < h.count THEN "tampered" ELSE
    IF \E i \in (h.count + 1) .. Len(es) : es[i].key = NoAuditKey THEN "tampered" ELSE
    "intact"

\* Verify, of the head and the entries it was given.  A mac that is not of the
\* entry's own contents, or a seq that is not its position, needs a broken link.
Judge(k, h, es, end) ==
    IF end = "half" THEN "cannot" ELSE
    IF ~Links(es) THEN "tampered" ELSE
    IF \E i \in DOMAIN es : es[i].at # i - 1 THEN "tampered" ELSE
    IF k = NoAuditKey THEN (IF es = <<>> THEN "intact" ELSE "cannot") ELSE
    IF \E i \in DOMAIN es : es[i].key \notin {k, NoAuditKey} THEN "cannot" ELSE
    IF h = NoHead THEN (IF es = <<>> THEN "intact" ELSE "cannot") ELSE
    IF h.key # k THEN "cannot" ELSE
    IF Len(es) < h.count THEN "tampered" ELSE
    IF h.count > 0 /\ es[h.count].id # h.last THEN "tampered" ELSE
    IF \E i \in (h.count + 1) .. Len(es) : es[i].key = NoAuditKey THEN "tampered" ELSE
    "intact"

\* audit verify: the key, then the head, then the entries.
ReaderOpens ==
    /\ ~reader.on /\ keyAt # NoAuditKey
    /\ reader' = [on |-> TRUE, key |-> keyAt, head |-> head]
    /\ UNCHANGED <<lines, torn, head, keyAt, server, tally>>

ReaderJudges == reader.on /\ reader' = NoReader /\ UNCHANGED <<lines, torn, head, keyAt, server, tally>>

\* The verdicts that would be given now: by the page, whose server appends only
\* when it is done, and by audit verify, of the head it has read.
PageVerdict == IF server.up /\ server.owes = <<>> THEN Judge(server.key, head, lines, torn) ELSE "none"
ReaderVerdict == IF reader.on THEN Judge(reader.key, reader.head, lines, torn) ELSE "none"

-----------------------------------------------------------------------------
\* The key is replaced, becomes unreadable, or comes back.
KeyMoves(k) == keyAt' = k /\ k # keyAt /\ UNCHANGED <<lines, torn, head, server, reader, tally>>

TrustDirLost == head' = NoHead /\ UNCHANGED <<lines, torn, keyAt, server, reader, tally>>

\* Somebody else changes the file: an older copy is put back, a half line is
\* taken out, an entry is edited.
Harmed ==
    /\ tally.harm < MaxHarm /\ tally' = [tally EXCEPT !.harm = @ + 1]
    /\ \/ \E n \in 0 .. Len(lines) : lines' = SubSeq(lines, 1, n) /\ torn' = "no"
       \/ \E i \in DOMAIN lines : lines' = [lines EXCEPT ![i].true = FALSE] /\ UNCHANGED torn
    /\ UNCHANGED <<head, keyAt, server, reader>>

AuditLogNext ==
    \/ StartServer \/ AppendEntry \/ AppendTears \/ SealHead \/ StopServer
    \/ ReaderOpens \/ ReaderJudges
    \/ (\E k \in MaybeKey : KeyMoves(k)) \/ TrustDirLost \/ Harmed

AuditLogSpec == AuditLogInit /\ [][AuditLogNext]_auditLogVars

-----------------------------------------------------------------------------
\* What the two files and the two processes hold; a server owes a seal only of
\* entries it has a key for.
LogEntries == [id : Nat \ {0}, prev : Nat, at : Nat, key : MaybeKey, true : BOOLEAN]
Heads == [count : Nat, last : Nat, key : MaybeKey, was : Seq(LogEntries)]
AuditLogTypeOK ==
    /\ lines \in Seq(LogEntries) /\ torn \in {"no", "half", "unended"}
    /\ head \in Heads /\ keyAt \in MaybeKey
    /\ server \in [up : BOOLEAN, key : MaybeKey, owes : Seq(LogEntries)]
    /\ server.owes # <<>> => server.up /\ server.key # NoAuditKey
    /\ reader \in [on : BOOLEAN, key : MaybeKey, head : Heads]
    /\ tally \in [entries : 0 .. MaxEntries, starts : 0 .. MaxStarts, harm : 0 .. MaxHarm,
                  keyless : BOOLEAN, swallowed : BOOLEAN]

\* A log that only the server wrote is never called tampered with, whatever
\* appends, crashes, torn lines, failed seals, lost heads and other keys come
\* between the two reads of a verifier (audit.go 488-514), as long as no entry
\* was written without a key or swallowed by the one before it.
HonestLogIsNotAccused ==
    tally.harm = 0 /\ ~tally.keyless /\ ~tally.swallowed
        => "tampered" \notin {PageVerdict, ReaderVerdict}

\* False: "a key that is missing, rotated or lost is could-not-verify, NOT
\* tampering" (audit.go 496-500).  A server that runs once without its key
\* appends unsigned entries past the seal; when the key is back, Verify calls
\* the first of them tampering until the next signed entry reseals the log.
KeyLossIsNotTampering ==
    tally.harm = 0 /\ ~tally.swallowed => "tampered" \notin {PageVerdict, ReaderVerdict}

\* False: a torn line "never" leads to "a tamper accusation" (audit.go 507-509).
\* One torn just before its end of line is read as whole, and swallows the next
\* entry, which the head then counts and nobody can read.
TornLineIsNotTampering ==
    tally.harm = 0 /\ ~tally.keyless => "tampered" \notin {PageVerdict, ReaderVerdict}

\* A log that a key was there to judge, and that is called intact, still holds,
\* unchanged, all that its seal was made of (audit.go 576-632).  Without a key
\* a log emptied to nothing is called intact whatever its seal says.
IntactMeansSealed ==
    /\ PageVerdict = "intact" /\ server.key # NoAuditKey
           => SubSeq(lines, 1, head.count) = head.was
    /\ ReaderVerdict = "intact" => SubSeq(lines, 1, reader.head.count) = reader.head.was

\* Both, of a log of the right types.
AuditIsTrue == AuditLogTypeOK /\ HonestLogIsNotAccused /\ IntactMeansSealed
=============================================================================
