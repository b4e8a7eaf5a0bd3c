# ytht: a verification development

ytht is a bulletin board system. Many short-lived and long-lived processes (one
telnet process per terminal, one CGI process per web request, maintenance
programs started by cron) share a few tables in System V shared memory and many
files; they are kept apart by `flock` where the code takes a lock, and by timing
assumptions where it does not. What is hard to test about it is therefore always
the same thing: an operation of one process between two steps of another.

This directory holds TLA+ models of that shared state, the TLC runs that check
them and TLAPS proofs about them. The paths below are those of the repository.

## 1. Inventory

| component | state | operations | where |
|---|---|---|---|
| session table | slots `uinfo`, free list and guest chains in `guesthash_next`, `uindex` (a user's sessions), `activeuser`, `wwwguestnum` | login, logout, release of idle sessions, kick, validation of a request, counting a user's sessions | `libythtbbs/bbsinfo.c`, `src/main.c`, `src/bcache.c`, `nju09/bbslogin.c`, `nju09/bbslogout.c`, `nju09/bbskick.c`, `nju09/BBSLIB.c` |
| user table | `.PASSWDS` (mapped by everybody), the userid hash `hash_head`/`next` with the chain of empty slots | register, kick out, delete, look up, update, rebuild at boot | `libythtbbs/user.c`, `libythtbbs/bbsinfo.c`, `local_utl/shminit.c` |
| post directories | a `.DIR` file of headers per board, mailbox and digest, and one file per article | append, change a header, delete, delete a range, search by filetime, page | `libythtbbs/article.c`, `libythtbbs/record.c`, `ythtlib/fileop.c` |
| read markers | per user a buffer of compressed lists of articles read | look up, mark, clear, store | `libythtbbs/boardrc.c`, `src/boards.c`, `nju09/boardrc.c` |
| messages | per user `msgindex`, `msgindex2`, `msgcontent`; flags of the telnet process | send, count, fetch the next unread one, clear; SIGUSR2 | `libythtbbs/msg.c`, `src/sendmsg.c`, `src/io.c`, `nju09/bbsgetmsg.c` |
| mail size | the field `mailsize` of the user record | deliver, edit, delete, recount | `libythtbbs/mail.c`, `src/mail.c`, `nju09/bbsdelmail.c`, `local_utl/bbspop3d.c`, `local_utl/fixmailsize.c` |
| board cache | `.BOARDS` copied to shared memory, club rights | reload, look up, synchronise | `src/bcache.c` |
| registration forms | `new_register` and one file per account manager | hand out, give back | `libythtbbs/regform.c`, `local_utl/back_reg.c` |
| everything else | | user interface, gateways, games, batch tools, vendored programs | see `PROJECT.json` |

How they interact. A login looks the user up in the user table, then takes a slot
of the session table; the slot keeps the user number (`uid`), and a telnet process
keeps a pointer to the user record, for as long as the session lasts. The user
table never asks the session table: kicking out or deleting a user ends no
session. Mail and many others write whole user records back (`updateuserec`).
Messages find the process to signal in the session table. The board managers'
bits of the board cache are set when a manager logs in or out.

What makes each of the main components correct, and what is hard about it:

* **Session table.** Every slot is in use or on the free list, never both; every
  anonymous web guest is on exactly the chain of its host; a user's sessions can
  be counted; a session's slot is not taken away from it. Hard: one array holds
  the links of all lists; requests, signals, kicks and `count_uindex` work without
  the lock; a logout is decided before the lock is taken; processes die.
* **User table.** A userid is in one slot and stays there; nobody who has been
  kicked out comes back; the hash finds everybody. Hard: readers follow chains
  while nodes are moved between them; copies of records are written back late;
  files are written in several steps; what protects a slot with a new owner is a
  waiting time of 23 hours.
* **Post directories.** No header is lost or doubled, a change reaches the article
  it was meant for although entry numbers move. Hard: callers hold entry numbers
  read without the lock, a failing callback, a death between the two halves of a
  deletion, `filetime` order that depends on the clock.
* **Read markers.** What has been read stays read, what has not is shown. Hard:
  lists that overflow, the bounded buffer, two sessions of one user.
* **Messages.** Every message is shown once, and eventually. Hard: signals against
  flags, two sessions of one user, a lock for reading around a write.
* **Mail size.** The counter follows the mailbox. Hard: unlocked read-modify-write,
  a short with two reserved values.

Every hazard is listed with its line in `PROJECT.json`, with the properties that
are about it, or the reason why there is none.

## 2. Plan

| component | modules | state of the work |
|---|---|---|
| session table | `Utmp`, `UtmpProofs`, `UtmpSlots` | checked, all safety properties proved |
| user table | `UserDir`, `UserTable`, `UserTableProofs`, `UserTableChains` | checked, all safety properties and the refinement proved |
| post directories | `Articles`, `DirFile`, `Board`, `BoardProofs` | checked, all invariants and the refinement proved |
| mail size | `Mailbox`, `MailboxProofs` | checked, all safety properties proved |
| messages | `Messages`, `MessagesProofs` | checked, all safety properties proved |
| read markers | `Boardrc`, `BoardrcProofs` | checked, all safety properties proved |

`UserTable` implements `UserDir`, `Board` implements `Articles`. `Board` and `Mailbox` both
stand on the locked sections of `article.c`: `Board` has what happens to the entries,
`Mailbox` what happens to the counter while the lock is held. `Messages` takes the
sessions of its user from the session table as an assumption: it logs them in and out.

Every invariant and every action property of a passing run is a theorem; the two liveness
properties (`IdleIsReclaimed`, `ReadAtLast`) stay with TLC, since neither fairness nor
`ENABLED` is within the prover's reach.

Modules left for later: `UtmpCrash` (the release of a slot taken apart, with a death
between any two stores), `UserSessions` (sessions that keep a user number), `Bcache` and
`Regform`.

## 3. The session table

### Utmp.tla

| TLA+ | code |
|---|---|
| `head`, `next` | `guesthash_head`, `guesthash_next` of `struct UTMPFILE`; 0 ends a list, slots count from 1 |
| `uinfo[s]` | `struct user_info`: `active`, `pid` (1 for a web session), `uid`, `userid`, `from`, and `kicked` for `wwwinfo.iskicked` |
| `uinfo[s].age` | `lasttime`, as the class the code distinguishes: below 18 minutes (`user_init`), below 20 minutes, above (`utmp_kickidle`) for a web session; 120 seconds and `IDLE_TIMEOUT` for a telnet session |
| `uindex` | `struct UINDEX` |
| `pc`, `kn`, `ki`, `holder` | `flock(.UTMP)` and the place of its holder in the loop of `utmp_kickidle` |
| `due` | 60 seconds have passed since `uptime` in `utmp_kickidle` |
| `proc` | a telnet process: `new`, `checked` (after `multi_user_check`), `entering` (in `utmp_login`), `online`, `leaving` (on the way to `u_exit`), `dead` |
| `req` | a web request: the slot `user_init` found for it, and whether the session it was validated against still has the slot (`live`, a history variable) |
| `todo` | entries of `uindex` that `count_uindex` has tested and not yet cleared |

Steps. The part of `utmp_login` that takes the slot is one step: everything it
touches is read by others only through the lock or through the slot it fills.
`utmp_kickidle`, with which a login ends, is a loop of steps (`KickSkip`,
`KickDecide`, `KickWalk`, `KickRelease`, `Unlock`), because requests, kicks, signals
and `count_uindex` run beside it. `count_uindex` is two steps, the test and the
clearing of each entry, when it is called without the lock, and a part of the login
when `wwwlogin` calls it. `bbslogout_main` is three: the request is accepted, the
sessions are counted, the slot is released under the lock. `Die` may happen to a
telnet process, and `CgiDie` to the holder of the lock, between any two of these steps.
`FreeSlot`, the release itself, is one step: a death inside it is a hazard listed
as not covered.

`OrderlySpec` leaves out two things the code does not prevent: the death of a
lock's holder in the middle of `utmp_kickidle`, and a logout that takes the lock
after its own session's slot has been released. What holds only there is what the
code relies on without enforcing it. (`Spec` has both: there a user who sends the logout
twice can release the slot of whoever logged in between, because `bbslogout_main` tests
only that the slot is active.)

### Runs

| run | instance | result |
|---|---|---|
| `web` | 2 slots, a user and guests, two requests, no telnet | `FreeListExact`, `ActiveUserExact`: whatever order requests, kicks, releases and stale logouts come in, the free list holds exactly the inactive slots and `activeuser` counts the others |
| `telnet` | 3 slots of which 2 may be used, two telnet processes, web logins of the same user | `FreeListExact`, `UIndexSound` with deaths anywhere between steps and unlocked clearing: no entry of `uindex` ever names a slot of somebody else, or a slot twice |
| `orderly` | 2 slots, one telnet process, one request, guests whose real and masked addresses hash to different chains, `FairSpec` | `TelnetKeepsSlot`: a live telnet process keeps its slot; `GuestChainsExact`; `NoAcceptWhileFreed`: the 18 and 20 minute limits keep `user_init` and `utmp_kickidle` apart; `IdleIsReclaimed`: idle web sessions are released |

Two slots are enough for a slot to be released and given out again while another one
is on the free list, and for a list to have a middle; three for a slot above
`MAXACTIVERUN`. Two requests (or
two telnet processes) are the smallest number that can race for one slot; a row of
`uindex` of two entries can be full. `USHRT_MAX` is as small as the assumption allows,
so that one decrement too many would wrap. Requests are interchangeable (symmetry) in the
safety run that uses it. Deadlock is not checked: when a guest logs in while its chain
loops (`Looping`, `pc = "hung"`) the lock is held for good, and with telnet processes
only, all may have died.

Fairness of `FairSpec`: `Kickidle`, because the holder of the lock is a running
process; `Minute`, because the clock runs; and `Arrival`, that visitors keep coming, which
is an assumption about the world that the code itself makes: nothing but a login
calls `utmp_kickidle`. There is no fairness for telnet processes, requests or kicks.

Three things seen while modelling that no run asks about, because nothing in the
repository says otherwise: `count_uindex` can clear an entry that `add_uindex` has reused,
so a session that is on line may be in no entry; `utmp_login` fails before it gets to
`utmp_kickidle`, so a table full of idle sessions does not recover by itself; and the double
logout above.

### Proofs

`UtmpProofs` proves `TypeCorrect`. `TypeInv` adds to `TypeOK` what the handles rely on
(`Control`): a slot `utmp_kickidle` has decided to free is still active (`KnOK`), a process
past `utmp_login` and a request that has not ended have a slot (`HandlesOK`), and a
telnet process that holds the lock is in `u_enter` (`HolderOK`).

Then it proves what the table is audited for. The first lemma of this part, `TableStep`, says that
every step of `Next` does one of three things: it takes the head of the free list
(`LoginStep`), it gives an active slot back (`FreeStep`), or it leaves the sessions where
they are and touches links of active slots at most (`QuietStep`). Each invariant is
then proved for the three kinds:

* `FreeListCorrect`. `FreeListExact` is not inductive as it stands: it speaks of
  reachability, and says nothing of what follows an inactive slot. `FreeList` adds that the
  links of inactive slots lead to inactive slots (`FreeOnly`), never to the head and never
  two of them to one slot (`FreeOnce`), and that the head reaches all of them (`FreeAll`).
* `ActiveUserCorrect`: the counter changes by one exactly when the set of active slots
  does.
* `UIndexCorrect`: an entry is only ever set to a slot that is being filled for that
  user, removed when the slot is freed, or cleared; clearing late can only lose an entry.

All of them are for every number of slots, users, processes, requests and hosts that
satisfies `ConstantsAssumption`, and for `Spec`, with deaths and stale logouts.

`UtmpSlots` proves what the code relies on and does not enforce. Its theorems are
about two narrower specifications, which leave out what the code has no defence
against (see "Steps" above):

* `LiveSpec` is `Next` without `StaleLogout`: no logout arrives for a session whose slot
  was released. Whoever holds the lock may still die at any step.
* `OrderlySpec`, which the run `orderly` checks, leaves out deaths of the holder too.

`SlotsHeld` ties every remembered slot number to the record it names: a telnet process and
a live request point at an active slot with their own process number and user, and
what `utmp_kickidle` is about to free is a web session or belongs to a dead process. It is
inductive for `LiveSpec`, because a step that starts no session either leaves sessions and
names alone (`HoldersKept`, `HoldersStay`), frees one slot (`FreeHeld`) or fills one
(`LoginHeld`). From it:

* `TelnetSlotsCorrect` (and `TelnetOrderly`, the same for the run's specification): a
  telnet process never loses its slot while it uses it.
* `GuestChainsCorrect`, for `OrderlySpec`. A chain, like the free list, is described by
  `IsList`: the links stay within the set, no two lead to one slot, and the head reaches
  all of it. `ListPush`, `ListPop`, `ListUnlink` and `ListReach` are the facts about
  lists the proof needs, for any functions and sets. During `utmp_kickidle` the slot being
  freed is counted and no longer on its chain (`Chain`); what makes the walk to its
  predecessor end is `WalkOK`: the slot looked for is still ahead of the cursor.
* `AcceptCorrect`, for `LiveSpec`: a request that found its session in order is never
  told so while `utmp_kickidle` has decided to free that slot. `IdleStays` is the invariant:
  a slot that was decided on keeps the mark or the age it was decided for.

Model-checked only: `IdleIsReclaimed`; liveness is outside what the prover does.

## 4. The user table

### UserDir.tla and UserTable.tla

`UserDir` is what the rest of the system takes for granted: a userid has a slot and a
registration, keeps both until it is buried, and is buried only after it was kicked
out. `UserTable` is the code.

| TLA+ | code |
|---|---|
| `rec[i]` | `passwdptr[i-1]`: `userid`, `kickout`, and `reg`, a number for the fields set once at registration (`firstlogin`, `salt`) |
| `rec[i].kickout` | 0; 1: less than 23 hours ago; 2: more |
| `head[0]`, `next`, `empties` | the chain of empty slots; `empties` is `next[0]` |
| `head[h]`, `h > 0` | the chain of the userids that hash to `h` |
| `lock` | `flock(.PASSWDS.lock)` |
| `act[p]` | what process p is doing: a walk along a chain (`at` is the node it stands on), a locked operation between two of its steps, or a copy of a record it holds |

`insertuserec` is `InsTake`, `InsWrite`, `InsLink` (or `InsAbort`), `deluserec` is `DelUnlink`,
`DelWrite`, `DelLink` (or `DelAbort`): under the lock, but visible step by step to the
lookups, which are one action per node. `kickoutuserec` and `updateuserec` look up,
then write what they have copied. `Day` moves every kickout past the 23 hours. A call of
`user.c` is assumed not to last that long; a copy of a record may be held for any
time (`x_info` holds one while the user answers questions). `PromptSpec` adds that a copy is
used within 23 hours, `FaultySpec` adds failed writes and deaths. `Boot` is a restart of
the machine: `shminit` builds the hash from the file, or refuses.

### Runs

| run | instance | result |
|---|---|---|
| `user_calls` | 3 slots, 3 userids on one chain, 3 processes, 2 registrations, `PromptSpec` | between locked sections the chains hold exactly what they should (`ChainsExact`), the count of empty slots is right (`UsersumExact`), no userid is there twice (`CanBoot`), and the table implements `UserDir` |
| `user_faults` | 2 processes, `FaultySpec` | `ListedOnce`, `StaysKickedOut` whatever fails |

One chain for all userids is the worst case for lookups and lets two of them share nodes.
Two registrations (`MaxRegs`, the only bound that the code does not have) suffice for a
slot to be emptied and given to somebody else, or to the same name again; three slots
for SYSOP, a user and an empty one to move between chains. Processes are interchangeable
(symmetry) in `user_calls`. Deadlock is not checked: when the registrations are used up a
process inside `insertuserec` may be left holding the lock.

Two things no run asks about: `finduseridhash` follows `next` without the lock, so a lookup
can be carried off to the chain of empty slots by a deletion and miss a user who is
registered; and a death between the write of a record and its link lets the name be
registered a second time, after which `load_ucache` gives up at the next boot.

Two limits of the passing runs are facts about the code as well. `UsersumExact` is checked
without faults, because `insertuserec` does not put the slot back when `write` fails, as
it does on its other error paths. `ImplementsDir` needs `PromptSpec`, because
`updateuserec` compares the userid only: a copy held for longer can overwrite the record
of a new user of the same name in the same slot.

### Proofs

`UserTableProofs` proves for every instance, with every fault:

* `TypeCorrect`: also for a lookup that stands on a node which has left its chain, and
  for the chains `load_ucache` builds (`LoadedTyped`).
* `KickedStaysKicked`: `StaysKickedOut` is an action property, and needs `IInv` to hold
  before the step. `IInv` says that at most one process is inside a locked operation
  (`Mutex`), and what each process knows about the slot it works on (`Knows`): the slot
  `insertuserec` has taken is empty, and an empty record is not kicked out
  (`EmptyNotKicked`); the slot `deluserec` is emptying was kicked out more than 23 hours
  ago; the slot `kickoutuserec` or `updateuserec` is about to write to was not, and still
  has the userid of the copy. The last two are what keeps the unlocked writes off a slot
  that is being emptied, and they last because `Day` does not pass while a call runs.

`UserTableChains` proves the rest. A chain is reachability, so it is reasoned about as the
least set that has the head and is closed under `next`: two lemmas say what such a set is
after a slot is put in front of a chain, and after one is taken out of it. Three
invariants build on each other:

* `ListInv`, with every fault: every chain is a line without a loop, and no two share a
  slot (`Shape`); a linked record hashes to the chain it is on (`HashedOnly`), and no
  other on it has its userid (`OnceOn`); the slot a process has taken out is on no chain
  (`HandOff`), holds the userid it is there for (`Named`), and no linked slot does
  (`Alone`). `OnceOn` gives `FoundInOneSlot`; it is not inductive without the others,
  since linking a slot must not take a second chain along with it, or add a name
  that came in meanwhile.
* `ExactInv`, without faults: every slot that nobody has in hand is linked exactly
  once, on the chain of its record (`Listed`, `Emptied`), userids are unique in the file
  and not on the chains only (`Unique`), and `usersum` counts (`Counted`). This gives
  `ChainsPartition`, `UsersCounted` and `AlwaysBoots`. The faults break it, as the
  second of the two things above says.
* `CopyInv`, under `PromptSpec`: a copy of a record about to be written back is a
  copy of the user who is still there. With it every step is one of `UserDir`, or
  none: `Refinement`. `PromptSpec => Spec` is a lemma, so that the first two apply.

All of it is for every number of slots, users and processes and every hash function.

## 5. Post directories

### DirFile.tla, Articles.tla and Board.tla

`DirFile` has the operators: a `.DIR` as a sequence of headers, `Search_Bin` as a recursive
function over its probes (`Probe`), what is left when some entries go (`Kept`), and the entry each caller ends up with (`ChangePos` for
`change_dir`, `DeletePos` for `delete_dir_callback`). `Articles` is the promise: an article is
listed once, from its posting until somebody has asked for its deletion. `Board` is the code.

| TLA+ | code |
|---|---|
| `dir` | the file; a header is an article, its filetime (its name) and the bits of `accessed` |
| `busy` | the holder of `flock(.DIR)` in the middle of `memmove`, and the record it has come to |
| `post[a]` | how far the author of a is: `trycreatefile`, the text, the second name (`link`), `append_record` |
| `held[s]` | the entry number and header a telnet session has on its screen, or a web request has looked up |
| `asked`, `marks`, `died` | history: what was asked to be deleted, the flags last written for an article, a death in the middle of a deletion |

One locked section is one action, except a deletion, which moves one record at a time
and may end in `Die` anywhere. A name is the first free second from some time on; as the
clock runs between steps and may be set back, names are appended out of order. Names
of deleted articles stay taken, since their files are renamed to names that cannot be
given out, or removed long after.

| run | instance | result |
|---|---|---|
| `board` | three articles (one typed on a terminal by a quoter, and edited from the web), a session that marks and deletes, deaths | `DoublesAreNeighbours`, `HeldIsReached`, `MarksKept`; the directory implements `Articles` |
| `board_web` | the same with `bbsdel` | violated: `OnlyNamedIsDeleted` |

Three articles are enough for an entry to move under a session's number, for two to be
out of order and a third beside them, and for a deletion to have a middle. `ByNameSpec`
leaves out `bbsdel`, which alone deletes by number: `bbsdel_main` looks the article up
without the lock and calls `delete_file` with the number and no check (finding). A range is
deleted in one step; `delete_range` really cuts the file before it writes back what stays, and a
death in between loses what is behind (a hazard without a property, as nothing in the
repository promises better).

`BoardProofs` proves for every number of articles, sessions and writers:

* `TypeCorrect`, `DoublesCorrect`, `HeldCorrect`, `MarksCorrect`: the invariants of the run,
  under `Spec`, with `bbsdel`, deaths, and a clock that is set back.
* `Refinement`: `ByNameSpec` implements `Articles`.

The invariant `IInv` adds to the types (`TypeInv`) that no two articles have one name
(`NamesInv`), that whatever is listed, held or asked for has been posted and goes by its
name (`PostedInv`), that the entries of one article lie side by side, and that before the
first death there are two only where a deletion is moving records (`DoublesInv`), that an
article held on a screen is at the number it was seen at or below (`BelowInv`), and that
the flags in the file are those last written (`MarksKept`). Without the place of the
pair, that it stays one of neighbours is not inductive: `memmove` moves it. What `Search_Bin` returns, and that `Kept` keeps what it
should in the order it was, are lemmas over sequences of any length; the theorems of the
library for induction cannot be instantiated, so each takes the least length at which it
would fail (a set of numbers that is not empty has a least member) and shows there is none.
For the refinement, the entry being removed is one somebody has asked to delete, or one of
a pair (`BusyAsked`); that is where `bbsdel`, which deletes by number alone, has to be left out.

Left out: digest and thread directories, `KEEP_DELETED_HEADER`, `cancelpost`'s copy in
the trash, `delete_record` (friend lists, votes), the other fields of a header.

## 6. Mail size

`Mailbox` has one user's mailbox and the counter `mailsize`, in kilobytes of 2 units.
`box[m]` is the size of a mail in `.DIR`; `op[a]` is a process in a locked section, with
the mails it has and has not yet counted; -1 is "too large" and -2 "to be counted again", as in
`mail.c`. The lock belongs to an open file, and `get_mailsize`, which counts again
under a lock of its own, waits for ever when its caller has the lock already: `Hang`.

| run | instance | result |
|---|---|---|
| `mailbox` | three mails, one of them the system's, quota of 2, `SHRT_MAX` 3; a session, a POP3 session, one edit, one `fixmailsize -f`, one death | `CounterClose`, `NoSelfWait`, `QuotaKept` |
| `mail_pop3` | the same | violated: `OnlyDeleLeaves` |

`CounterClose` states by how much the counter may be wrong: what a process that died
between counter and file had in hand, a kilobyte for every edit, because
`DIR_do_editmail` rounds the difference of two sizes, and for an edit that takes the counter
past `SHRT_MAX`, where it is cut off, what was cut off. The last one was
found by looking for an inductive invariant: an edit that grows a mail by more than the counter
can hold leaves it short without any sign of it, which the edit sizes of the run are chosen to
reach. A mailbox that has been larger than `SHRT_MAX` is excepted (`over`):
`update_mailsize_down` then subtracts from the -1 still stored. `NoSelfWait` shows what the calls of `get_mailsize` in front of every locked section
are for, and that only `fixmailsize` gets between. The finding: `do_delete` tests
`!accessed & FH_DIGEST`, which is 0, so that QUIT deletes all messages but the marked ones.

`MailboxProofs` proves `TypeCorrect`, `CounterCorrect`, `WaitsExcused` (`NoSelfWait`) and
`QuotaCorrect` for every set of mails, sizes, unit and quota. The inductive
invariant `Safe` puts beside `CounterClose` who has the lock and what the holder has in
hand (`Held`, `SendersInv`, `DeletersInv`), the range of the counter (`Ranged`), that the
counter is already what `.DIR` is going to be when the locked section ends (`Ahead`), that what has been let in
fits the quota (`Fits`), and that a process between `get_mailsize` and the end of its
locked section finds a counter that need not be counted again, unless `fixmailsize`
has been there since (`Warned`). Sums over
mails are sizes of sets of kilobytes (`Kilobytes`), so that the arithmetic rests
on the cardinality of disjoint unions, and one lemma (`WholeClose`) says that a difference of
sizes, rounded, is less than a kilobyte away from the difference of the rounded sizes.

Left out: other writers of the user record (with them there is no bound), users
without a limit, mails whose size byte is 0, forwarding.

## 7. Messages

`Messages` has the three files of one user, the senders, telnet and web sessions that
read, `clear_msg`, and `SIGUSR2` with everything that looks at it.

| TLA+ | code |
|---|---|
| `gen` | which file each of the names `msgindex`, `msgindex2`, `msgcontent` stands for; `clear_msg` unlinks them one by one, and open descriptors keep the old one |
| `index2`, `content` | the heads with the count of those read, and the texts by position |
| `out[m]` | the sender of m in `sendmsgfunc` and `save_msgtext`, with the files it has open |
| `rd[a]` | a session in `get_unreadmsg` and `load_msghead`/`load_msgtext` |
| `sess[t].at` | where a telnet session is in `igetch` and `switchSIGUSR2`; `by` who called `r_msg` |
| `sess[t].canProcess, occurred, blocked, unread` | `canProcessSIGUSR2`, `occurredSIGUSR2`, `ismsgblocked`, `have_msg_unread` |
| `does`, `look`, `mode` | the editor or the locked screen (`block_msg`), `r_msg2`, and `uinfo.mode` as MSG or not |

| run | instance | result |
|---|---|---|
| `msg_files` | a message and a broadcast, a telnet session and a page, one `clear_msg` | `NoneSkipped`, `OwnText` |
| `msg_signals` | the same senders, one telnet session, two commands; `FairSpec` | `NotForgotten`, and as liveness `ReadAtLast` |

`get_unreadmsg` holds a lock for reading around a write, so two sessions may take the
same message, and one may put the count back; no head is skipped all the same. `OwnText`
holds unless `clear_msg` ran between the two halves of a write or a reading (`overlap`).
`NotForgotten` and `ReadAtLast` except the four ways in which the code drops a signal: a
wait in the mode MSG outside `r_msg` and `r_msg2`; a signal in the last moment of
`switchSIGUSR2`; messages that stay blocked because `r_msg2` found none, or because the
editor could not open its file. In each of them the message is still in the file and
counted as unread, but the session is not told before the next one.

Two messages are enough for a write to overlap another, a second telnet login is not
needed for two readers (the page is one). Fairness: senders, sessions inside `r_msg` and
`igetch` and a `clear_msg` under way are running processes (weak); the kernel delivers a
pending signal whenever it is not blocked for good, and a user who has begun something
ends it (strong, since nested readings may interrupt both). Nothing has to be begun.

`MessagesProofs` proves all invariants of the two runs for any number of messages,
sessions and calls of `clear_msg`; see section 9. `ReadAtLast` is model-checked only.

Left out: `unreadmsg` of the web sessions, which senders and pages change without a lock
(a page may or may not look), the friend and mode tests of `canmsg` (any outcome), and the
process number in a slot that has changed hands since (`Leave` withdraws the signal).

## 8. Read markers

`Boardrc` has the list of one board and its operators (`Locate`, `Insert`, `SetTo`,
`Shorter`: `brc_locate`, `brc_insert`, `brc_set`, `shorter_brc`), the file of all lists with
`PutBlock` for `brc_putblock`, and telnet and web sessions of one user that each work on
copies. `ReadTimes` is the reference: the set of articles a list says are read. Blocks are
measured in units, one and one per time, against `MaxSize` for `maxsize`.

A save is three steps: the temporary file, whose name all sessions share, is opened, written
and renamed. `sess[s].fd` says whether the descriptor still is the temporary file, or has
become the user's file because another session renamed it. `stale`, `old` and `mixed` are
history variables: what other sessions have saved since this one loaded the file, whose
list has been overtaken, and whether two have shared the temporary file.

Run `boardrc`: two boards and the settings (`#INFO`) in a file with room for five units,
lists of two times, a telnet and a web session that read three articles and visit three
boards in all. `ReadExact`: reading marks an article and no other, from wherever the
cursor is, except that a full list forgets where older gaps were. `SavedAsRead`: the
shortened list says the same. `ReadMarksKept` and `InfoKept`: a save takes nothing out of the file
but where the session worked on an overtaken copy, the temporary file was shared, or there was
no room. With five units two full lists do not fit, which is what makes blocks fall
out; with two times a list is full after one article. Boards are interchangeable
(symmetry). That exceptions are needed is what the code does: nothing is locked.

`BoardrcProofs` proves all five properties of the run under `Spec`, for every set of boards,
times and sessions, every `BRC_MAXNUM` and every `MaxSize`:

* `TypeCorrect`: `Spec => []TypeOK`;
* `ReadRight`: `Spec => ReadExact`;
* `SavesSay`: `Spec => SavedAsRead`;
* `MarksKept`: `Spec => ReadMarksKept`;
* `SettingsKept`: `Spec => InfoKept`.

The only assumption is `BoardrcAssumption`: article times are larger than 1, the value
`brc_getblock` gives to a board without a block; a full list fits into the file; the bounds
are numbers, and `#INFO` is not a board.

The lists first. `Located` says what `brc_locate` returns from any cursor on any
list that falls, and `Says(l, t)` that a list makes t read, without a search (`ReadIsSaid`,
`UnreadIsNotSaid`). `InsertRight`, `SetToRight` and `ShorterRight` are then what
`brc_insert`, `brc_set` and `shorter_brc` do to the set of times said. `SizeOf` and `Copy` are
recursive functions, and the induction theorems of the library cannot be instantiated;
`NatSet` is induction for a set of numbers, `Recursion` says that a function given by such
an equation exists and satisfies it, and `SizeConcat` and `CopyRight` follow. A file is a
sequence of blocks with sorted lists that fits into `MaxSize` (`IsFile`), and `PutFile` says
that `brc_putblock` keeps it one.

`TypeInv` is inductive: beside the types it has for each session that its list is sorted
and empty only without a board, that nothing is changed while it goes to another one, that
the descriptor is open exactly from the open to the rename, and that what it saves is in
its copy (`Works`, `Good`). With it `ReadExact` and `SavedAsRead` are about one step each.

`ReadMarksKept` and `InfoKept` are about what a session loaded long before it saves, and need
`MarksInv`. As long as no two sessions have shared the temporary file (`mixed`), every file
and copy has at most one block for a name and the settings first (`Clean`); the temporary file
belongs to the one session that saves and holds nothing or its copy (`OneTmp`); and a
session's copy says what the file says, but of boards others have saved since
(`Fresh`), while it saves but of its own board and of boards for which there was no
room (`Puts`), and the file knows no more of its board than its list, unless another session
has saved that board (`Knows`). `ReadMarksKept` measures room by the
size of the file, the code by that of the copy; `SameSize` closes the gap: two clean files
that say the same of every board are equally long, in whatever order their blocks are. TLC checked
`TypeInv` and `MarksInv` on the instance of the run before they were proved.

Left out: the time the notes were last shown, the bytes of the compression, the clash of
board names that agree in 14 letters, guests, the conversion of old files. A block that
does not fit ends the copying, also of smaller ones behind it; this is in the model.

## 9. Proofs about messages, and what is not modelled

`MessagesProofs` proves four theorems of `Spec`, for every number of messages, telnet
sessions, pages, calls of `clear_msg`, and for every `MAXMESSAGE`:

* `NothingSkipped`: `Spec => []NoneSkipped`;
* `TextsMatch`: `Spec => []OwnText`;
* `NeverForgotten`: `Spec => []NotForgotten`;
* `TypeCorrect`: `Spec => []TypeOK`.

The inductive invariant of the first two, `IInv`, has three parts. `TypeInv` has, beside types, the file each of
the three names stands for (`GensOK`): that of the last `clear_msg`, but for the names it
has not come to yet. `TakenInv` strengthens `NoneSkipped` by what a session is about to
write: all heads before the one in its hand have been taken, so that writing an older
count back does no harm. `TextInv` says, unless `clear_msg` got between (`overlap`), that
every head's position holds its own text (`HeadsOK`), that a sender writes where it has
measured, because it is the only one with the lock (`SenderOK`), and that a reader's head is
one of today's file (`ReaderOK`). Neither of the two properties is inductive without the parts
about senders and readers under way. Most actions, all those about signals and flags among
them, touch no file: `QuietKeeps` deals with them at once, given `QuietStep`, and each of
the others has a lemma of its own. The only assumption is `MessagesAssumption` (bounds are
natural numbers; telnet sessions are not pages; `Nobody` is neither a message nor one
of them).

`NotForgotten` is about one moment, the wait for a key. Its invariant `AwareInv` is about all
of them: a session that has been told of a message still unread has the signal
pending, or a note of it, or is in `r_msg` or `r_msg2`, or has dropped it (`Known`); and near
the end of `switchSIGUSR2`, where `occurredSIGUSR2` is about to be cleared, the note is not
that one (`Noted`). Without `Noted` the step `SwitchEnd` could clear the only note. That the
sessions are told by `Signal` and nothing else (`OnlySignalsTell`) needs the first
invariant: a file that `clear_msg` brings into use is empty (`Later`), and a head that is
appended belongs to a sender that has not signalled. Every step of a session is then shown to
be one from its record to another that knows (`Moved`). `TypeCorrect` needs `CountInv` beside
it: the number a session writes back is one of a head that was there when it read it.
`ReadAtLast`, as liveness, is model-checked only.

Not modelled, in the session table: the board managers' bits (`setbmstatus`, `bmonlinesync`), the
statistics `maxuser` and `maxtoday`, the message and chat fields of a slot, and the
memory the compiler or the processor may reorder (every store is a step in program
order). In the user table: the other fields of a record, so also lost updates between two
holders of copies; friend lists; `fixuhash`, which rebuilds the hash while lookups run;
sessions that outlive their user. The other components are listed in section 1 and in
`PROJECT.json` with the reason.

## 10. Reading the modules

`X.tla` is the model of a component, `MCX.tla` gives its constants values for TLC, `X_run.cfg`
is a run, `XProofs.tla` (and `UtmpSlots.tla`, `UserTableChains.tla`) hold the theorems. Definitions named `...Slip`
are deliberate mistakes: each is its neighbour as it would be after a plausible slip in
the code, listed under "mutants", and shows that a run would notice that slip.

    tlc -config Utmp_web.cfg MCUtmp
    tlapm UtmpProofs.tla
