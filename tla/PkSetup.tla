------------------------------- MODULE PkSetup -------------------------------
(***************************************************************************)
(* Setting libpagekite up, and taking it down: the initialisers of         *)
(* pagekite.c, the relays they and the application look up, the names of   *)
(* the certificates the relays may have (pkstate.c), and the order in      *)
(* which contrib/backends/pagekitec.c goes about it.                       *)
(*                                                                         *)
(* All of it happens on the application's thread before the event loop     *)
(* runs.  What a resolver answers is an input.  Ports are left out: two    *)
(* relays at one address are one relay whatever their ports (addrcmp).     *)
(***************************************************************************)
EXTENDS Integers, FiniteSets, SequencesExt

CONSTANTS
  Ipv4,        \* the IPv4 addresses a resolver may answer with
  Ipv6,        \* the IPv6 addresses
  NoAddress,   \* the address of a placeholder
  Tld,         \* the domain of a white label
  NoTld,       \* no white label
  OwnName,     \* another name, a kite's, which may resolve to relays
  RelayMax,    \* tunnel_max
  FlagSets,    \* the flags the application may call with
  SetupCalls,  \* calls the application makes: bounds the runs only
  Merged       \* equal string literals of two object files are one

Net   == "net"    \* PAGEKITE_NET_CERT_NAMES[0], and the service's domain
Flags == {"defaults", "ipv4", "ipv6", "service", "noservice", "dynamic", "sni"}

ASSUME SetupSizes ==
  /\ RelayMax \in Nat \ {0} /\ SetupCalls \in Nat /\ Merged \in BOOLEAN
  /\ FlagSets \subseteq SUBSET Flags
  /\ NoAddress \notin Ipv4 \cup Ipv6 /\ Ipv4 \cap Ipv6 = {} /\ Tld # NoTld

VARIABLE setup  \* pk_state, the manager and the history of the calls, a record:
                \*   up       there is a manager
                \*   use4/6   pk_state.use_ipv4 and use_ipv6
                \*   relays   the tunnels in use: name and address
                \*   names    the certificate names
                \*   at       where their list is: "null", "static" or "heap"
                \*   lists    heap lists that have not been freed
                \*   badFree  something static has been freed
                \*   asked    the manager was made to have relays looked up
                \*   calls    calls so far

setupVars == <<setup>>

\* PK_DEFAULT_FLAGS, as every entry point adds them.
WithDefaults(flags) ==
  IF flags = {} \/ "defaults" \in flags
  THEN flags \cup {"ipv4", "ipv6", "dynamic"} ELSE flags

Down == [up |-> FALSE, use4 |-> TRUE, use6 |-> TRUE, relays |-> <<>>,
         names |-> <<>>, at |-> "null", lists |-> 0, badFree |-> FALSE,
         asked |-> FALSE, calls |-> 0]

SetupInit == setup = Down

\* What Do makes of the state s, which is worked out once.
After(s, Do(_)) == CHOOSE r \in {Do(t) : t \in {s}} : TRUE
-----------------------------------------------------------------------------
(* The names of certificates. *)

\* pks_free_ssl_cert_names: the service's own list, known by its first string,
\* is not freed.  pkstate.c and pagekite.c each have their own copy of it.
FreeNames(s) ==
  [s EXCEPT !.names = <<>>, !.at = "null",
            !.lists = IF s.at = "heap" THEN @ - 1 ELSE @,
            !.badFree = @ \/ (s.at = "static" /\ ~Merged)]

\* Seeded bug: the old list is replaced and not freed.
AddNamesLeaking(s, new) ==
  [s EXCEPT !.names = @ \o new, !.at = "heap", !.lists = @ + 1]

\* pks_add_ssl_cert_names: a new list, of copies of the old names and the new.
AddNames(s, new) ==
  IF s.names \o new = <<>> THEN FreeNames(s)
  ELSE [FreeNames(s) EXCEPT !.names = s.names \o new, !.at = "heap", !.lists = @ + 1]

\* The names pagekite_add_service_frontends leaves.
ServiceNames(s) ==
  IF s.at = "null" THEN [s EXCEPT !.names = <<Net>>, !.at = "static"]
  ELSE AddNames(s, <<Net>>)
-----------------------------------------------------------------------------
(* The table of relays. *)

\* Seeded bug: only the last relay is compared.
KnownLast(relays, address) ==
  address # NoAddress /\ relays # <<>> /\ Last(relays).address = address

\* The scan of pkm_add_frontend_ai, with addrcmp: placeholders equal nothing.
Known(relays, address) ==
  address # NoAddress /\ \E i \in DOMAIN relays : relays[i].address = address

\* pkm_add_frontend_ai and copy_addrinfo_data
AddRelay(relays, name, address) ==
  IF Known(relays, address) \/ Len(relays) = RelayMax THEN relays
  ELSE Append(relays, [name |-> name, address |-> address])

\* The addresses of an answer, those of a kind that is in use.
AddAnswer(s, name, answer) ==
  LET used(a) == (a \in Ipv4 => s.use4) /\ (a \in Ipv6 => s.use6)
  IN  FoldLeft(LAMBDA r, a : AddRelay(r, name, a), s.relays, SelectSeq(answer, used))

\* pkm_lookup_and_add_frontend: with nothing added - no answer, no address of a
\* kind that is in use, no room, or none that is new - a placeholder is.
Lookup(s, name, answer, placeholder) ==
  LET found == AddAnswer(s, name, answer)
  IN  [s EXCEPT !.relays = IF found = s.relays /\ placeholder
                           THEN AddRelay(found, name, NoAddress) ELSE found]

\* The two lookups of a domain's relays, as flags ask for them.
LookupBoth(s, domain, flags, answers) ==
  LET dynamic == "dynamic" \in flags
  IN  After(IF "ipv4" \in flags THEN Lookup(s, domain, answers.four, dynamic) ELSE s,
            LAMBDA four : IF "ipv6" \in flags
                          THEN Lookup(four, domain, answers.six, dynamic) ELSE four)

\* pagekite_add_service_frontends.  It fails (ERR_NO_FRONTENDS) if nothing was
\* added, but keeps the names.
AddService(s, flags, answers) ==
  After(LookupBoth(s, Net, WithDefaults(flags), answers), ServiceNames)

\* pagekite_add_whitelabel_frontends
AddWhitelabel(s, flags, tld, answers) ==
  IF tld = NoTld THEN AddService(s, flags, answers)
  ELSE LookupBoth(s, tld, WithDefaults(flags), answers)

\* pagekite_free and pkm_manager_free
FreeManager(s) ==
  [FreeNames(s) EXCEPT !.up = FALSE, !.relays = <<>>, !.asked = FALSE]

\* Seeded bug: the manager without relays is returned.
OrFreeNot(before, after) == [after EXCEPT !.asked = TRUE]

\* What an initialiser does with relays that were looked up: if there was
\* nothing to add, the manager is freed again.
OrFree(before, after) ==
  After(after, LAMBDA s : IF s.relays = before.relays THEN FreeManager(s)
                          ELSE [s EXCEPT !.asked = TRUE])
-----------------------------------------------------------------------------
(* The initialisers.  With no manager they return NULL. *)

\* pagekite_init; pks_global_init and pkm_manager_init give it a new state.
Initialise(s, flags, answers) ==
  LET f == WithDefaults(flags)
  IN  After([Down EXCEPT !.up = TRUE, !.use4 = "ipv4" \in f, !.use6 = "ipv6" \in f,
                         !.lists = s.lists, !.badFree = s.badFree, !.calls = s.calls],
            LAMBDA new : IF "service" \in f THEN OrFree(new, AddService(new, f, answers))
                         ELSE new)

\* pagekite_init_pagekitenet
InitPagekiteNet(s, flags, answers) ==
  LET f == WithDefaults(flags)
  IN  After(Initialise(s, f, answers),
            LAMBDA new : IF new.up /\ f \cap {"service", "noservice"} = {}
                         THEN OrFree(new, AddService(new, f, answers)) ELSE new)

\* pagekite_init_whitelabel: its relays may have the white label's certificate,
\* or, unless the names are to be asked for (SNI), the service's.
InitWhitelabel(s, flags, tld, answers) ==
  LET f        == WithDefaults(flags)
      new      == Initialise(s, (f \ {"service"}) \cup {"noservice"}, answers)
      own(t)   == IF tld = NoTld THEN t ELSE AddNames(t, <<tld>>)
      named(t) == IF tld # NoTld /\ "sni" \in f THEN t ELSE AddNames(t, <<Net>>)
  IN  After(After(After(new, own), named),
            LAMBDA t : IF "noservice" \in f THEN t
                       ELSE OrFree(t, AddWhitelabel(t, f, tld, answers)))

\* The options of pagekitec that matter here: -4, -6, -N, -w, -S, -F and -C.
Options == [flags : {{"noservice"} \cup f : f \in SUBSET {"ipv4", "ipv6", "dynamic"}},
            tld : {Tld, NoTld}, service : BOOLEAN, frontend : BOOLEAN, current : BOOLEAN]

\* main() of pagekitec.c up to pagekite_thread_start: the manager, the kites and
\* the relays their names resolve to, and the other relays, by hand.
Pagekitec(s, opt, answers) ==
  LET new      == IF opt.tld # NoTld THEN InitWhitelabel(s, opt.flags, opt.tld, answers)
                  ELSE Initialise(s, opt.flags, answers)
      kites(t) == IF opt.current THEN Lookup(t, OwnName, answers.own, FALSE) ELSE t
      relays(t) ==
        CASE opt.frontend -> Lookup(t, "-F", answers.six, "dynamic" \in opt.flags)
          [] ~opt.frontend /\ opt.tld # NoTld ->
               OrFree(t, AddWhitelabel(t, opt.flags, opt.tld, answers))
          [] ~opt.frontend /\ opt.tld = NoTld /\ opt.service ->
               OrFree(t, AddService(t, opt.flags, answers))
          [] OTHER -> t
  IN  After(After(new, kites), relays)
-----------------------------------------------------------------------------
(* The calls. *)

\* What the resolvers answer during one call, which asks for one domain's relays:
\* a service keeps its IPv4 and its IPv6 relays under different names, and a
\* kite's name resolves to wherever it flies.
Resolved ==
  LET some(set) == {<<>>} \cup {<<x>> : x \in set}
  IN  [four : some(Ipv4) \cup {<<x, y>> : x \in Ipv4, y \in Ipv4},
       six  : some(Ipv6),
       own  : some(Ipv4 \cup Ipv6)]

Call(s) == setup' = [s EXCEPT !.calls = @ + 1]

StartUp ==
  /\ ~setup.up /\ setup.calls < SetupCalls
  /\ \E a \in Resolved :
       \/ \E f \in FlagSets : Call(Initialise(setup, f, a))
       \/ \E f \in FlagSets : Call(InitPagekiteNet(setup, f, a))
       \/ \E f \in FlagSets, t \in {Tld, NoTld} : Call(InitWhitelabel(setup, f, t, a))
       \/ \E o \in Options : Call(Pagekitec(setup, o, a))

\* The application looks for relays of its own or the service's, to be used
\* beside those it has; the flags need not be those of the start.
AddRelays ==
  /\ setup.up /\ setup.calls < SetupCalls
  /\ \E a \in Resolved, f \in FlagSets :
       \/ Call(AddService(setup, f, a))
       \/ \E t \in {Tld, NoTld} : Call(AddWhitelabel(setup, f, t, a))
       \/ Call(Lookup(setup, OwnName, a.own, "dynamic" \in f))

TearDown ==
  /\ setup.up
  /\ Call(FreeManager(setup))

SetupNext == StartUp \/ AddRelays \/ TearDown

SetupSpec == SetupInit /\ [][SetupNext]_setupVars
-----------------------------------------------------------------------------
(***************************************************************************)
(* Whatever is looked up, by whom and under which names, one address is    *)
(* one relay: two would each be counted, kept alive and connected to.      *)
(***************************************************************************)
RelaysAreDistinct ==
  \A i, j \in DOMAIN setup.relays :
    (setup.relays[i].address = setup.relays[j].address
       /\ setup.relays[i].address # NoAddress) => i = j

(***************************************************************************)
(* The list of certificate names changes owners, from none to the          *)
(* program's own constant to the heap, in the initialisers, in later calls *)
(* and in those that fail half way: it is never lost, never freed when it  *)
(* is not the heap's, and gone when the manager is.                        *)
(***************************************************************************)
NamesAreOwned ==
  /\ ~setup.badFree
  /\ setup.lists = (IF setup.at = "heap" THEN 1 ELSE 0)
  /\ ~setup.up => setup.at = "null"

(***************************************************************************)
(* A manager that was made with relays to be looked up has one.            *)
(***************************************************************************)
RelaysOrNothing == setup.up /\ setup.asked => setup.relays # <<>>

(***************************************************************************)
(* pkconn.c:206-214 asks for a certificate by name (SNI) if there is one   *)
(* name: two names should be two.  A white label without a domain, or      *)
(* adding the service's relays twice, lists the service's name twice.      *)
(***************************************************************************)
NamesDiffer ==
  \A i, j \in DOMAIN setup.names : setup.names[i] = setup.names[j] => i = j
=============================================================================
