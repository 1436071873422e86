------------------------------ MODULE StartupAuth ------------------------------
(***************************************************************************)
(* Startup of connections, before their first statement                    *)
(* (crates/proxy/src/auth.rs).                                             *)
(*                                                                         *)
(* Which handler a message goes to is the pgwire library's choice by the   *)
(* state of the connection (external): on_startup until it is ready for    *)
(* queries, the query handlers of ExtendedQuery from then on.  The library *)
(* reads on after a refusal has closed the sending side; nothing in auth.rs *)
(* stops it, so messages of a refused client are handled like any other.   *)
(***************************************************************************)
EXTENDS Naturals

CONSTANTS
    Clients,
    Modes,      \* values of PROXY_AUTH_MODE, in lower case
    Texts,      \* values of the other settings, and what clients send
    NoText      \* a setting that is not there, a user name not received

\* The empty text is one of the texts, and not one that stands for none.
Empty == ""

ASSUME TextsAssumption == Empty \in Texts /\ NoText \notin Texts

VARIABLES
    config,  \* the proxy's: mode, user name and password
    state,   \* of each connection
    user,    \* the METADATA_USER of each connection
    refused, \* the connections that were sent an error and closed
    sent,    \* the passwords each client has sent
    served   \* the clients a statement was executed for

vars == <<config, state, user, refused, sent, served>>

Trust == [mode |-> "trust", username |-> NoText, password |-> NoText]

\* Mutant: an empty setting is a setting.
required_setting_present(value) == value # NoText

required_setting(value) == value # NoText /\ value # Empty

\* Mutant: any other mode is taken for one that asks for a password.
parse_any_mode(mode, username, password) ==
    {[mode |-> mode, username |-> username, password |-> password]}

\* ProxyAuthConfig::parse: none on an error, and then the proxy does not start.
parse(mode, username, password) ==
    {Trust : m \in {mode} \cap {"trust"}}
    \cup {[mode |-> m, username |-> username, password |-> password] :
             m \in {x \in {mode} \cap {"cleartext"} :
                       required_setting(username) /\ required_setting(password)}}

Configurations ==
    UNION {parse(m, u, p) : m \in Modes, u \in Texts \cup {NoText}, p \in Texts \cup {NoText}}

Init ==
    /\ config \in Configurations
    /\ state = [c \in Clients |-> "AwaitingStartup"]
    /\ user = [c \in Clients |-> NoText]
    /\ refused = {}
    /\ sent = [c \in Clients |-> {}]
    /\ served = {}

\* Messages go to on_startup until the connection is ready for queries.
InStartup(c) == state[c] # "ReadyForQuery"

trust_startup(c, name) ==
    /\ config.mode = "trust"
    /\ InStartup(c)
    /\ user' = [user EXCEPT ![c] = name]
    /\ state' = [state EXCEPT ![c] = "ReadyForQuery"]
    /\ UNCHANGED <<config, refused, sent, served>>

\* The name is kept and a password asked for, whatever the name.
cleartext_startup(c, name) ==
    /\ config.mode = "cleartext"
    /\ InStartup(c)
    /\ user' = [user EXCEPT ![c] = name]
    /\ state' = [state EXCEPT ![c] = "AuthenticationInProgress"]
    /\ UNCHANGED <<config, refused, sent, served>>

\* Mutant: a client without a name passes.
Matches_nameless(c, password) == user[c] \in {config.username, NoText} /\ password = config.password

Matches(c, password) == user[c] = config.username /\ password = config.password

\* A password before any startup message finds no user name.  In trust mode it
\* is ignored.
PasswordMessage(c, password) ==
    /\ InStartup(c)
    /\ sent' = [sent EXCEPT ![c] = @ \cup {password}]
    /\ \/ config.mode = "trust" /\ UNCHANGED <<state, refused>>
       \/ /\ config.mode = "cleartext"
          /\ Matches(c, password)
          /\ state' = [state EXCEPT ![c] = "ReadyForQuery"]
          /\ UNCHANGED refused
       \/ /\ config.mode = "cleartext"
          /\ ~Matches(c, password)
          /\ refused' = refused \cup {c}
          /\ UNCHANGED state
    /\ UNCHANGED <<config, user, served>>

\* A query before the connection is ready is one of the messages ignored.
QueryMessage(c) ==
    /\ ~InStartup(c)
    /\ served' = served \cup {c}
    /\ UNCHANGED <<config, state, user, refused, sent>>

Next ==
    \E c \in Clients :
        \/ \E name \in Texts : trust_startup(c, name) \/ cleartext_startup(c, name)
        \/ \E password \in Texts : PasswordMessage(c, password)
        \/ QueryMessage(c)

Spec == Init /\ [][Next]_vars

-----------------------------------------------------------------------------
(* Properties *)

\* The state has its types, and a configuration is one that parse accepts.
StartupTypeOK ==
    /\ config \in [mode : {"trust", "cleartext"}, username : Texts \cup {NoText},
                   password : Texts \cup {NoText}]
    /\ state \in [Clients -> {"AwaitingStartup", "AuthenticationInProgress", "ReadyForQuery"}]
    /\ user \in [Clients -> Texts \cup {NoText}]
    /\ refused \subseteq Clients
    /\ sent \in [Clients -> SUBSET Texts]
    /\ served \subseteq Clients

\* auth.rs:28: "Require one configured username and cleartext password": in
\* cleartext mode a statement is executed only for a client that gave the
\* configured name and itself sent the configured password, neither of them
\* empty; whatever order its messages come in and whoever else is connected.
ServedIsAuthenticated ==
    config.mode = "cleartext" =>
        \A c \in served :
            /\ user[c] = config.username
            /\ config.password \in sent[c]
            /\ config.username # Empty /\ config.password # Empty

=============================================================================
