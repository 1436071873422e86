--------------------------- MODULE StartupAuthProofs ---------------------------
(***************************************************************************)
(* StartupTypeOK and ServedIsAuthenticated for any clients, settings and   *)
(* texts.                                                                  *)
(*                                                                         *)
(* ServedIsAuthenticated is not inductive: it says nothing of a connection *)
(* that is ready and has sent no statement yet.  StartupInv says of every  *)
(* ready connection what ServedIsAuthenticated says of a served one, and   *)
(* that only ready ones are served.                                        *)
(***************************************************************************)
EXTENDS StartupAuth, TLAPS

\* In cleartext mode the two settings are there and not empty.
ConfigIsComplete ==
    config.mode = "cleartext" => config.username # Empty /\ config.password # Empty

\* A connection becomes ready by the right name and password, and nothing takes
\* either away.
ReadyIsAuthenticated ==
    config.mode = "cleartext" =>
        \A c \in Clients :
            state[c] = "ReadyForQuery" =>
                user[c] = config.username /\ config.password \in sent[c]

ServedIsReady == \A c \in served : state[c] = "ReadyForQuery"

StartupInv == StartupTypeOK /\ ConfigIsComplete /\ ReadyIsAuthenticated /\ ServedIsReady

\* What parse accepts is well typed and complete: the configurations are those
\* of ProxyAuthConfig.
LEMMA ConfigurationsAreComplete ==
    ASSUME NEW x \in Configurations
    PROVE  /\ x \in [mode : {"trust", "cleartext"}, username : Texts \cup {NoText},
                     password : Texts \cup {NoText}]
           /\ x.mode = "cleartext" => x.username # Empty /\ x.password # Empty
<1>1. PICK m \in Modes, u \in Texts \cup {NoText}, p \in Texts \cup {NoText} : x \in parse(m, u, p)
  BY DEF Configurations
<1>2. CASE x = Trust
  BY <1>2 DEF Trust
<1>3. CASE x = [mode |-> "cleartext", username |-> u, password |-> p]
           /\ required_setting(u) /\ required_setting(p)
  BY <1>3 DEF required_setting
<1>4. QED
  BY <1>1, <1>2, <1>3 DEF parse

LEMMA StartupInitially == Init => StartupInv
<1>1. SUFFICES ASSUME Init PROVE StartupInv
  OBVIOUS
<1>2. StartupTypeOK /\ ConfigIsComplete
  BY <1>1, ConfigurationsAreComplete DEF Init, StartupTypeOK, ConfigIsComplete
<1>3. ReadyIsAuthenticated /\ ServedIsReady
  BY <1>1 DEF Init, ReadyIsAuthenticated, ServedIsReady
<1>4. QED
  BY <1>2, <1>3 DEF StartupInv

LEMMA StartupInductive == StartupInv /\ [Next]_vars => StartupInv'
<1>1. SUFFICES ASSUME StartupInv, [Next]_vars PROVE StartupInv'
  OBVIOUS
<1> USE <1>1 DEF StartupInv
<1>2. ASSUME NEW c \in Clients, NEW name \in Texts, trust_startup(c, name)
      PROVE  StartupInv'
  BY <1>2 DEF trust_startup, StartupTypeOK, ConfigIsComplete, ReadyIsAuthenticated, ServedIsReady
<1>3. ASSUME NEW c \in Clients, NEW name \in Texts, cleartext_startup(c, name)
      PROVE  StartupInv'
  \* The connection is not served yet: only ready ones are.
  BY <1>3 DEF cleartext_startup, InStartup, StartupTypeOK, ConfigIsComplete, ReadyIsAuthenticated,
              ServedIsReady
<1>4. ASSUME NEW c \in Clients, NEW password \in Texts, PasswordMessage(c, password)
      PROVE  StartupInv'
  <2>1. StartupTypeOK' /\ ConfigIsComplete'
    BY <1>4 DEF PasswordMessage, StartupTypeOK, ConfigIsComplete
  <2>2. ReadyIsAuthenticated'
    <3>1. SUFFICES ASSUME config'.mode = "cleartext", NEW other \in Clients,
                          state'[other] = "ReadyForQuery"
                   PROVE  user'[other] = config'.username /\ config'.password \in sent'[other]
      BY DEF ReadyIsAuthenticated
    <3>2. CASE other = c
      BY <3>1, <3>2, <1>4 DEF PasswordMessage, Matches, InStartup, StartupTypeOK
    <3>3. CASE other # c
      BY <3>1, <3>3, <1>4 DEF PasswordMessage, StartupTypeOK, ReadyIsAuthenticated
    <3>4. QED
      BY <3>2, <3>3
  <2>3. ServedIsReady'
    BY <1>4 DEF PasswordMessage, StartupTypeOK, ServedIsReady
  <2>4. QED
    BY <2>1, <2>2, <2>3
<1>5. ASSUME NEW c \in Clients, QueryMessage(c)
      PROVE  StartupInv'
  BY <1>5 DEF QueryMessage, InStartup, StartupTypeOK, ConfigIsComplete, ReadyIsAuthenticated,
              ServedIsReady
<1>6. CASE UNCHANGED vars
  BY <1>6 DEF vars, StartupTypeOK, ConfigIsComplete, ReadyIsAuthenticated, ServedIsReady
<1>7. QED
  BY <1>1, <1>2, <1>3, <1>4, <1>5, <1>6 DEF Next

LEMMA StartupInvariant == Spec => []StartupInv
BY StartupInitially, StartupInductive, PTL DEF Spec

\* The type invariant, for any constants.
THEOREM StartupIsTyped == Spec => []StartupTypeOK
<1>1. StartupInv => StartupTypeOK
  BY DEF StartupInv
<1>2. QED
  BY <1>1, StartupInvariant, PTL

\* In cleartext mode no statement of a client that did not give the configured
\* name and password is ever executed.
THEOREM OnlyAuthenticatedAreServed == Spec => []ServedIsAuthenticated
<1>1. StartupInv => ServedIsAuthenticated
  BY DEF StartupInv, StartupTypeOK, ConfigIsComplete, ReadyIsAuthenticated, ServedIsReady,
         ServedIsAuthenticated
<1>2. QED
  BY <1>1, StartupInvariant, PTL

=============================================================================
