---------------------------- MODULE SmtpTransports ----------------------------
(***************************************************************************)
(* mailer.ts: every process that talks SMTP keeps one transport per        *)
(* account it has used.  The key is the connection identity (host, port    *)
(* and user, here an account); the password is only read when the          *)
(* transport is made.  No transport is pooled: each use logs in anew.      *)
(***************************************************************************)
CONSTANTS
    Accounts,   \* SMTP accounts: host:port:user
    Passwords,
    Provider,   \* the password the provider accepts for an account
    Processes,  \* processes with a transport cache of their own
    NoPassword  \* no transport cached

ASSUME ProviderAssumption == Provider \in [Accounts -> Passwords]

VARIABLE transports \* the password of the transport cached for an account

Credentials == [account : Accounts, pass : Passwords]

SmtpInit ==
    transports = [p \in Processes |-> [a \in Accounts |-> NoPassword]]

\* getTransport, as a function of the cache.
TransportPassword(p, c) ==
    IF transports[p][c.account] = NoPassword THEN c.pass
                                             ELSE transports[p][c.account]

\* Mutant: the key is the host alone, one for all the accounts here.
MutGetTransportByHost(p, c) ==
    IF \E a \in Accounts : transports[p][a] # NoPassword
    THEN transports' = [transports EXCEPT ![p][c.account] =
                 CHOOSE w \in Passwords : \E a \in Accounts : transports[p][a] = w]
    ELSE transports' = [transports EXCEPT ![p][c.account] = c.pass]

GetTransport(p, c) ==
    transports' = [transports EXCEPT ![p][c.account] = TransportPassword(p, c)]

\* sendEmail and verifyTransport: connect and log in through the transport.
Connect(p, c) == GetTransport(p, c)
LogsIn(p, c) == TransportPassword(p, c) = Provider[c.account]

\* A process that was closed or killed starts again with an empty cache.
CloseTransports(p) ==
    transports' = [transports EXCEPT ![p] = [a \in Accounts |-> NoPassword]]
===============================================================================
