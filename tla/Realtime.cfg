CONSTANTS
    Tickets = {t1, t2}
    realtimeTicketTTL = 1
    realtimeIdle = 2
    MaxSent = 2
SPECIFICATION Spec
INVARIANTS RelayInv
PROPERTIES TicketsAreOneTimeTokens SilentRelayEnds
