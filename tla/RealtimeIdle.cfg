CONSTANTS
    Tickets = {t1}
    realtimeTicketTTL = 1
    realtimeIdle = 2
    MaxSent = 2
SPECIFICATION Spec
PROPERTY CutOnlyWhenIdle
