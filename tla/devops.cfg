SPECIFICATION Spec

CONSTANTS
    Requests = {r1, r2}
    Vhosts = {h1, h2}
    Configured = {h1}

PROPERTIES
    RulesAnswer

\* A process that has ended does nothing more.
CHECK_DEADLOCK FALSE
