\* Two calls, every failure.
SPECIFICATION FairSpec
CONSTANTS
    p1 = p1  p2 = p2  c1 = c1  c2 = c2  c3 = c3
    Panels = {p1}
    Calls = {c1, c2}
    PanelOf <- MCPanelOf
    Admits = {"link", "gateway", "panel", "agent", "redis"}
CHECK_DEADLOCK FALSE
PROPERTIES
    
    EveryCallSettles
    NoEntryLeaks
