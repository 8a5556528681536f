SPECIFICATION ClientSpec
CONSTANTS
    CommandMax = 1
    PairMax <- MCPairMax
    ClientGenMax = 1
    Answer = {"Available"}
    ClientFaults = {"lost", "terminal"}
PROPERTIES TerminalNeedsNewConnect
