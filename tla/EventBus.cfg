CONSTANTS
  service = service
  agent = agent
  browser = browser
  None = None
  Conns = {service, agent, browser}
  Uids <- MCUids
  SegOf <- MCSegOf
  PeerOf <- MCPeerOf
  IdentityOf <- MCIdentityOf
  Messages <- MCMessages
  BufSize = 2
  Leaving = {agent, browser}
  MaxSent <- MCMaxSent
  MaxUnread = 1
SPECIFICATION FairSpec
INVARIANTS
  SenderIsTrue
  
  WebAgentsSeeOwn
PROPERTIES
  ImplementsLossyLog
  EndedIsClosed
\* every client may have come and gone
CHECK_DEADLOCK FALSE
