\* The keyboard (IRQ 1), the RTC (IRQ 8) and a second slave device (IRQ 12);
\* enable_irq / disable_irq also see 16, one past NUM_IRQ.
CONSTANTS
    NUM_IRQ = 15
    ICW3_SLAVE = 2
    Devices = {1, 8, 12}
    Requests = {1, 8, 12, 16}
    NoIrq = NoIrq

SPECIFICATION PicSpec




PROPERTY ImplementsIrqMask
